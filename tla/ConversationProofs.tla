------------------------- MODULE ConversationProofs -------------------------
(* Proofs about Conversation for every set of users, chats and requests    *)
(* and every SpamLimit.                                                    *)
EXTENDS Conversation, FiniteSetTheorems, TLAPS

-----------------------------------------------------------------------------
(* The inductive invariant, one part per property and one on the flow of   *)
(* control they share.                                                     *)

\* What pc[r] says of r.
Flow ==
    \A r \in Request :
        /\ pc[r] \in {"spam", "insert", "touch", "push"} => req[r].op = "send"
        /\ pc[r] \in {"mark", "zero"} => req[r].op = "read"
        /\ pc[r] = "close" => req[r].op = "close"
        /\ pc[r] \in {"mark", "zero"} => req[r].user \in Members(req[r].chat)
        /\ pc[r] \in {"touch", "push"} => r \in Range(log)
        /\ req[r].op = "send" /\ pc[r] \in {"reply", "done"} => r \in Range(log)
        /\ r \in Range(log) =>
              req[r].op = "send" /\ pc[r] \in {"touch", "push", "reply"} \cup Ended
        /\ \A q \in began[r] : pc[q] \in Answered

\* A chat stays closed, and what was begun after that is not let through.
Closing ==
    /\ \A q \in Request :
          req[q].op = "close" /\ pc[q] \in {"reply", "done"} => status[req[q].chat] # "active"
    /\ \A r \in Request : pc[r] \in {"spam", "insert"} \/ r \in Range(log) =>
          \A q \in began[r] :
              ~ (req[q].op = "close" /\ req[q].chat = req[r].chat /\ pc[q] = "done")

\* ReadReceiptHonest from the moment the rows are updated.
Receipt ==
    \A r \in Request : req[r].op = "read" /\ pc[r] \in {"zero", "reply", "done"} =>
        \A m \in began[r] \cap Stored :
            pc[m] = "done" /\ req[m].chat = req[r].chat /\ req[m].user # req[r].user
            => m \in read

\* ReadOnlyByPeer, of messages that exist and by a request that was made.
Readers ==
    \A m \in read :
        /\ m \in Range(log)
        /\ \E r \in Request :
              /\ pc[r] # "idle"
              /\ req[r].op = "read" /\ req[r].chat = req[m].chat
              /\ req[r].user \in Members(req[m].chat) \ {req[m].user}

\* Whether a message is pushed is decided by one of the values peerSeen holds.
Pushing ==
    \A m \in Request :
        /\ pc[m] \in Awaiting => online[Peer(req[m].chat, req[m].user)] \in peerSeen[m]
        /\ req[m].op = "send" /\ pc[m] \in {"spam", "insert", "touch", "push", "reply", "done"}
              => peerOnline[m] \in peerSeen[m]
        /\ req[m].op = "send" /\ pc[m] \in {"push", "reply", "done"}
              => (m \in pushed <=> ~peerOnline[m])
        /\ pc[m] \in {"idle", "find", "spam", "insert", "touch"} => m \notin pushed

\* No set of messages in which of every two one counted the other is larger
\* than the limit: the newest of them has counted all the others.
Counting ==
    /\ IsFiniteSet(Range(log))
    /\ \A r \in Request :
          /\ counted[r] \subseteq Range(log)
          /\ pc[r] \in {"idle", "find", "spam"} => counted[r] = {}
          /\ pc[r] = "insert" => Cardinality(counted[r]) < SpamLimit
    /\ \A S \in SUBSET Range(log) :
          (\A m1, m2 \in S : m1 = m2 \/ m1 \in counted[m2] \/ m2 \in counted[m1])
          => Cardinality(S) <= SpamLimit

IInv ==
    /\ TypeOK /\ Flow /\ Closing /\ Receipt /\ Readers /\ Pushing
    /\ Counting /\ BroadcastFollowsLog


-----------------------------------------------------------------------------
(* Type correctness                                                        *)

LEMMA AppendRange ==
    ASSUME NEW S, NEW s \in Seq(S), NEW e \in S
    PROVE  Range(Append(s, e)) = Range(s) \cup {e}
<1>1. Range(Append(s, e)) \subseteq Range(s) \cup {e}
  BY DEF Range
<1>2. ASSUME NEW x \in Range(s) PROVE x \in Range(Append(s, e))
  <2>1. PICK i \in DOMAIN s : x = s[i]
    BY <1>2 DEF Range
  <2>2. i \in DOMAIN Append(s, e) /\ Append(s, e)[i] = s[i]
    BY <2>1
  <2> QED
    BY <2>1, <2>2 DEF Range
<1>3. e \in Range(Append(s, e))
  <2>1. Len(s) + 1 \in DOMAIN Append(s, e) /\ Append(s, e)[Len(s) + 1] = e
    OBVIOUS
  <2> QED
    BY <2>1 DEF Range
<1> QED
  BY <1>1, <1>2, <1>3

LEMMA RangeInRequest == TypeOK => Range(log) \subseteq Request /\ Range(emitted) \subseteq Request
BY DEF TypeOK, Range

LEMMA PeerInUser == \A c \in Chat, u \in User : Peer(c, u) \in User
BY ConversationAssumption DEF Peer

LEMMA RecentInLog == TypeOK => \A u \in User : Recent(u) \subseteq Range(log)
BY DEF Recent, Stored

LEMMA UnreadInLog == \A c \in Chat, u \in User : UnreadBy(c, u) \subseteq Range(log)
BY DEF UnreadBy, Stored

LEMMA InitTypeOK == Init => TypeOK
<1> SUFFICES ASSUME Init PROVE TypeOK
  OBVIOUS
<1>1. (CHOOSE a \in Ask : TRUE) \in Ask
  BY ConversationAssumption
<1> QED
  BY <1>1 DEF Init, TypeOK, Awaiting, Ended, Answered

LEMMA NextTypeOK == TypeOK /\ [Next]_vars => TypeOK'
<1> SUFFICES ASSUME TypeOK, [Next]_vars PROVE TypeOK'
  OBVIOUS
<1> USE ConversationAssumption DEF TypeOK, Awaiting, Ended, Answered, ask, rows, sides,
       notes
<1>1. ASSUME NEW r \in Request, Begin(r) PROVE TypeOK'
  <2>1. PICK a \in Ask :
           /\ req' = [req EXCEPT ![r] = a]
           /\ peerSeen' = [peerSeen EXCEPT ![r] = {online[Peer(a.chat, a.user)]}]
    BY <1>1 DEF Begin
  <2>2. online[Peer(a.chat, a.user)] \in BOOLEAN
    BY PeerInUser
  <2>3. {q \in Request : pc[q] \in Answered} \in SUBSET Request
    OBVIOUS
  <2> QED
    BY <1>1, <2>1, <2>2, <2>3 DEF Begin, Goes
<1>2. ASSUME NEW r \in Request, Fail(r) PROVE TypeOK'
  BY <1>2 DEF Fail, Goes
<1>3. ASSUME NEW r \in Request, SendAdmit(r) PROVE TypeOK'
  <2>1. req[r].user \in User /\ req[r].chat \in Chat
    OBVIOUS
  <2>2. online[Peer(req[r].chat, req[r].user)] \in BOOLEAN
    BY <2>1, PeerInUser
  <2> QED
    BY <1>3, <2>2 DEF SendAdmit, Goes
<1>4. ASSUME NEW r \in Request, SendCheck(r) PROVE TypeOK'
  BY <1>4, RecentInLog, RangeInRequest DEF SendCheck, Goes
<1>5. ASSUME NEW r \in Request, SendCheckSkipped(r) PROVE TypeOK'
  BY <1>5 DEF SendCheckSkipped, Goes
<1>6. ASSUME NEW r \in Request, SendSpam(r) PROVE TypeOK'
  BY <1>6 DEF SendSpam, Goes
<1>7. ASSUME NEW r \in Request, SendInsert(r) PROVE TypeOK'
  BY <1>7 DEF SendInsert, Goes
<1>8. ASSUME NEW r \in Request, SendTouch(r) PROVE TypeOK'
  BY <1>8 DEF SendTouch, Goes
<1>9. ASSUME NEW r \in Request, SendPush(r) PROVE TypeOK'
  BY <1>9 DEF SendPush, Goes
<1>10. ASSUME NEW r \in Request, SendReply(r) PROVE TypeOK'
  BY <1>10 DEF SendReply, Goes
<1>11. ASSUME NEW r \in Request, ReadAdmit(r) PROVE TypeOK'
  BY <1>11 DEF ReadAdmit, Goes
<1>12. ASSUME NEW r \in Request, ReadMark(r) PROVE TypeOK'
  BY <1>12, UnreadInLog, RangeInRequest DEF ReadMark, Goes
<1>13. ASSUME NEW r \in Request, ReadZero(r) PROVE TypeOK'
  BY <1>13 DEF ReadZero, Goes
<1>14. ASSUME NEW r \in Request, CloseAdmit(r) PROVE TypeOK'
  BY <1>14 DEF CloseAdmit, Goes
<1>15. ASSUME NEW r \in Request, CloseUpdate(r) PROVE TypeOK'
  BY <1>15 DEF CloseUpdate, Goes
<1>16. ASSUME NEW r \in Request, Reply(r) PROVE TypeOK'
  BY <1>16 DEF Reply, Goes
<1>17. ASSUME NEW c \in Chat, Delete(c) PROVE TypeOK'
  BY <1>17 DEF Delete, Goes
<1>18. ASSUME NEW u \in User, PresenceFlips(u) PROVE TypeOK'
  BY <1>18, PeerInUser DEF PresenceFlips, Goes
<1>19. ASSUME NEW u \in User, TimeoutExpires(u) PROVE TypeOK'
  BY <1>19 DEF TimeoutExpires, Goes
<1>20. CASE AgeOut
  BY <1>20 DEF AgeOut, Goes
<1>21. CASE Crash
  BY <1>21 DEF Crash, Goes
<1>22. CASE UNCHANGED vars
  BY <1>22 DEF vars
<1> QED
  BY <1>1, <1>2, <1>3, <1>4, <1>5, <1>6, <1>7, <1>8, <1>9, <1>10, <1>11, <1>12, <1>13,
       <1>14, <1>15, <1>16, <1>17, <1>18, <1>19, <1>20, <1>21, <1>22 DEF Next, Step

(* Every variable of Conversation keeps to its type in every behaviour.    *)
THEOREM TypeCorrect == Spec => []TypeOK
<1>1. QED
  BY InitTypeOK, NextTypeOK, PTL DEF Spec

-----------------------------------------------------------------------------
(* The parts of the invariant                                              *)

LEMMA NextFlow == TypeOK /\ Flow /\ [Next]_vars => Flow'
<1> SUFFICES ASSUME TypeOK, Flow, [Next]_vars PROVE Flow'
  OBVIOUS
<1> USE ConversationAssumption DEF TypeOK, Flow, Awaiting, Ended, Answered, ask, rows,
       sides, notes
<1>1. ASSUME NEW r \in Request, Begin(r) PROVE Flow'
  BY <1>1 DEF Begin, Goes
<1>2. ASSUME NEW r \in Request, Fail(r) PROVE Flow'
  BY <1>2 DEF Fail, Goes
<1>3. ASSUME NEW r \in Request, SendAdmit(r) PROVE Flow'
  BY <1>3 DEF SendAdmit, Goes
<1>4. ASSUME NEW r \in Request, SendCheck(r) PROVE Flow'
  BY <1>4 DEF SendCheck, Goes
<1>5. ASSUME NEW r \in Request, SendCheckSkipped(r) PROVE Flow'
  BY <1>5 DEF SendCheckSkipped, Goes
<1>6. ASSUME NEW r \in Request, SendSpam(r) PROVE Flow'
  BY <1>6 DEF SendSpam, Goes
<1>7. ASSUME NEW r \in Request, SendInsert(r) PROVE Flow'
  BY <1>7, AppendRange DEF SendInsert, Goes
<1>8. ASSUME NEW r \in Request, SendTouch(r) PROVE Flow'
  BY <1>8 DEF SendTouch, Goes
<1>9. ASSUME NEW r \in Request, SendPush(r) PROVE Flow'
  BY <1>9 DEF SendPush, Goes
<1>10. ASSUME NEW r \in Request, SendReply(r) PROVE Flow'
  BY <1>10 DEF SendReply, Goes
<1>11. ASSUME NEW r \in Request, ReadAdmit(r) PROVE Flow'
  BY <1>11 DEF ReadAdmit, Goes, Admitted
<1>12. ASSUME NEW r \in Request, ReadMark(r) PROVE Flow'
  BY <1>12 DEF ReadMark, Goes
<1>13. ASSUME NEW r \in Request, ReadZero(r) PROVE Flow'
  BY <1>13 DEF ReadZero, Goes
<1>14. ASSUME NEW r \in Request, CloseAdmit(r) PROVE Flow'
  BY <1>14 DEF CloseAdmit, Goes
<1>15. ASSUME NEW r \in Request, CloseUpdate(r) PROVE Flow'
  BY <1>15 DEF CloseUpdate, Goes
<1>16. ASSUME NEW r \in Request, Reply(r) PROVE Flow'
  BY <1>16 DEF Reply, Goes
<1>17. ASSUME NEW c \in Chat, Delete(c) PROVE Flow'
  BY <1>17 DEF Delete, Goes
<1>18. ASSUME NEW u \in User, PresenceFlips(u) PROVE Flow'
  BY <1>18 DEF PresenceFlips, Goes
<1>19. ASSUME NEW u \in User, TimeoutExpires(u) PROVE Flow'
  BY <1>19 DEF TimeoutExpires, Goes
<1>20. CASE AgeOut
  BY <1>20 DEF AgeOut, Goes
<1>21. CASE Crash
  BY <1>21 DEF Crash, Goes
<1>22. CASE UNCHANGED vars
  BY <1>22 DEF vars
<1> QED
  BY <1>1, <1>2, <1>3, <1>4, <1>5, <1>6, <1>7, <1>8, <1>9, <1>10, <1>11, <1>12, <1>13,
       <1>14, <1>15, <1>16, <1>17, <1>18, <1>19, <1>20, <1>21, <1>22 DEF Next, Step

LEMMA NextClosing == TypeOK /\ Flow /\ Closing /\ [Next]_vars => Closing'
<1> SUFFICES ASSUME TypeOK, Flow, Closing, [Next]_vars PROVE Closing'
  OBVIOUS
<1> USE ConversationAssumption DEF TypeOK, Flow, Closing, Awaiting, Ended, Answered,
       ask, rows, sides, notes
<1>1. ASSUME NEW r \in Request, Begin(r) PROVE Closing'
  <2>1. PICK a \in Ask : req' = [req EXCEPT ![r] = a]
    BY <1>1 DEF Begin
  <2>2. /\ pc[r] = "idle" /\ pc' = [pc EXCEPT ![r] = "find"]
        /\ began' = [began EXCEPT ![r] = {q \in Request : pc[q] \in Answered}]
        /\ UNCHANGED rows
    BY <1>1 DEF Begin, Goes
  <2>3. r \notin Range(log)
    BY <2>2
  <2> QED
    BY <2>1, <2>2, <2>3
<1>2. ASSUME NEW r \in Request, Fail(r) PROVE Closing'
  BY <1>2 DEF Fail, Goes
<1>3. ASSUME NEW r \in Request, SendAdmit(r) PROVE Closing'
  BY <1>3 DEF SendAdmit, Goes
<1>4. ASSUME NEW r \in Request, SendCheck(r) PROVE Closing'
  BY <1>4 DEF SendCheck, Goes
<1>5. ASSUME NEW r \in Request, SendCheckSkipped(r) PROVE Closing'
  BY <1>5 DEF SendCheckSkipped, Goes
<1>6. ASSUME NEW r \in Request, SendSpam(r) PROVE Closing'
  BY <1>6 DEF SendSpam, Goes
<1>7. ASSUME NEW r \in Request, SendInsert(r) PROVE Closing'
  BY <1>7, AppendRange DEF SendInsert, Goes
<1>8. ASSUME NEW r \in Request, SendTouch(r) PROVE Closing'
  BY <1>8 DEF SendTouch, Goes
<1>9. ASSUME NEW r \in Request, SendPush(r) PROVE Closing'
  BY <1>9 DEF SendPush, Goes
<1>10. ASSUME NEW r \in Request, SendReply(r) PROVE Closing'
  BY <1>10 DEF SendReply, Goes
<1>11. ASSUME NEW r \in Request, ReadAdmit(r) PROVE Closing'
  BY <1>11 DEF ReadAdmit, Goes
<1>12. ASSUME NEW r \in Request, ReadMark(r) PROVE Closing'
  BY <1>12 DEF ReadMark, Goes
<1>13. ASSUME NEW r \in Request, ReadZero(r) PROVE Closing'
  BY <1>13 DEF ReadZero, Goes
<1>14. ASSUME NEW r \in Request, CloseAdmit(r) PROVE Closing'
  BY <1>14 DEF CloseAdmit, Goes
<1>15. ASSUME NEW r \in Request, CloseUpdate(r) PROVE Closing'
  BY <1>15 DEF CloseUpdate, Goes
<1>16. ASSUME NEW r \in Request, Reply(r) PROVE Closing'
  BY <1>16 DEF Reply, Goes
<1>17. ASSUME NEW c \in Chat, Delete(c) PROVE Closing'
  BY <1>17 DEF Delete, Goes
<1>18. ASSUME NEW u \in User, PresenceFlips(u) PROVE Closing'
  BY <1>18 DEF PresenceFlips, Goes
<1>19. ASSUME NEW u \in User, TimeoutExpires(u) PROVE Closing'
  BY <1>19 DEF TimeoutExpires, Goes
<1>20. CASE AgeOut
  BY <1>20 DEF AgeOut, Goes
<1>21. CASE Crash
  BY <1>21 DEF Crash, Goes
<1>22. CASE UNCHANGED vars
  BY <1>22 DEF vars
<1> QED
  BY <1>1, <1>2, <1>3, <1>4, <1>5, <1>6, <1>7, <1>8, <1>9, <1>10, <1>11, <1>12, <1>13,
       <1>14, <1>15, <1>16, <1>17, <1>18, <1>19, <1>20, <1>21, <1>22 DEF Next, Step

LEMMA NextReceipt == TypeOK /\ Flow /\ Receipt /\ [Next]_vars => Receipt'
<1> SUFFICES ASSUME TypeOK, Flow, Receipt, [Next]_vars PROVE Receipt'
  OBVIOUS
<1> USE ConversationAssumption DEF TypeOK, Flow, Receipt, Stored, Awaiting, Ended,
       Answered, ask, rows, sides, notes
<1>1. ASSUME NEW r \in Request, Begin(r) PROVE Receipt'
  BY <1>1 DEF Begin, Goes
<1>2. ASSUME NEW r \in Request, Fail(r) PROVE Receipt'
  BY <1>2 DEF Fail, Goes
<1>3. ASSUME NEW r \in Request, SendAdmit(r) PROVE Receipt'
  BY <1>3 DEF SendAdmit, Goes
<1>4. ASSUME NEW r \in Request, SendCheck(r) PROVE Receipt'
  BY <1>4 DEF SendCheck, Goes
<1>5. ASSUME NEW r \in Request, SendCheckSkipped(r) PROVE Receipt'
  BY <1>5 DEF SendCheckSkipped, Goes
<1>6. ASSUME NEW r \in Request, SendSpam(r) PROVE Receipt'
  BY <1>6 DEF SendSpam, Goes
<1>7. ASSUME NEW r \in Request, SendInsert(r) PROVE Receipt'
  BY <1>7, AppendRange DEF SendInsert, Goes
<1>8. ASSUME NEW r \in Request, SendTouch(r) PROVE Receipt'
  BY <1>8 DEF SendTouch, Goes
<1>9. ASSUME NEW r \in Request, SendPush(r) PROVE Receipt'
  BY <1>9 DEF SendPush, Goes
<1>10. ASSUME NEW r \in Request, SendReply(r) PROVE Receipt'
  BY <1>10 DEF SendReply, Goes
<1>11. ASSUME NEW r \in Request, ReadAdmit(r) PROVE Receipt'
  BY <1>11 DEF ReadAdmit, Goes
<1>12. ASSUME NEW r \in Request, ReadMark(r) PROVE Receipt'
  BY <1>12 DEF ReadMark, Goes, UnreadBy
<1>13. ASSUME NEW r \in Request, ReadZero(r) PROVE Receipt'
  BY <1>13 DEF ReadZero, Goes
<1>14. ASSUME NEW r \in Request, CloseAdmit(r) PROVE Receipt'
  BY <1>14 DEF CloseAdmit, Goes
<1>15. ASSUME NEW r \in Request, CloseUpdate(r) PROVE Receipt'
  BY <1>15 DEF CloseUpdate, Goes
<1>16. ASSUME NEW r \in Request, Reply(r) PROVE Receipt'
  BY <1>16 DEF Reply, Goes
<1>17. ASSUME NEW c \in Chat, Delete(c) PROVE Receipt'
  BY <1>17 DEF Delete, Goes
<1>18. ASSUME NEW u \in User, PresenceFlips(u) PROVE Receipt'
  BY <1>18 DEF PresenceFlips, Goes
<1>19. ASSUME NEW u \in User, TimeoutExpires(u) PROVE Receipt'
  BY <1>19 DEF TimeoutExpires, Goes
<1>20. CASE AgeOut
  BY <1>20 DEF AgeOut, Goes
<1>21. CASE Crash
  BY <1>21 DEF Crash, Goes
<1>22. CASE UNCHANGED vars
  BY <1>22 DEF vars
<1> QED
  BY <1>1, <1>2, <1>3, <1>4, <1>5, <1>6, <1>7, <1>8, <1>9, <1>10, <1>11, <1>12, <1>13,
       <1>14, <1>15, <1>16, <1>17, <1>18, <1>19, <1>20, <1>21, <1>22 DEF Next, Step

LEMMA NextReaders == TypeOK /\ Flow /\ Readers /\ [Next]_vars => Readers'
<1> SUFFICES ASSUME TypeOK, Flow, Readers, [Next]_vars PROVE Readers'
  OBVIOUS
<1> USE ConversationAssumption DEF TypeOK, Flow, Readers, Awaiting, Ended, Answered,
       ask, rows, sides, notes
<1>1. ASSUME NEW r \in Request, Begin(r) PROVE Readers'
  <2>1. PICK a \in Ask : req' = [req EXCEPT ![r] = a]
    BY <1>1 DEF Begin
  <2>2. /\ pc[r] = "idle" /\ pc' = [pc EXCEPT ![r] = "find"]
        /\ began' = [began EXCEPT ![r] = {q \in Request : pc[q] \in Answered}]
        /\ UNCHANGED rows
    BY <1>1 DEF Begin, Goes
  <2>3. r \notin Range(log)
    BY <2>2
  <2>4. ASSUME NEW m \in read
        PROVE  /\ m \in Range(log) /\ m # r
               /\ \E q \in Request :
                     /\ q # r /\ pc[q] # "idle"
                     /\ req[q].op = "read" /\ req[q].chat = req[m].chat
                     /\ req[q].user \in Members(req[m].chat) \ {req[m].user}
    BY <2>2, <2>3
  <2>5. \A q \in Request \ {r} : req'[q] = req[q] /\ pc'[q] = pc[q]
    BY <2>1, <2>2
  <2>6. read' = read /\ log' = log /\ read \subseteq Request
    BY <2>2
  <2>7. ASSUME NEW m \in read'
        PROVE  /\ m \in Range(log')
               /\ \E q \in Request :
                     /\ pc'[q] # "idle"
                     /\ req'[q].op = "read" /\ req'[q].chat = req'[m].chat
                     /\ req'[q].user \in Members(req'[m].chat) \ {req'[m].user}
    <3>1. m \in read /\ m \in Request \ {r}
      BY <2>4, <2>6
    <3>2. PICK q \in Request :
             /\ q # r /\ pc[q] # "idle"
             /\ req[q].op = "read" /\ req[q].chat = req[m].chat
             /\ req[q].user \in Members(req[m].chat) \ {req[m].user}
      BY <2>4, <3>1
    <3> QED
      BY <2>4, <2>5, <2>6, <3>1, <3>2
  <2> QED
    BY <2>7 DEF Readers
<1>2. ASSUME NEW r \in Request, Fail(r) PROVE Readers'
  BY <1>2 DEF Fail, Goes
<1>3. ASSUME NEW r \in Request, SendAdmit(r) PROVE Readers'
  BY <1>3 DEF SendAdmit, Goes
<1>4. ASSUME NEW r \in Request, SendCheck(r) PROVE Readers'
  BY <1>4 DEF SendCheck, Goes
<1>5. ASSUME NEW r \in Request, SendCheckSkipped(r) PROVE Readers'
  BY <1>5 DEF SendCheckSkipped, Goes
<1>6. ASSUME NEW r \in Request, SendSpam(r) PROVE Readers'
  BY <1>6 DEF SendSpam, Goes
<1>7. ASSUME NEW r \in Request, SendInsert(r) PROVE Readers'
  BY <1>7, AppendRange DEF SendInsert, Goes
<1>8. ASSUME NEW r \in Request, SendTouch(r) PROVE Readers'
  BY <1>8 DEF SendTouch, Goes
<1>9. ASSUME NEW r \in Request, SendPush(r) PROVE Readers'
  BY <1>9 DEF SendPush, Goes
<1>10. ASSUME NEW r \in Request, SendReply(r) PROVE Readers'
  BY <1>10 DEF SendReply, Goes
<1>11. ASSUME NEW r \in Request, ReadAdmit(r) PROVE Readers'
  BY <1>11 DEF ReadAdmit, Goes
<1>12. ASSUME NEW r \in Request, ReadMark(r) PROVE Readers'
  <2>1. /\ pc[r] = "mark" /\ pc' = [pc EXCEPT ![r] = "zero"]
        /\ req[r].op = "read" /\ req[r].user \in Members(req[r].chat)
        /\ UNCHANGED <<log, req>>
    BY <1>12 DEF ReadMark, Goes
  <2>2. ASSUME NEW m \in read', m \notin read
        PROVE  m \in Range(log) /\ req[m].chat = req[r].chat /\ req[m].user # req[r].user
    BY <1>12, <2>2 DEF ReadMark, UnreadBy, Stored
  <2>3. ASSUME NEW m \in read
        PROVE  /\ m \in Range(log)
               /\ \E q \in Request :
                     /\ pc'[q] # "idle"
                     /\ req[q].op = "read" /\ req[q].chat = req[m].chat
                     /\ req[q].user \in Members(req[m].chat) \ {req[m].user}
    BY <2>1
  <2>4. pc'[r] # "idle"
    BY <2>1
  <2> QED
    BY <2>1, <2>2, <2>3, <2>4 DEF Readers
<1>13. ASSUME NEW r \in Request, ReadZero(r) PROVE Readers'
  BY <1>13 DEF ReadZero, Goes
<1>14. ASSUME NEW r \in Request, CloseAdmit(r) PROVE Readers'
  BY <1>14 DEF CloseAdmit, Goes
<1>15. ASSUME NEW r \in Request, CloseUpdate(r) PROVE Readers'
  BY <1>15 DEF CloseUpdate, Goes
<1>16. ASSUME NEW r \in Request, Reply(r) PROVE Readers'
  BY <1>16 DEF Reply, Goes
<1>17. ASSUME NEW c \in Chat, Delete(c) PROVE Readers'
  BY <1>17 DEF Delete, Goes
<1>18. ASSUME NEW u \in User, PresenceFlips(u) PROVE Readers'
  BY <1>18 DEF PresenceFlips, Goes
<1>19. ASSUME NEW u \in User, TimeoutExpires(u) PROVE Readers'
  BY <1>19 DEF TimeoutExpires, Goes
<1>20. CASE AgeOut
  BY <1>20 DEF AgeOut, Goes
<1>21. CASE Crash
  BY <1>21 DEF Crash, Goes
<1>22. CASE UNCHANGED vars
  BY <1>22 DEF vars
<1> QED
  BY <1>1, <1>2, <1>3, <1>4, <1>5, <1>6, <1>7, <1>8, <1>9, <1>10, <1>11, <1>12, <1>13,
       <1>14, <1>15, <1>16, <1>17, <1>18, <1>19, <1>20, <1>21, <1>22 DEF Next, Step

LEMMA NextPushing == TypeOK /\ Flow /\ Pushing /\ [Next]_vars => Pushing'
<1> SUFFICES ASSUME TypeOK, Flow, Pushing, [Next]_vars PROVE Pushing'
  OBVIOUS
<1> USE ConversationAssumption DEF TypeOK, Flow, Pushing, Awaiting, Ended, Answered,
       ask, rows, sides, notes
<1>1. ASSUME NEW r \in Request, Begin(r) PROVE Pushing'
  BY <1>1 DEF Begin, Goes
<1>2. ASSUME NEW r \in Request, Fail(r) PROVE Pushing'
  BY <1>2 DEF Fail, Goes
<1>3. ASSUME NEW r \in Request, SendAdmit(r) PROVE Pushing'
  BY <1>3 DEF SendAdmit, Goes
<1>4. ASSUME NEW r \in Request, SendCheck(r) PROVE Pushing'
  BY <1>4 DEF SendCheck, Goes
<1>5. ASSUME NEW r \in Request, SendCheckSkipped(r) PROVE Pushing'
  BY <1>5 DEF SendCheckSkipped, Goes
<1>6. ASSUME NEW r \in Request, SendSpam(r) PROVE Pushing'
  BY <1>6 DEF SendSpam, Goes
<1>7. ASSUME NEW r \in Request, SendInsert(r) PROVE Pushing'
  BY <1>7 DEF SendInsert, Goes
<1>8. ASSUME NEW r \in Request, SendTouch(r) PROVE Pushing'
  BY <1>8 DEF SendTouch, Goes
<1>9. ASSUME NEW r \in Request, SendPush(r) PROVE Pushing'
  BY <1>9 DEF SendPush, Goes
<1>10. ASSUME NEW r \in Request, SendReply(r) PROVE Pushing'
  BY <1>10 DEF SendReply, Goes
<1>11. ASSUME NEW r \in Request, ReadAdmit(r) PROVE Pushing'
  BY <1>11 DEF ReadAdmit, Goes
<1>12. ASSUME NEW r \in Request, ReadMark(r) PROVE Pushing'
  BY <1>12 DEF ReadMark, Goes
<1>13. ASSUME NEW r \in Request, ReadZero(r) PROVE Pushing'
  BY <1>13 DEF ReadZero, Goes
<1>14. ASSUME NEW r \in Request, CloseAdmit(r) PROVE Pushing'
  BY <1>14 DEF CloseAdmit, Goes
<1>15. ASSUME NEW r \in Request, CloseUpdate(r) PROVE Pushing'
  BY <1>15 DEF CloseUpdate, Goes
<1>16. ASSUME NEW r \in Request, Reply(r) PROVE Pushing'
  BY <1>16 DEF Reply, Goes
<1>17. ASSUME NEW c \in Chat, Delete(c) PROVE Pushing'
  BY <1>17 DEF Delete, Goes
<1>18. ASSUME NEW u \in User, PresenceFlips(u) PROVE Pushing'
  BY <1>18 DEF PresenceFlips, Goes
<1>19. ASSUME NEW u \in User, TimeoutExpires(u) PROVE Pushing'
  BY <1>19 DEF TimeoutExpires, Goes
<1>20. CASE AgeOut
  BY <1>20 DEF AgeOut, Goes
<1>21. CASE Crash
  BY <1>21 DEF Crash, Goes
<1>22. CASE UNCHANGED vars
  BY <1>22 DEF vars
<1> QED
  BY <1>1, <1>2, <1>3, <1>4, <1>5, <1>6, <1>7, <1>8, <1>9, <1>10, <1>11, <1>12, <1>13,
       <1>14, <1>15, <1>16, <1>17, <1>18, <1>19, <1>20, <1>21, <1>22 DEF Next, Step

\* Counting looks at log, counted and two facts about pc; most steps change none.
CountingUndisturbed ==
    /\ log' = log /\ counted' = counted
    /\ \A q \in Request :
          /\ pc'[q] \in {"idle", "find", "spam"} => pc[q] \in {"idle", "find", "spam"}
          /\ pc'[q] = "insert" => pc[q] = "insert"

LEMMA CountingFrame == Counting /\ CountingUndisturbed => Counting'
<1> SUFFICES ASSUME Counting, CountingUndisturbed PROVE Counting'
  OBVIOUS
<1>1. Range(log') = Range(log)
  BY DEF CountingUndisturbed
<1> QED
  BY <1>1 DEF Counting, CountingUndisturbed

LEMMA NextCounting == TypeOK /\ Flow /\ Counting /\ [Next]_vars => Counting'
<1> SUFFICES ASSUME TypeOK, Flow, Counting, [Next]_vars PROVE Counting'
  OBVIOUS
<1> USE ConversationAssumption DEF TypeOK, Flow, Awaiting, Ended, Answered, ask, rows,
       sides, notes
<1>1. ASSUME NEW r \in Request, Begin(r) PROVE Counting'
  BY <1>1, CountingFrame DEF Begin, Goes, CountingUndisturbed
<1>2. ASSUME NEW r \in Request, Fail(r) PROVE Counting'
  BY <1>2, CountingFrame DEF Fail, Goes, CountingUndisturbed
<1>3. ASSUME NEW r \in Request, SendAdmit(r) PROVE Counting'
  BY <1>3, CountingFrame DEF SendAdmit, Goes, CountingUndisturbed
<1>4. ASSUME NEW r \in Request, SendCheck(r) PROVE Counting'
  <2> DEFINE R == Recent(req[r].user)
  <2>1. /\ pc[r] = "spam" /\ pc' = [pc EXCEPT ![r] = "insert"]
        /\ Cardinality(R) < SpamLimit
        /\ counted' = [counted EXCEPT ![r] = R]
        /\ UNCHANGED log
    BY <1>4 DEF SendCheck, Goes
  <2>2. R \subseteq Range(log)
    BY RecentInLog
  <2>3. r \notin Range(log)
    BY <2>1
  <2>4. \A m \in Range(log) : counted'[m] = counted[m]
    BY <2>1, <2>3, RangeInRequest
  <2> HIDE DEF R
  <2>5. \A q \in Request :
           /\ counted'[q] \subseteq Range(log')
           /\ pc'[q] \in {"idle", "find", "spam"} => counted'[q] = {}
           /\ pc'[q] = "insert" => Cardinality(counted'[q]) < SpamLimit
    BY <2>1, <2>2 DEF Counting
  <2> QED
    BY <2>1, <2>4, <2>5 DEF Counting
<1>5. ASSUME NEW r \in Request, SendCheckSkipped(r) PROVE Counting'
  <2>1. /\ log' = log /\ counted' = counted
        /\ pc[r] = "spam" /\ pc' = [pc EXCEPT ![r] = "insert"]
    BY <1>5 DEF SendCheckSkipped, Goes
  <2>2. Cardinality(counted[r]) < SpamLimit
    <3>1. counted[r] = {}
      BY <2>1 DEF Counting
    <3> QED
      BY <3>1, FS_EmptySet
  <2>3. \A q \in Request :
           /\ counted'[q] \subseteq Range(log')
           /\ pc'[q] \in {"idle", "find", "spam"} => counted'[q] = {}
           /\ pc'[q] = "insert" => Cardinality(counted'[q]) < SpamLimit
    BY <2>1, <2>2 DEF Counting
  <2>4. IsFiniteSet(Range(log)) /\ Range(log') = Range(log)
    BY <2>1 DEF Counting
  <2> QED
    BY <2>1, <2>3, <2>4 DEF Counting
<1>6. ASSUME NEW r \in Request, SendSpam(r) PROVE Counting'
  BY <1>6, CountingFrame DEF SendSpam, Goes, CountingUndisturbed
<1>7. ASSUME NEW r \in Request, SendInsert(r) PROVE Counting'
  <2>1. /\ pc[r] = "insert" /\ pc' = [pc EXCEPT ![r] = "touch"]
        /\ Range(log') = Range(log) \cup {r}
        /\ counted' = counted
    BY <1>7, AppendRange DEF SendInsert, Goes
  <2>2. r \notin Range(log) /\ IsFiniteSet(Range(log'))
    <3>1. r \notin Range(log) /\ IsFiniteSet(Range(log))
      BY <2>1 DEF Counting
    <3> QED
      BY <2>1, <3>1, FS_AddElement
  <2>3. \A q \in Request :
           /\ counted'[q] \subseteq Range(log')
           /\ pc'[q] \in {"idle", "find", "spam"} => counted'[q] = {}
           /\ pc'[q] = "insert" => Cardinality(counted'[q]) < SpamLimit
    BY <2>1 DEF Counting
  <2>4. ASSUME NEW S \in SUBSET Range(log'),
               \A m1, m2 \in S : m1 = m2 \/ m1 \in counted[m2] \/ m2 \in counted[m1]
        PROVE  Cardinality(S) <= SpamLimit
    <3>1. CASE r \notin S
      <4>1. S \in SUBSET Range(log)
        BY <2>1, <3>1
      <4> QED
        BY <2>4, <4>1 DEF Counting
    <3>2. CASE r \in S
      <4>1. \A m \in S : r \notin counted[m]
        BY <2>1, <2>2, RangeInRequest DEF Counting
      <4>2. S \ {r} \in SUBSET counted[r]
        BY <2>4, <3>2, <4>1
      <4>3. IsFiniteSet(counted[r]) /\ Cardinality(counted[r]) \in Nat
        BY FS_Subset, FS_CardinalityType DEF Counting
      <4>4. IsFiniteSet(S \ {r}) /\ Cardinality(S \ {r}) <= Cardinality(counted[r])
        BY <4>2, <4>3, FS_Subset
      <4>5. Cardinality((S \ {r}) \cup {r}) = Cardinality(S \ {r}) + 1
        BY <4>4, FS_AddElement
      <4>6. (S \ {r}) \cup {r} = S
        BY <3>2
      <4>7. Cardinality(counted[r]) < SpamLimit
        BY <2>1 DEF Counting
      <4>8. Cardinality(S \ {r}) \in Nat
        BY <4>4, FS_CardinalityType
      <4>9. Cardinality(S) = Cardinality(S \ {r}) + 1
        BY <4>5, <4>6
      <4> QED
        BY <4>3, <4>4, <4>7, <4>8, <4>9
    <3> QED
      BY <3>1, <3>2
  <2> QED
    BY <2>1, <2>2, <2>3, <2>4 DEF Counting
<1>8. ASSUME NEW r \in Request, SendTouch(r) PROVE Counting'
  BY <1>8, CountingFrame DEF SendTouch, Goes, CountingUndisturbed
<1>9. ASSUME NEW r \in Request, SendPush(r) PROVE Counting'
  BY <1>9, CountingFrame DEF SendPush, Goes, CountingUndisturbed
<1>10. ASSUME NEW r \in Request, SendReply(r) PROVE Counting'
  BY <1>10, CountingFrame DEF SendReply, Goes, CountingUndisturbed
<1>11. ASSUME NEW r \in Request, ReadAdmit(r) PROVE Counting'
  BY <1>11, CountingFrame DEF ReadAdmit, Goes, CountingUndisturbed
<1>12. ASSUME NEW r \in Request, ReadMark(r) PROVE Counting'
  BY <1>12, CountingFrame DEF ReadMark, Goes, CountingUndisturbed
<1>13. ASSUME NEW r \in Request, ReadZero(r) PROVE Counting'
  BY <1>13, CountingFrame DEF ReadZero, Goes, CountingUndisturbed
<1>14. ASSUME NEW r \in Request, CloseAdmit(r) PROVE Counting'
  BY <1>14, CountingFrame DEF CloseAdmit, Goes, CountingUndisturbed
<1>15. ASSUME NEW r \in Request, CloseUpdate(r) PROVE Counting'
  BY <1>15, CountingFrame DEF CloseUpdate, Goes, CountingUndisturbed
<1>16. ASSUME NEW r \in Request, Reply(r) PROVE Counting'
  BY <1>16, CountingFrame DEF Reply, Goes, CountingUndisturbed
<1>17. ASSUME NEW c \in Chat, Delete(c) PROVE Counting'
  BY <1>17, CountingFrame DEF Delete, Goes, CountingUndisturbed
<1>18. ASSUME NEW u \in User, PresenceFlips(u) PROVE Counting'
  BY <1>18, CountingFrame DEF PresenceFlips, Goes, CountingUndisturbed
<1>19. ASSUME NEW u \in User, TimeoutExpires(u) PROVE Counting'
  BY <1>19, CountingFrame DEF TimeoutExpires, Goes, CountingUndisturbed
<1>20. CASE AgeOut
  BY <1>20, CountingFrame DEF AgeOut, Goes, CountingUndisturbed
<1>21. CASE Crash
  BY <1>21, CountingFrame DEF Crash, Goes, CountingUndisturbed
<1>22. CASE UNCHANGED vars
  BY <1>22, CountingFrame DEF vars, CountingUndisturbed
<1> QED
  BY <1>1, <1>2, <1>3, <1>4, <1>5, <1>6, <1>7, <1>8, <1>9, <1>10, <1>11, <1>12, <1>13,
       <1>14, <1>15, <1>16, <1>17, <1>18, <1>19, <1>20, <1>21, <1>22 DEF Next, Step

LEMMA NextBroadcast == TypeOK /\ Flow /\ BroadcastFollowsLog /\ [Next]_vars =>
       BroadcastFollowsLog'
<1> SUFFICES ASSUME TypeOK, Flow, BroadcastFollowsLog, [Next]_vars PROVE
       BroadcastFollowsLog'
  OBVIOUS
<1> USE ConversationAssumption DEF TypeOK, Flow, BroadcastFollowsLog, Awaiting, Ended,
       Answered, ask, rows, sides, notes
<1>1. ASSUME NEW r \in Request, Begin(r) PROVE BroadcastFollowsLog'
  <2>1. /\ pc[r] = "idle" /\ pc' = [pc EXCEPT ![r] = "find"]
        /\ UNCHANGED <<log, emitted>>
    BY <1>1 DEF Begin, Goes
  <2>2. r \notin Range(log) /\ r \notin Range(emitted)
    BY <2>1
  <2>3. \A q \in Request \ {r} : began'[q] = began[q]
    BY <1>1 DEF Begin
  <2>4. \A i \in DOMAIN log : began'[log[i]] = began[log[i]]
    BY <2>2, <2>3 DEF Range
  <2>5. \A i \in DOMAIN emitted : began'[emitted[i]] = began[emitted[i]]
    BY <2>2, <2>3 DEF Range
  <2>6. Range(emitted') = {m \in Range(log') : pc'[m] = "done"}
    BY <2>1, <2>2
  <2> QED
    BY <2>1, <2>4, <2>5, <2>6
<1>2. ASSUME NEW r \in Request, Fail(r) PROVE BroadcastFollowsLog'
  BY <1>2 DEF Fail, Goes
<1>3. ASSUME NEW r \in Request, SendAdmit(r) PROVE BroadcastFollowsLog'
  BY <1>3 DEF SendAdmit, Goes
<1>4. ASSUME NEW r \in Request, SendCheck(r) PROVE BroadcastFollowsLog'
  BY <1>4 DEF SendCheck, Goes
<1>5. ASSUME NEW r \in Request, SendCheckSkipped(r) PROVE BroadcastFollowsLog'
  BY <1>5 DEF SendCheckSkipped, Goes
<1>6. ASSUME NEW r \in Request, SendSpam(r) PROVE BroadcastFollowsLog'
  BY <1>6 DEF SendSpam, Goes
<1>7. ASSUME NEW r \in Request, SendInsert(r) PROVE BroadcastFollowsLog'
  <2>1. /\ pc[r] = "insert" /\ pc' = [pc EXCEPT ![r] = "touch"]
        /\ log' = Append(log, r) /\ UNCHANGED <<emitted, began>>
    BY <1>7 DEF SendInsert, Goes
  <2>2. Range(log') = Range(log) \cup {r}
    BY <2>1, AppendRange
  <2>3. r \notin Range(log)
    BY <2>1
  <2>4. Range(emitted') = {m \in Range(log') : pc'[m] = "done"}
    BY <2>1, <2>2, <2>3, RangeInRequest
  <2>5. ASSUME NEW i \in DOMAIN log', NEW j \in DOMAIN log', i < j
        PROVE  log'[i] # log'[j] /\ log'[j] \notin began'[log'[i]]
    <3>1. i \in DOMAIN log /\ log'[i] = log[i] /\ log[i] \in Range(log)
      BY <2>1, <2>5 DEF Range
    <3>2. CASE j \in DOMAIN log
      BY <2>1, <2>5, <3>1, <3>2
    <3>3. CASE j \notin DOMAIN log
      <4>1. log'[j] = r
        BY <2>1, <3>3
      <4>2. r \notin began[log[i]]
        BY <2>1, <3>1, RangeInRequest
      <4> QED
        BY <2>1, <2>3, <3>1, <4>1, <4>2
    <3> QED
      BY <3>2, <3>3
  <2> QED
    BY <2>1, <2>4, <2>5
<1>8. ASSUME NEW r \in Request, SendTouch(r) PROVE BroadcastFollowsLog'
  BY <1>8 DEF SendTouch, Goes
<1>9. ASSUME NEW r \in Request, SendPush(r) PROVE BroadcastFollowsLog'
  BY <1>9 DEF SendPush, Goes
<1>10. ASSUME NEW r \in Request, SendReply(r) PROVE BroadcastFollowsLog'
  <2>1. /\ pc[r] = "reply" /\ req[r].op = "send" /\ pc' = [pc EXCEPT ![r] = "done"]
        /\ emitted' = Append(emitted, r) /\ UNCHANGED <<log, began>>
    BY <1>10 DEF SendReply, Goes
  <2>2. Range(emitted') = Range(emitted) \cup {r}
    BY <2>1, AppendRange
  <2>3. r \in Range(log) /\ r \notin Range(emitted)
    BY <2>1
  <2>4. Range(emitted') = {m \in Range(log') : pc'[m] = "done"}
    BY <2>1, <2>2, <2>3, RangeInRequest
  <2>5. ASSUME NEW i \in DOMAIN emitted', NEW j \in DOMAIN emitted', i < j
        PROVE  emitted'[i] # emitted'[j] /\ emitted'[j] \notin began'[emitted'[i]]
    <3>1. i \in DOMAIN emitted /\ emitted'[i] = emitted[i] /\ emitted[i] \in Range(emitted)
      BY <2>1, <2>5 DEF Range
    <3>2. CASE j \in DOMAIN emitted
      BY <2>1, <2>5, <3>1, <3>2
    <3>3. CASE j \notin DOMAIN emitted
      <4>1. emitted'[j] = r
        BY <2>1, <3>3
      <4>2. r \notin began[emitted[i]]
        BY <2>1, <3>1, RangeInRequest
      <4> QED
        BY <2>1, <2>3, <3>1, <4>1, <4>2
    <3> QED
      BY <3>2, <3>3
  <2> QED
    BY <2>1, <2>4, <2>5
<1>11. ASSUME NEW r \in Request, ReadAdmit(r) PROVE BroadcastFollowsLog'
  BY <1>11 DEF ReadAdmit, Goes
<1>12. ASSUME NEW r \in Request, ReadMark(r) PROVE BroadcastFollowsLog'
  BY <1>12 DEF ReadMark, Goes
<1>13. ASSUME NEW r \in Request, ReadZero(r) PROVE BroadcastFollowsLog'
  BY <1>13 DEF ReadZero, Goes
<1>14. ASSUME NEW r \in Request, CloseAdmit(r) PROVE BroadcastFollowsLog'
  BY <1>14 DEF CloseAdmit, Goes
<1>15. ASSUME NEW r \in Request, CloseUpdate(r) PROVE BroadcastFollowsLog'
  BY <1>15 DEF CloseUpdate, Goes
<1>16. ASSUME NEW r \in Request, Reply(r) PROVE BroadcastFollowsLog'
  BY <1>16 DEF Reply, Goes
<1>17. ASSUME NEW c \in Chat, Delete(c) PROVE BroadcastFollowsLog'
  BY <1>17 DEF Delete, Goes
<1>18. ASSUME NEW u \in User, PresenceFlips(u) PROVE BroadcastFollowsLog'
  BY <1>18 DEF PresenceFlips, Goes
<1>19. ASSUME NEW u \in User, TimeoutExpires(u) PROVE BroadcastFollowsLog'
  BY <1>19 DEF TimeoutExpires, Goes
<1>20. CASE AgeOut
  BY <1>20 DEF AgeOut, Goes
<1>21. CASE Crash
  <2>1. /\ pc' = [q \in Request |-> IF pc[q] \in {"idle"} \cup Ended THEN pc[q] ELSE "lost"]
        /\ UNCHANGED <<log, emitted, began>>
    BY <1>21 DEF Crash
  <2>2. \A m \in Request : pc'[m] = "done" <=> pc[m] = "done"
    BY <2>1
  <2> QED
    BY <2>1, <2>2, RangeInRequest
<1>22. CASE UNCHANGED vars
  BY <1>22 DEF vars
<1> QED
  BY <1>1, <1>2, <1>3, <1>4, <1>5, <1>6, <1>7, <1>8, <1>9, <1>10, <1>11, <1>12, <1>13,
       <1>14, <1>15, <1>16, <1>17, <1>18, <1>19, <1>20, <1>21, <1>22 DEF Next, Step

-----------------------------------------------------------------------------
(* The invariant, and the properties it implies                            *)

LEMMA InitIInv == Init => IInv
<1> SUFFICES ASSUME Init PROVE IInv
  OBVIOUS
<1>1. TypeOK
  BY InitTypeOK
<1>2. Range(log) = {} /\ Range(emitted) = {} /\ DOMAIN log = {} /\ DOMAIN emitted = {}
  BY DEF Init, Range
<1>3. Flow
  BY <1>2 DEF Init, Flow
<1>4. Closing
  BY <1>2 DEF Init, Closing
<1>5. Receipt
  BY DEF Init, Receipt
<1>6. Readers
  BY DEF Init, Readers
<1>7. Pushing
  BY DEF Init, Pushing, Awaiting
<1>8. Counting
  <2>1. \A S \in SUBSET {} : Cardinality(S) = 0
    BY FS_EmptySet
  <2>2. IsFiniteSet(Range(log))
    BY <1>2, FS_EmptySet
  <2>3. \A r \in Request : counted[r] = {} /\ pc[r] = "idle"
    BY DEF Init
  <2>4. \A S \in SUBSET Range(log) : Cardinality(S) <= SpamLimit
    BY <1>2, <2>1, ConversationAssumption
  <2> QED
    BY <2>2, <2>3, <2>4 DEF Counting
<1>9. BroadcastFollowsLog
  BY <1>2 DEF Init, BroadcastFollowsLog
<1> QED
  BY <1>1, <1>3, <1>4, <1>5, <1>6, <1>7, <1>8, <1>9 DEF IInv

LEMMA NextIInv == IInv /\ [Next]_vars => IInv'
BY NextTypeOK, NextFlow, NextClosing, NextReceipt, NextReaders, NextPushing,
   NextCounting, NextBroadcast DEF IInv

LEMMA InductiveInvariant == Spec => []IInv
<1>1. QED
  BY InitIInv, NextIInv, PTL DEF Spec

(* More than SpamLimit recent messages of a user mean that two of them were *)
(* checked without either check counting the other.                        *)
THEOREM SpamLimitHolds == Spec => []SpamExcessOverlaps
<1>1. IInv => SpamExcessOverlaps
  <2> SUFFICES ASSUME IInv, NEW u \in User, Cardinality(Recent(u)) > SpamLimit
               PROVE  \E m1, m2 \in Recent(u) :
                         m1 # m2 /\ m1 \notin counted[m2] /\ m2 \notin counted[m1]
    BY DEF SpamExcessOverlaps
  <2>1. Recent(u) \in SUBSET Range(log)
    BY RecentInLog DEF IInv
  <2>2. IsFiniteSet(Recent(u)) /\ Cardinality(Recent(u)) \in Nat
    BY <2>1, FS_Subset, FS_CardinalityType DEF IInv, Counting
  <2>3. ~ (Cardinality(Recent(u)) <= SpamLimit)
    BY <2>2, ConversationAssumption
  <2> QED
    BY <2>1, <2>3 DEF IInv, Counting
<1> QED
  BY <1>1, InductiveInvariant, PTL

(* A message begun after its chat's deactivation was confirmed is not      *)
(* stored.                                                                 *)
THEOREM ClosedChatQuiet == Spec => []ClosedStaysQuiet
<1>1. IInv => ClosedStaysQuiet
  BY RangeInRequest DEF IInv, Closing, ClosedStaysQuiet, Stored
<1> QED
  BY <1>1, InductiveInvariant, PTL

(* A confirmed markChatAsRead has left no message unread that the other    *)
(* member had been told was sent before it began, and only the other       *)
(* member of its chat makes a message read.                                *)
THEOREM ReceiptsAreTrue == Spec => []ReceiptsHold
<1>1. IInv => ReadReceiptHonest
  BY DEF IInv, Receipt, ReadReceiptHonest
<1>2. IInv => ReadOnlyByPeer
  BY DEF IInv, Readers, ReadOnlyByPeer
<1> QED
  BY <1>1, <1>2, InductiveInvariant, PTL DEF ReceiptsHold

(* A message is pushed to a recipient who was offline throughout, and not  *)
(* to one who was online throughout.                                       *)
THEOREM PushForPresence == Spec => []PushFollowsPresence
<1>1. IInv => PushFollowsPresence
  <2> SUFFICES ASSUME IInv, NEW m \in Request, req[m].op = "send", pc[m] = "done"
               PROVE  /\ peerSeen[m] = {FALSE} => m \in pushed
                      /\ peerSeen[m] = {TRUE} => m \notin pushed
    BY DEF PushFollowsPresence
  <2>1. peerOnline[m] \in peerSeen[m] /\ (m \in pushed <=> ~peerOnline[m])
    BY DEF IInv, Pushing
  <2>2. CASE peerSeen[m] = {FALSE}
    BY <2>1, <2>2
  <2>3. CASE peerSeen[m] = {TRUE}
    BY <2>1, <2>3
  <2> QED
    BY <2>2, <2>3
<1> QED
  BY <1>1, InductiveInvariant, PTL

(* Messages are broadcast once each, after they are stored, and neither    *)
(* the log nor the broadcasts put a message before one that was confirmed  *)
(* when it was begun.                                                      *)
THEOREM BroadcastInOrder == Spec => []BroadcastFollowsLog
<1>1. IInv => BroadcastFollowsLog
  BY DEF IInv
<1> QED
  BY <1>1, InductiveInvariant, PTL

-----------------------------------------------------------------------------
(* The implementation of ConversationPromise                               *)

Seen == <<status, log, read, req, Phase, emitted>>

LEMMA PhaseOf == TypeOK => \A r \in Request : Phase[r] = PhaseAt(pc[r])
BY DEF Phase

\* A request that comes to wait for something else moves on, or stays.
LEMMA PhaseMoves ==
    ASSUME TypeOK, NEW r \in Request, NEW from, NEW to, Goes(r, from, to)
    PROVE  /\ Phase[r] = PhaseAt(from)
           /\ Phase' = [Phase EXCEPT ![r] = PhaseAt(to)]
<1>1. pc[r] = from /\ pc' = [q \in Request |-> IF q = r THEN to ELSE pc[q]]
  BY DEF Goes, TypeOK
<1>2. Phase' = [q \in Request |-> IF q = r THEN PhaseAt(to) ELSE PhaseAt(pc[q])]
  BY <1>1 DEF Phase
<1> QED
  BY <1>1, <1>2 DEF Phase

LEMMA PhaseStays ==
    ASSUME TypeOK, NEW r \in Request, NEW from, NEW to, Goes(r, from, to),
           PhaseAt(from) = PhaseAt(to)
    PROVE  Phase' = Phase
<1>1. Phase' = [Phase EXCEPT ![r] = PhaseAt(to)] /\ Phase[r] = PhaseAt(to)
  BY PhaseMoves
<1> QED
  BY <1>1 DEF Phase

LEMMA ArrivePromised ==
    ASSUME IInv, NEW r \in Request, Begin(r)
    PROVE  Promise!Arrive(r)
<1>1. Phase[r] = "new" /\ Phase' = [Phase EXCEPT ![r] = "asked"]
  BY PhaseMoves DEF IInv, Begin, PhaseAt
<1> QED
  BY <1>1 DEF Begin, rows, sides, Promise!Arrive, Promise!Moves

LEMMA LetThroughPromised ==
    ASSUME IInv, NEW r \in Request, SendAdmit(r) \/ ReadAdmit(r) \/ CloseAdmit(r)
    PROVE  Promise!LetThrough(r)
<1>1. Phase[r] = "asked" /\ Phase' = [Phase EXCEPT ![r] = "let"]
  <2>1. \E to \in {"spam", "mark", "close"} : Goes(r, "find", to)
    BY DEF SendAdmit, ReadAdmit, CloseAdmit
  <2> QED
    BY <2>1, PhaseMoves DEF IInv, PhaseAt
<1>2. Admitted(r) /\ (req[r].op = "send" => status[req[r].chat] = "active")
  BY DEF SendAdmit, ReadAdmit, CloseAdmit
<1>3. UNCHANGED <<status, log, read, req, emitted>>
  BY DEF SendAdmit, ReadAdmit, CloseAdmit, ask, rows, sides
<1> QED
  BY <1>1, <1>2, <1>3 DEF Admitted, Members, Promise!LetThrough, Promise!Moves

LEMMA StorePromised ==
    ASSUME IInv, NEW r \in Request, SendInsert(r)
    PROVE  Promise!Store(r)
<1>1. Phase[r] = "let" /\ Phase' = [Phase EXCEPT ![r] = "did"]
  BY PhaseMoves DEF IInv, SendInsert, PhaseAt
<1>2. req[r].op = "send"
  BY DEF IInv, Flow, SendInsert, Goes
<1> QED
  BY <1>1, <1>2 DEF SendInsert, ask, sides, Promise!Store, Promise!Moves

LEMMA ReadPromised ==
    ASSUME IInv, NEW r \in Request, ReadMark(r)
    PROVE  Promise!Read(r)
<1>1. Phase[r] = "let" /\ Phase' = [Phase EXCEPT ![r] = "did"]
  BY PhaseMoves DEF IInv, ReadMark, PhaseAt
<1>2. req[r].op = "read"
  BY DEF IInv, Flow, ReadMark, Goes
<1>3. read' = read \cup {m \in Range(log) :
                           /\ req[m].chat = req[r].chat /\ req[m].user # req[r].user
                           /\ status[req[r].chat] # "gone"}
  BY DEF ReadMark, UnreadBy, Stored
<1>4. UNCHANGED <<status, log, req, emitted>>
  BY DEF ReadMark, ask, sides
<1> QED
  BY <1>1, <1>2, <1>3, <1>4, Zenon DEF Range, Promise!Range, Promise!Read, Promise!Moves

LEMMA ClosePromised ==
    ASSUME IInv, NEW r \in Request, CloseUpdate(r)
    PROVE  Promise!Close(r)
<1>1. Phase[r] = "let" /\ Phase' = [Phase EXCEPT ![r] = "did"]
  BY PhaseMoves DEF IInv, CloseUpdate, PhaseAt
<1>2. req[r].op = "close"
  BY DEF IInv, Flow, CloseUpdate, Goes
<1> QED
  BY <1>1, <1>2 DEF CloseUpdate, ask, sides, Promise!Close, Promise!Moves

LEMMA TellPromised ==
    ASSUME IInv, NEW r \in Request, SendReply(r) \/ Reply(r)
    PROVE  Promise!Tell(r)
<1>1. Phase[r] = "did" /\ Phase' = [Phase EXCEPT ![r] = "told"]
  BY PhaseMoves DEF IInv, SendReply, Reply, PhaseAt
<1> QED
  BY <1>1 DEF SendReply, Reply, ask, rows, sides, Promise!Tell, Promise!Moves

LEMMA GiveUpPromised ==
    ASSUME IInv, NEW r \in Request, SendSpam(r) \/ Fail(r)
    PROVE  Promise!GiveUp({r})
<1>1. \E from \in Awaiting : Goes(r, from, "failed")
  BY DEF SendSpam, Fail, Goes, Awaiting
<1>2. Phase[r] \in {"asked", "let", "did"} /\ Phase' = [Phase EXCEPT ![r] = "over"]
  BY <1>1, PhaseMoves DEF IInv, Awaiting, PhaseAt
<1>3. Phase' = [q \in Request |->
                  IF q \in {r} /\ Phase[q] \in {"asked", "let", "did"} THEN "over" ELSE Phase[q]]
  BY <1>2 DEF Phase
<1> QED
  BY <1>3 DEF SendSpam, Fail, ask, rows, sides, Promise!GiveUp, Promise!InFlight

LEMMA CrashPromised ==
    ASSUME IInv, Crash
    PROVE  Promise!GiveUp(Request)
<1>1. ASSUME NEW q \in Request
      PROVE  PhaseAt(pc'[q]) = IF PhaseAt(pc[q]) \in {"asked", "let", "did"}
                               THEN "over" ELSE PhaseAt(pc[q])
  <2>1. pc'[q] = IF pc[q] \in {"idle"} \cup Ended THEN pc[q] ELSE "lost"
    BY DEF Crash
  <2>2. pc[q] \in {"idle", "reply"} \cup Awaiting \cup Ended
    BY DEF IInv, TypeOK
  <2> QED
    BY <2>1, <2>2 DEF PhaseAt, Awaiting, Ended, Answered
<1>2. Phase' = [q \in Request |->
                  IF q \in Request /\ Phase[q] \in {"asked", "let", "did"} THEN "over" ELSE Phase[q]]
  BY <1>1 DEF Phase
<1> QED
  BY <1>2 DEF Crash, ask, rows, sides, Promise!GiveUp, Promise!InFlight

\* What a request does beside, and what the others do, is not seen.
LEMMA Unseen ==
    ASSUME IInv, NEW r \in Request,
           \/ SendCheck(r) \/ SendCheckSkipped(r) \/ SendTouch(r) \/ SendPush(r) \/ ReadZero(r)
    PROVE  UNCHANGED Seen
<1>1. \E from \in Awaiting, to \in {"insert", "reply", "push"} :
         Goes(r, from, to) /\ PhaseAt(from) = PhaseAt(to)
  BY DEF SendCheck, SendCheckSkipped, SendTouch, SendPush, ReadZero, Awaiting, PhaseAt
<1>2. Phase' = Phase
  BY <1>1, PhaseStays DEF IInv
<1> QED
  BY <1>2 DEF Seen, SendCheck, SendCheckSkipped, SendTouch, SendPush, ReadZero, ask, rows, sides

LEMMA UnseenOutside ==
    ASSUME \/ \E u \in User : PresenceFlips(u) \/ TimeoutExpires(u)
           \/ AgeOut
           \/ UNCHANGED vars
    PROVE  UNCHANGED Seen
<1>1. UNCHANGED <<status, log, read, req, pc, emitted>>
  BY DEF PresenceFlips, TimeoutExpires, AgeOut, vars, ask, rows, sides
<1> QED
  BY <1>1 DEF Seen, Phase

LEMMA StepKeepsPromise == IInv /\ [Next]_vars => [Promise!Next]_Seen
<1> SUFFICES ASSUME IInv, [Next]_vars PROVE Promise!Next \/ UNCHANGED Seen
  OBVIOUS
<1>1. ASSUME NEW r \in Request, Begin(r) PROVE Promise!Next
  BY <1>1, ArrivePromised DEF Promise!Next
<1>2. ASSUME NEW r \in Request, SendAdmit(r) \/ ReadAdmit(r) \/ CloseAdmit(r) PROVE Promise!Next
  BY <1>2, LetThroughPromised DEF Promise!Next
<1>3. ASSUME NEW r \in Request, SendInsert(r) PROVE Promise!Next
  BY <1>3, StorePromised DEF Promise!Next
<1>4. ASSUME NEW r \in Request, ReadMark(r) PROVE Promise!Next
  BY <1>4, ReadPromised DEF Promise!Next
<1>5. ASSUME NEW r \in Request, CloseUpdate(r) PROVE Promise!Next
  BY <1>5, ClosePromised DEF Promise!Next
<1>6. ASSUME NEW r \in Request, SendReply(r) \/ Reply(r) PROVE Promise!Next
  BY <1>6, TellPromised DEF Promise!Next
<1>7. ASSUME NEW r \in Request, SendSpam(r) \/ Fail(r) PROVE Promise!Next
  <2>1. Promise!GiveUp({r})
    BY <1>7, GiveUpPromised
  <2> QED
    BY <2>1 DEF Promise!Next
<1>8. ASSUME NEW r \in Request,
             \/ SendCheck(r) \/ SendCheckSkipped(r) \/ SendTouch(r) \/ SendPush(r) \/ ReadZero(r)
      PROVE  UNCHANGED Seen
  BY <1>8, Unseen
<1>9. ASSUME NEW c \in Chat, Delete(c) PROVE Promise!Next
  <2>1. Promise!Vanish(c)
    BY <1>9 DEF Delete, ask, sides, Phase, Promise!Vanish
  <2> QED
    BY <2>1 DEF Promise!Next
<1>10. CASE Crash
  <2>1. Promise!GiveUp(Request)
    BY <1>10, CrashPromised
  <2> QED
    BY <2>1 DEF Promise!Next
<1>11. CASE (\E u \in User : PresenceFlips(u) \/ TimeoutExpires(u)) \/ AgeOut \/ UNCHANGED vars
  BY <1>11, UnseenOutside
<1> QED
  BY <1>1, <1>2, <1>3, <1>4, <1>5, <1>6, <1>7, <1>8, <1>9, <1>10, <1>11 DEF Next, Step

(* Sending, reading and deactivating, each in several statements between   *)
(* which anything may run, do what the two steps of ConversationPromise    *)
(* do: only members are let through, an effect happens once and before it  *)
(* is told, a given up request has it at most once, and a chat that is     *)
(* closed is not opened again.                                             *)
THEOREM ConversationKeepsPromise == Spec => KeepsPromise
<1>1. Init => Promise!Init
  <2> SUFFICES ASSUME Init PROVE Promise!Init
    OBVIOUS
  <2>1. req \in [Request -> Ask]
    BY InitTypeOK DEF TypeOK
  <2>2. Phase = [r \in Request |-> "new"]
    BY DEF Init, Phase, PhaseAt
  <2> QED
    BY <2>1, <2>2 DEF Init, Promise!Init
<1>2. IInv /\ [Next]_vars => [Promise!Next]_(Promise!promise)
  BY StepKeepsPromise DEF Promise!promise, Seen
<1> QED
  BY <1>1, <1>2, InductiveInvariant, PTL DEF Spec, KeepsPromise, Promise!Spec

(* A chat that is closed or deleted is never active again.                 *)
THEOREM ClosedForGood ==
    Spec => [][\A c \in Chat : status[c] # "active" => status'[c] # "active"]_vars
<1> DEFINE Stays == \A c \in Chat : status[c] # "active" => status'[c] # "active"
<1>1. TypeOK /\ [Next]_vars => [Stays]_vars
  <2> SUFFICES ASSUME TypeOK, Next PROVE Stays
    OBVIOUS
  <2>1. \/ UNCHANGED status
        \/ \E c \in Chat, s \in {"inactive", "gone"} : status' = [status EXCEPT ![c] = s]
    <3>1. ASSUME NEW r \in Request, CloseUpdate(r)
          PROVE  req[r].chat \in Chat /\ status' = [status EXCEPT ![req[r].chat] = "inactive"]
      BY <3>1, ConversationAssumption DEF TypeOK, CloseUpdate
    <3> QED
      BY <3>1 DEF Next, Step, Begin, Fail, SendAdmit, SendCheck, SendCheckSkipped, SendSpam,
            SendInsert, SendTouch, SendPush, SendReply, ReadAdmit, ReadMark, ReadZero, CloseAdmit,
            Reply, Delete, PresenceFlips, AgeOut, TimeoutExpires, Crash, rows
  <2> QED
    BY <2>1 DEF TypeOK
<1> QED
  BY <1>1, TypeCorrect, PTL DEF Spec

=============================================================================
