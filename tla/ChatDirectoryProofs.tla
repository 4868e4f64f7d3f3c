------------------------ MODULE ChatDirectoryProofs ------------------------
(* Proofs about ChatDirectory for every set of projects, participants and  *)
(* requests.                                                               *)
EXTENDS ChatDirectory, TLAPS

-----------------------------------------------------------------------------
(* The inductive invariant                                                 *)

Searching == {"project", "again", "person", "find", "recheck", "insert"}

\* What pc[r] says of r's own record.
Flow ==
    \A r \in Request :
        /\ pc[r] \in {"idle"} \cup Searching => found[r] = Nobody /\ ~isNewChat[r]
        /\ pc[r] \in {"find", "recheck", "insert", "map", "done"} => key[r] \in Key
        /\ pc[r] \in {"project", "again", "person"} => route[r] = "mobile"
        /\ pc[r] \in {"again", "person"} => key[r] \in Key
        /\ pc[r] = "idle" => route[r] = "office"
        /\ pc[r] \in {"map", "done"} => found[r] # Nobody
        /\ found[r] # Nobody => key[r] \in Key

\* A chat that was created is the row of its key as long as the rows it refers
\* to exist: so no two are created for one key.
Creation ==
    /\ ChatsFollowParents
    /\ \A k \in Key : chat[k] # Nobody => chat[k] \in Created /\ key[chat[k]] = k
    /\ \A p, q \in Created : key[p] = key[q] => p = q
    /\ \A r \in Request : found[r] # Nobody =>
          found[r] \in Created /\ key[found[r]] = key[r]

\* A request past its first look has none of the chats it began with in its
\* way, and what it calls new is none of them.
Novelty ==
    \A r \in Request :
        /\ began[r] \subseteq Created
        /\ pc[r] \in {"recheck", "insert"} /\ Parents(key[r]) =>
              \A q \in began[r] : key[q] # key[r]
        /\ pc[r] \in {"map", "done"} /\ isNewChat[r] => found[r] \notin began[r]
        /\ pc[r] \in {"map", "done"} /\ ~isNewChat[r] => found[r] # r

\* What a mobile request knows while the unique id stays where it is.
Lookup ==
    \A r \in Request :
        /\ pc[r] = "idle" => r \notin moved
        /\ pc[r] \in {"project", "again", "person"} => members \subseteq enrolled[r]
        /\ pc[r] = "again" /\ r \notin moved => holder = key[r][1]
        /\ pc[r] = "person" /\ r \notin moved => other[r] = key[r][1]
        /\ route[r] = "mobile" /\ pc[r] \in {"find", "recheck", "insert", "map", "done"}
           /\ r \notin moved => <<key[r][1], key[r][3]>> \in enrolled[r]

IInv == TypeOK /\ Flow /\ Creation /\ Novelty /\ Lookup


-----------------------------------------------------------------------------
(* Type correctness                                                        *)

LEMMA InitTypeOK == Init => TypeOK
<1> SUFFICES ASSUME Init PROVE TypeOK
  OBVIOUS
<1>1. (CHOOSE u \in Person : TRUE) \in Person
  BY DirectoryAssumption
<1> QED
  BY <1>1, DirectoryAssumption DEF Init, TypeOK, Key, User

LEMMA NextTypeOK == TypeOK /\ Flow /\ [Next]_vars => TypeOK'
<1> SUFFICES ASSUME TypeOK, Flow, [Next]_vars PROVE TypeOK'
  OBVIOUS
<1> USE DirectoryAssumption DEF TypeOK, Flow, Searching, Waiting, LookingUp, Key, User,
       Membership, rows, request, notes
<1>1. ASSUME NEW r \in Request, BeginOffice(r) PROVE TypeOK'
  <2>1. PICK k \in Key : key' = [key EXCEPT ![r] = k]
    BY <1>1 DEF BeginOffice
  <2>2. key' \in [Request -> (Project \cup {Nobody}) \X (Admin \cup {Nobody}) \X Person]
    BY <2>1
  <2> QED
    BY <1>1, <2>2 DEF BeginOffice, Goes, Created
<1>2. ASSUME NEW r \in Request, BeginMobile(r) PROVE TypeOK'
  <2>1. PICK u \in Person : key' = [key EXCEPT ![r] = <<Nobody, Nobody, u>>]
    BY <1>2 DEF BeginMobile
  <2>2. key' \in [Request -> (Project \cup {Nobody}) \X (Admin \cup {Nobody}) \X Person]
    BY <2>1
  <2> QED
    BY <1>2, <2>2 DEF BeginMobile, Goes, Created
<1>3. ASSUME NEW r \in Request, ProjectFound(r) PROVE TypeOK'
  BY <1>3 DEF ProjectFound, Goes
<1>4. ASSUME NEW r \in Request, ProjectFoundAgain(r) PROVE TypeOK'
  BY <1>4 DEF ProjectFoundAgain, Goes
<1>5. ASSUME NEW r \in Request, PersonFound(r) PROVE TypeOK'
  BY <1>5 DEF PersonFound, Goes
<1>6. ASSUME NEW r \in Request, ChatFound(r) PROVE TypeOK'
  <2>1. chat[key[r]] \in Request \cup {Nobody}
    BY <1>6 DEF ChatFound, Goes
  <2> QED
    BY <1>6, <2>1 DEF ChatFound, Goes
<1>7. ASSUME NEW r \in Request, NoChatFound(r) PROVE TypeOK'
  BY <1>7 DEF NoChatFound, Goes
<1>8. ASSUME NEW r \in Request, RecheckFound(r) PROVE TypeOK'
  <2>1. chat[key[r]] \in Request \cup {Nobody}
    BY <1>8 DEF RecheckFound, Goes
  <2> QED
    BY <1>8, <2>1 DEF RecheckFound, Goes
<1>9. ASSUME NEW r \in Request, RecheckNone(r) PROVE TypeOK'
  BY <1>9 DEF RecheckNone, Goes
<1>10. ASSUME NEW r \in Request, InsertChat(r) PROVE TypeOK'
  BY <1>10 DEF InsertChat, Goes
<1>11. ASSUME NEW r \in Request, Answer(r) PROVE TypeOK'
  BY <1>11 DEF Answer, Goes
<1>12. ASSUME NEW r \in Request, Fail(r) PROVE TypeOK'
  BY <1>12 DEF Fail
<1>13. ASSUME NEW k \in Membership, Enrol(k) PROVE TypeOK'
  BY <1>13 DEF Enrol
<1>14. ASSUME NEW k \in Membership, Remove(k) PROVE TypeOK'
  BY <1>14 DEF Remove
<1>15. ASSUME NEW p \in Project, Claim(p) PROVE TypeOK'
  BY <1>15 DEF Claim
<1>16. ASSUME NEW p \in Project, DeleteProject(p) PROVE TypeOK'
  BY <1>16 DEF DeleteProject
<1>17. ASSUME NEW u \in User, DeleteUser(u) PROVE TypeOK'
  BY <1>17 DEF DeleteUser
<1>18. CASE Release
  BY <1>18 DEF Release
<1>19. CASE UNCHANGED vars
  BY <1>19 DEF vars
<1> QED
  BY <1>1, <1>2, <1>3, <1>4, <1>5, <1>6, <1>7, <1>8, <1>9, <1>10, <1>11, <1>12, <1>13,
       <1>14, <1>15, <1>16, <1>17, <1>18, <1>19 DEF Next, Step

-----------------------------------------------------------------------------
(* One lemma per part of the invariant                                     *)

LEMMA NextFlow == TypeOK /\ Flow /\ [Next]_vars => Flow'
<1> SUFFICES ASSUME TypeOK, Flow, [Next]_vars PROVE Flow'
  OBVIOUS
<1> USE DirectoryAssumption DEF TypeOK, Waiting, Flow, Searching, Key, rows, request, notes
<1>1. ASSUME NEW r \in Request, BeginOffice(r) PROVE Flow'
  BY <1>1 DEF BeginOffice, Goes
<1>2. ASSUME NEW r \in Request, BeginMobile(r) PROVE Flow'
  BY <1>2 DEF BeginMobile, Goes
<1>3. ASSUME NEW r \in Request, ProjectFound(r) PROVE Flow'
  BY <1>3 DEF ProjectFound, Goes
<1>4. ASSUME NEW r \in Request, ProjectFoundAgain(r) PROVE Flow'
  BY <1>4 DEF ProjectFoundAgain, Goes
<1>5. ASSUME NEW r \in Request, PersonFound(r) PROVE Flow'
  BY <1>5 DEF PersonFound, Goes
<1>6. ASSUME NEW r \in Request, ChatFound(r) PROVE Flow'
  BY <1>6 DEF ChatFound, Goes
<1>7. ASSUME NEW r \in Request, NoChatFound(r) PROVE Flow'
  BY <1>7 DEF NoChatFound, Goes
<1>8. ASSUME NEW r \in Request, RecheckFound(r) PROVE Flow'
  BY <1>8 DEF RecheckFound, Goes
<1>9. ASSUME NEW r \in Request, RecheckNone(r) PROVE Flow'
  BY <1>9 DEF RecheckNone, Goes
<1>10. ASSUME NEW r \in Request, InsertChat(r) PROVE Flow'
  BY <1>10 DEF InsertChat, Goes
<1>11. ASSUME NEW r \in Request, Answer(r) PROVE Flow'
  BY <1>11 DEF Answer, Goes
<1>12. ASSUME NEW r \in Request, Fail(r) PROVE Flow'
  BY <1>12 DEF Fail
<1>13. ASSUME NEW k \in Membership, Enrol(k) PROVE Flow'
  BY <1>13 DEF Enrol
<1>14. ASSUME NEW k \in Membership, Remove(k) PROVE Flow'
  BY <1>14 DEF Remove
<1>15. ASSUME NEW p \in Project, Claim(p) PROVE Flow'
  BY <1>15 DEF Claim
<1>16. ASSUME NEW p \in Project, DeleteProject(p) PROVE Flow'
  BY <1>16 DEF DeleteProject
<1>17. ASSUME NEW u \in User, DeleteUser(u) PROVE Flow'
  BY <1>17 DEF DeleteUser
<1>18. CASE Release
  BY <1>18 DEF Release
<1>19. CASE UNCHANGED vars
  BY <1>19 DEF vars
<1> QED
  BY <1>1, <1>2, <1>3, <1>4, <1>5, <1>6, <1>7, <1>8, <1>9, <1>10, <1>11, <1>12, <1>13,
       <1>14, <1>15, <1>16, <1>17, <1>18, <1>19 DEF Next, Step

LEMMA NextCreation == TypeOK /\ Flow /\ Creation /\ [Next]_vars => Creation'
<1> SUFFICES ASSUME TypeOK, Flow, Creation, [Next]_vars PROVE Creation'
  OBVIOUS
<1> USE DirectoryAssumption DEF TypeOK, Waiting, Flow, Searching, Creation,
       ChatsFollowParents, Created, Parents, rows, request, notes
<1>1. ASSUME NEW r \in Request, BeginOffice(r) PROVE Creation'
  BY <1>1 DEF BeginOffice, Goes
<1>2. ASSUME NEW r \in Request, BeginMobile(r) PROVE Creation'
  BY <1>2 DEF BeginMobile, Goes
<1>3. ASSUME NEW r \in Request, ProjectFound(r) PROVE Creation'
  BY <1>3 DEF ProjectFound, Goes
<1>4. ASSUME NEW r \in Request, ProjectFoundAgain(r) PROVE Creation'
  BY <1>4 DEF ProjectFoundAgain, Goes
<1>5. ASSUME NEW r \in Request, PersonFound(r) PROVE Creation'
  BY <1>5 DEF PersonFound, Goes
<1>6. ASSUME NEW r \in Request, ChatFound(r) PROVE Creation'
  BY <1>6 DEF ChatFound, Goes
<1>7. ASSUME NEW r \in Request, NoChatFound(r) PROVE Creation'
  BY <1>7 DEF NoChatFound, Goes
<1>8. ASSUME NEW r \in Request, RecheckFound(r) PROVE Creation'
  BY <1>8 DEF RecheckFound, Goes
<1>9. ASSUME NEW r \in Request, RecheckNone(r) PROVE Creation'
  BY <1>9 DEF RecheckNone, Goes
<1>10. ASSUME NEW r \in Request, InsertChat(r) PROVE Creation'
  BY <1>10 DEF InsertChat, Goes
<1>11. ASSUME NEW r \in Request, Answer(r) PROVE Creation'
  BY <1>11 DEF Answer, Goes
<1>12. ASSUME NEW r \in Request, Fail(r) PROVE Creation'
  BY <1>12 DEF Fail
<1>13. ASSUME NEW k \in Membership, Enrol(k) PROVE Creation'
  BY <1>13 DEF Enrol
<1>14. ASSUME NEW k \in Membership, Remove(k) PROVE Creation'
  BY <1>14 DEF Remove
<1>15. ASSUME NEW p \in Project, Claim(p) PROVE Creation'
  BY <1>15 DEF Claim
<1>16. ASSUME NEW p \in Project, DeleteProject(p) PROVE Creation'
  BY <1>16 DEF DeleteProject
<1>17. ASSUME NEW u \in User, DeleteUser(u) PROVE Creation'
  BY <1>17 DEF DeleteUser
<1>18. CASE Release
  BY <1>18 DEF Release
<1>19. CASE UNCHANGED vars
  BY <1>19 DEF vars
<1> QED
  BY <1>1, <1>2, <1>3, <1>4, <1>5, <1>6, <1>7, <1>8, <1>9, <1>10, <1>11, <1>12, <1>13,
       <1>14, <1>15, <1>16, <1>17, <1>18, <1>19 DEF Next, Step

LEMMA NextNovelty == TypeOK /\ Flow /\ Creation /\ Novelty /\ [Next]_vars => Novelty'
<1> SUFFICES ASSUME TypeOK, Flow, Creation, Novelty, [Next]_vars PROVE Novelty'
  OBVIOUS
<1> USE DirectoryAssumption DEF TypeOK, Waiting, Flow, Searching, Creation,
       ChatsFollowParents, Created, Parents, Novelty, rows, request, notes
<1>1. ASSUME NEW r \in Request, BeginOffice(r) PROVE Novelty'
  BY <1>1 DEF BeginOffice, Goes
<1>2. ASSUME NEW r \in Request, BeginMobile(r) PROVE Novelty'
  BY <1>2 DEF BeginMobile, Goes
<1>3. ASSUME NEW r \in Request, ProjectFound(r) PROVE Novelty'
  BY <1>3 DEF ProjectFound, Goes
<1>4. ASSUME NEW r \in Request, ProjectFoundAgain(r) PROVE Novelty'
  BY <1>4 DEF ProjectFoundAgain, Goes
<1>5. ASSUME NEW r \in Request, PersonFound(r) PROVE Novelty'
  BY <1>5 DEF PersonFound, Goes
<1>6. ASSUME NEW r \in Request, ChatFound(r) PROVE Novelty'
  BY <1>6 DEF ChatFound, Goes
<1>7. ASSUME NEW r \in Request, NoChatFound(r) PROVE Novelty'
  BY <1>7 DEF NoChatFound, Goes
<1>8. ASSUME NEW r \in Request, RecheckFound(r) PROVE Novelty'
  BY <1>8 DEF RecheckFound, Goes
<1>9. ASSUME NEW r \in Request, RecheckNone(r) PROVE Novelty'
  BY <1>9 DEF RecheckNone, Goes
<1>10. ASSUME NEW r \in Request, InsertChat(r) PROVE Novelty'
  BY <1>10 DEF InsertChat, Goes
<1>11. ASSUME NEW r \in Request, Answer(r) PROVE Novelty'
  BY <1>11 DEF Answer, Goes
<1>12. ASSUME NEW r \in Request, Fail(r) PROVE Novelty'
  BY <1>12 DEF Fail
<1>13. ASSUME NEW k \in Membership, Enrol(k) PROVE Novelty'
  BY <1>13 DEF Enrol
<1>14. ASSUME NEW k \in Membership, Remove(k) PROVE Novelty'
  BY <1>14 DEF Remove
<1>15. ASSUME NEW p \in Project, Claim(p) PROVE Novelty'
  BY <1>15 DEF Claim
<1>16. ASSUME NEW p \in Project, DeleteProject(p) PROVE Novelty'
  BY <1>16 DEF DeleteProject
<1>17. ASSUME NEW u \in User, DeleteUser(u) PROVE Novelty'
  BY <1>17 DEF DeleteUser
<1>18. CASE Release
  BY <1>18 DEF Release
<1>19. CASE UNCHANGED vars
  BY <1>19 DEF vars
<1> QED
  BY <1>1, <1>2, <1>3, <1>4, <1>5, <1>6, <1>7, <1>8, <1>9, <1>10, <1>11, <1>12, <1>13,
       <1>14, <1>15, <1>16, <1>17, <1>18, <1>19 DEF Next, Step

LEMMA NextLookup == TypeOK /\ Flow /\ Lookup /\ [Next]_vars => Lookup'
<1> SUFFICES ASSUME TypeOK, Flow, Lookup, [Next]_vars PROVE Lookup'
  OBVIOUS
<1> USE DirectoryAssumption DEF TypeOK, Waiting, Flow, Searching, Lookup, LookingUp,
       rows, request, notes
<1>1. ASSUME NEW r \in Request, BeginOffice(r) PROVE Lookup'
  <2>1. /\ pc[r] = "idle" /\ pc' = [pc EXCEPT ![r] = "find"]
        /\ \A q \in Request \ {r} : key'[q] = key[q]
        /\ UNCHANGED <<members, holder, route, other, enrolled, moved>>
    BY <1>1 DEF BeginOffice, Goes
  <2>2. route[r] = "office"
    BY <2>1
  <2> QED
    BY <2>1, <2>2
<1>2. ASSUME NEW r \in Request, BeginMobile(r) PROVE Lookup'
  <2>1. /\ pc[r] = "idle" /\ pc' = [pc EXCEPT ![r] = "project"]
        /\ route' = [route EXCEPT ![r] = "mobile"]
        /\ enrolled' = [enrolled EXCEPT ![r] = members]
        /\ \A q \in Request \ {r} : key'[q] = key[q]
        /\ UNCHANGED <<members, holder, other, moved>>
    BY <1>2 DEF BeginMobile, Goes
  <2> QED
    BY <2>1
<1>3. ASSUME NEW r \in Request, ProjectFound(r) PROVE Lookup'
  BY <1>3 DEF ProjectFound, Goes
<1>4. ASSUME NEW r \in Request, ProjectFoundAgain(r) PROVE Lookup'
  BY <1>4 DEF ProjectFoundAgain, Goes
<1>5. ASSUME NEW r \in Request, PersonFound(r) PROVE Lookup'
  <2>1. <<other[r], key[r][3]>> \in enrolled[r]
    BY <1>5 DEF PersonFound, Goes
  <2>2. r \notin moved => <<key[r][1], key[r][3]>> \in enrolled[r]
    BY <1>5, <2>1 DEF PersonFound, Goes
  <2> QED
    BY <1>5, <2>2 DEF PersonFound, Goes
<1>6. ASSUME NEW r \in Request, ChatFound(r) PROVE Lookup'
  BY <1>6 DEF ChatFound, Goes
<1>7. ASSUME NEW r \in Request, NoChatFound(r) PROVE Lookup'
  BY <1>7 DEF NoChatFound, Goes
<1>8. ASSUME NEW r \in Request, RecheckFound(r) PROVE Lookup'
  BY <1>8 DEF RecheckFound, Goes
<1>9. ASSUME NEW r \in Request, RecheckNone(r) PROVE Lookup'
  BY <1>9 DEF RecheckNone, Goes
<1>10. ASSUME NEW r \in Request, InsertChat(r) PROVE Lookup'
  BY <1>10 DEF InsertChat, Goes
<1>11. ASSUME NEW r \in Request, Answer(r) PROVE Lookup'
  BY <1>11 DEF Answer, Goes
<1>12. ASSUME NEW r \in Request, Fail(r) PROVE Lookup'
  BY <1>12 DEF Fail
<1>13. ASSUME NEW k \in Membership, Enrol(k) PROVE Lookup'
  BY <1>13 DEF Enrol
<1>14. ASSUME NEW k \in Membership, Remove(k) PROVE Lookup'
  BY <1>14 DEF Remove
<1>15. ASSUME NEW p \in Project, Claim(p) PROVE Lookup'
  BY <1>15 DEF Claim
<1>16. ASSUME NEW p \in Project, DeleteProject(p) PROVE Lookup'
  BY <1>16 DEF DeleteProject
<1>17. ASSUME NEW u \in User, DeleteUser(u) PROVE Lookup'
  BY <1>17 DEF DeleteUser
<1>18. CASE Release
  BY <1>18 DEF Release
<1>19. CASE UNCHANGED vars
  BY <1>19 DEF vars
<1> QED
  BY <1>1, <1>2, <1>3, <1>4, <1>5, <1>6, <1>7, <1>8, <1>9, <1>10, <1>11, <1>12, <1>13,
       <1>14, <1>15, <1>16, <1>17, <1>18, <1>19 DEF Next, Step

-----------------------------------------------------------------------------
(* The invariant, and the properties it implies                            *)

LEMMA InitIInv == Init => IInv
<1> SUFFICES ASSUME Init PROVE IInv
  OBVIOUS
<1>1. TypeOK
  BY InitTypeOK
<1>2. \A r \in Request : pc[r] = "idle" /\ found[r] = Nobody /\ ~isNewChat[r]
                         /\ route[r] = "office" /\ began[r] = {}
  BY DEF Init
<1>3. Created = {} /\ members = {} /\ \A k \in Key : chat[k] = Nobody
  BY <1>2, DirectoryAssumption DEF Created, Init
<1>4. Flow
  BY <1>2 DEF Flow, Searching
<1>5. Creation
  BY <1>2, <1>3 DEF Creation, ChatsFollowParents
<1>6. Novelty
  BY <1>2 DEF Novelty
<1>7. Lookup
  <2>1. members = {} /\ moved = {}
    BY DEF Init
  <2> QED
    BY <1>2, <2>1 DEF Lookup, LookingUp, Waiting
<1> QED
  BY <1>1, <1>4, <1>5, <1>6, <1>7 DEF IInv

LEMMA NextIInv == IInv /\ [Next]_vars => IInv'
BY NextTypeOK, NextFlow, NextCreation, NextNovelty, NextLookup DEF IInv

LEMMA InductiveInvariant == Spec => []IInv
<1>1. QED
  BY InitIInv, NextIInv, PTL DEF Spec

(* Every variable keeps its type: every statement of every handler leaves  *)
(* the tables and the requests in their sets.                              *)
THEOREM TypeCorrect == Spec => []TypeOK
<1>1. IInv => TypeOK
  BY DEF IInv
<1> QED
  BY <1>1, InductiveInvariant, PTL

(* Whoever is answered for a project, an administrator and a participant   *)
(* is given the same chat, the one that was created for them.              *)
THEOREM SameChatHolds == Spec => []SameChat
<1>1. IInv => SameChat
  <2> SUFFICES ASSUME IInv, NEW r \in Request, pc[r] = "done"
               PROVE  /\ found[r] \in Created /\ key[found[r]] = key[r]
                      /\ \A q \in Request :
                            pc[q] = "done" /\ key[q] = key[r] => found[q] = found[r]
    BY DEF SameChat
  <2>1. \A q \in Request : pc[q] = "done" =>
           found[q] \in Created /\ key[found[q]] = key[q]
    BY DEF IInv, Flow, Creation
  <2> QED
    BY <2>1 DEF IInv, Creation
<1> QED
  BY <1>1, InductiveInvariant, PTL

(* A chat called new did not exist when its request began, and one that is *)
(* not was created by another request.                                     *)
THEOREM NewChatIsHonest == Spec => []NewMeansRecent
<1>1. IInv => NewMeansRecent
  BY DEF IInv, Novelty, NewMeansRecent
<1> QED
  BY <1>1, InductiveInvariant, PTL

(* Chats exist with their project and users, and go only with them.        *)
THEOREM ChatsGoWithParents == Spec => []ChatsFollowParents
<1>1. IInv => ChatsFollowParents
  BY DEF IInv, Creation
<1> QED
  BY <1>1, InductiveInvariant, PTL

(* A mobile client's chat is with a participant of the project, as long as *)
(* the unique id stays where it is while the request runs.                 *)
THEOREM MobileChatIsWithMember == Spec => []MobileChatHasMember
<1>1. IInv => MobileChatHasMember
  BY DEF IInv, Lookup, MobileChatHasMember
<1> QED
  BY <1>1, InductiveInvariant, PTL

-----------------------------------------------------------------------------
(* The implementation of ChatPromise                                       *)

Gone  == {k \in Key : ~Parents(k)}
Given == {<<r, key[r], found[r]>> : r \in {q \in Request : found[q] # Nobody}}

\* Nothing that ChatPromise sees changes.
LEMMA Unseen ==
    ASSUME UNCHANGED <<projects, users, chat, found>>,
           \A r \in Request : found[r] # Nobody => key'[r] = key[r]
    PROVE  UNCHANGED <<chat, Gone, Given>>
<1>1. Gone' = Gone
  BY DEF Gone, Parents
<1>2. Given' = Given
  BY DEF Given
<1> QED
  BY <1>1, <1>2

\* A request without an answer yet takes the chat of its key for one.
LEMMA Gives ==
    ASSUME IInv, NEW r \in Request, NEW k \in Key, found[r] = Nobody, key[r] = k,
           found' = [found EXCEPT ![r] = chat'[k]], chat'[k] # Nobody,
           UNCHANGED <<projects, users, key>>,
           \/ UNCHANGED chat
           \/ /\ chat[k] = Nobody /\ Parents(k)
              /\ chat' = [chat EXCEPT ![k] = r]
    PROVE  Promise!GetOrCreate(r, k)
<1> USE DEF IInv, TypeOK
<1>1. \A g \in Given : g[1] # r
  BY DEF Given
<1>2. Gone' = Gone
  BY DEF Gone, Parents
<1>3. Given' = Given \cup {<<r, k, chat'[k]>>}
  BY DEF Given
<1>4. \/ chat[k] # Nobody /\ UNCHANGED chat
      \/ chat[k] = Nobody /\ k \notin Gone /\ chat' = [chat EXCEPT ![k] = r]
  BY DEF Gone
<1> QED
  BY <1>1, <1>2, <1>3, <1>4 DEF Promise!GetOrCreate, Gone, Given

LEMMA AnswerGives ==
    ASSUME IInv, NEW r \in Request, ChatFound(r) \/ RecheckFound(r) \/ InsertChat(r)
    PROVE  Promise!Next
<1>1. /\ found[r] = Nobody /\ key[r] \in Key /\ chat'[key[r]] # Nobody
      /\ found' = [found EXCEPT ![r] = chat'[key[r]]]
      /\ UNCHANGED <<projects, users, key>>
      /\ \/ UNCHANGED chat
         \/ /\ chat[key[r]] = Nobody /\ Parents(key[r])
            /\ chat' = [chat EXCEPT ![key[r]] = r]
  <2> USE DEF IInv, TypeOK, Flow, Searching, rows, notes, Goes
  <2>1. CASE ChatFound(r)
    BY <2>1 DEF ChatFound
  <2>2. CASE RecheckFound(r)
    BY <2>2 DEF RecheckFound
  <2>3. CASE InsertChat(r)
    BY <2>3, DirectoryAssumption DEF InsertChat
  <2> QED
    BY <2>1, <2>2, <2>3
<1>2. PICK k \in Key : key[r] = k
  BY <1>1
<1>3. Promise!GetOrCreate(r, k)
  BY <1>1, <1>2, Gives
<1> QED
  BY <1>3 DEF Promise!Next

LEMMA StepKeepsPromise == IInv /\ [Next]_vars => [Promise!Next]_<<chat, Gone, Given>>
<1> SUFFICES ASSUME IInv, [Next]_vars PROVE Promise!Next \/ UNCHANGED <<chat, Gone, Given>>
  OBVIOUS
<1> USE DEF rows, request, notes, Goes
<1>1. ASSUME NEW r \in Request, BeginOffice(r) PROVE UNCHANGED <<chat, Gone, Given>>
  BY <1>1, Unseen DEF IInv, TypeOK, Flow, Searching, BeginOffice
<1>2. ASSUME NEW r \in Request, BeginMobile(r) PROVE UNCHANGED <<chat, Gone, Given>>
  BY <1>2, Unseen DEF IInv, TypeOK, Flow, Searching, BeginMobile
<1>3. ASSUME NEW r \in Request, ProjectFound(r) PROVE UNCHANGED <<chat, Gone, Given>>
  BY <1>3, Unseen DEF IInv, TypeOK, Flow, Searching, ProjectFound
<1>4. ASSUME NEW r \in Request, ProjectFoundAgain(r) \/ PersonFound(r) \/ NoChatFound(r)
                                \/ RecheckNone(r) \/ Answer(r) \/ Fail(r)
      PROVE UNCHANGED <<chat, Gone, Given>>
  BY <1>4, Unseen DEF ProjectFoundAgain, PersonFound, NoChatFound, RecheckNone, Answer, Fail
<1>5. ASSUME NEW r \in Request, ChatFound(r) \/ RecheckFound(r) \/ InsertChat(r)
      PROVE Promise!Next
  BY <1>5, AnswerGives
<1>6. ASSUME NEW p \in Project, DeleteProject(p) PROVE Promise!Next
  <2> DEFINE S == {k \in Key : k[1] = p}
  <2>1. Gone' = Gone \cup S
    BY <1>6 DEF IInv, TypeOK, DeleteProject, Gone, Parents
  <2>2. chat' = [k \in Key |-> IF k \in S THEN Nobody ELSE chat[k]]
    BY <1>6 DEF IInv, TypeOK, DeleteProject
  <2>3. Given' = Given
    BY <1>6 DEF IInv, TypeOK, DeleteProject, Given
  <2>4. Promise!Vanish(S)
    BY <2>1, <2>2, <2>3 DEF Promise!Vanish, Gone, Given
  <2> QED
    BY <2>4 DEF Promise!Next
<1>7. ASSUME NEW u \in User, DeleteUser(u) PROVE Promise!Next
  <2> DEFINE S == {k \in Key : u \in {k[2], k[3]}}
  <2>1. Gone' = Gone \cup S
    BY <1>7 DEF IInv, TypeOK, DeleteUser, Gone, Parents
  <2>2. chat' = [k \in Key |-> IF k \in S THEN Nobody ELSE chat[k]]
    BY <1>7 DEF IInv, TypeOK, DeleteUser
  <2>3. Given' = Given
    BY <1>7 DEF IInv, TypeOK, DeleteUser, Given
  <2>4. Promise!Vanish(S)
    BY <2>1, <2>2, <2>3 DEF Promise!Vanish, Gone, Given
  <2> QED
    BY <2>4 DEF Promise!Next
<1>8. CASE (\E k \in Membership : Enrol(k) \/ Remove(k)) \/ (\E p \in Project : Claim(p)) \/ Release
  BY <1>8, Unseen DEF Enrol, Remove, Claim, Release
<1>9. CASE UNCHANGED vars
  BY <1>9, Unseen DEF vars
<1> QED
  BY <1>1, <1>2, <1>3, <1>4, <1>5, <1>6, <1>7, <1>8, <1>9 DEF Next, Step

(* Getting or creating a chat in several statements, whatever races them,  *)
(* does what the one step of ChatPromise does: one chat per key, given to  *)
(* all who ask for it, until it goes with the project or a user for good.  *)
THEOREM DirectoryKeepsPromise == Spec => KeepsPromise
<1>1. Init => Promise!Init
  <2> SUFFICES ASSUME Init PROVE Promise!Init
    OBVIOUS
  <2>1. Gone = {}
    BY DEF Init, Gone, Parents, Key, User
  <2>2. Given = {}
    BY DEF Init, Given
  <2> QED
    BY <2>1, <2>2 DEF Init, Promise!Init, Gone, Given
<1>2. IInv /\ [Next]_vars => [Promise!Next]_(Promise!promise)
  BY StepKeepsPromise DEF Promise!promise, Gone, Given
<1> QED
  BY <1>1, <1>2, InductiveInvariant, PTL DEF Spec, KeepsPromise, Promise!Spec

=============================================================================
