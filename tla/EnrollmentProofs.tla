-------------------------- MODULE EnrollmentProofs --------------------------
(* Proofs about Enrollment for every set of projects, administrators,      *)
(* participants, e-mail addresses and requests, whatever they ask.         *)
EXTENDS Enrollment, FiniteSetTheorems, TLAPS

-----------------------------------------------------------------------------
(* The inductive invariant                                                 *)

\* What a request that waits for a statement is asking.
ControlOf(r) ==
    /\ pc[r] # "done" => answer[r] = "none"
    /\ pc[r] = "done" => answer[r] # "none"
    /\ pc[r] = "check" => Op(r) \in {"createProject", "available", "updateProject"}
    /\ pc[r] = "write" => Op(r) \in {"createProject", "updateProject", "deleteProject"}
    /\ pc[r] = "find"  => Op(r) \in ProjectOps \cup MemberOps \cup {"deleteUser", "deleteAdmin"}
    /\ pc[r] = "again" => Op(r) \in {"updateProject", "deleteProject"}
    /\ pc[r] \in {"reads", "rows", "count"} => Op(r) = "listProjects"
    /\ pc[r] \in {"project", "free", "upsert", "join"} => Op(r) = "createParticipant"
    /\ pc[r] = "owner" => Op(r) \in MemberOps \cup {"createParticipant", "countParticipants"}
    /\ pc[r] = "join" => row[r] # 0
    /\ Op(r) \in MemberOps /\ pc[r] \in {"owner", "remove"} => row[r] # 0
    /\ pc[r] = "remove" => Op(r) = "deleteParticipant"
    /\ pc[r] = "tally"  => Op(r) = "countParticipants"
    /\ pc[r] = "erase"  => Op(r) \in {"deleteUser", "deleteAdmin"}

Control == \A r \in Request : ControlOf(r)

\* Numbers of rows are never used twice.
Numbers ==
    /\ \A m \in Project \X Person : member[m] <= ids
    /\ \A x \in Person : account[x] <= ids
    /\ \A r \in Request : row[r] <= ids
    /\ \A m, n \in Project \X Person : member[m] = member[n] /\ member[m] # 0 => m = n
    /\ \A x, y \in Person : account[x] = account[y] /\ account[x] # 0 => x = y

\* A fact that has not changed during a request is what it was.
Track ==
    /\ \A r \in Request : Busy(r) =>
          \A f \in Fact \ met[r] : f \in Facts <=> f \in held[r]
    /\ \A r \in Request : pc[r] = "idle" => met[r] = {}
    /\ \A r \in Request, p \in Project : Held(r, ProjectFact(p)) => p \in created

\* What a request has checked, and what it has not seen change since.
KnowsOf(r) ==
    LET x == req[r].person
        p == req[r].project
        u == req[r].uid IN
    /\ Op(r) \in ProjectOps \cup MemberOps \cup {"countParticipants"} => at[r] = p
    /\ Op(r) \in ProjectOps /\ pc[r] \in {"again", "check", "write"} /\ ProjectFact(p) \notin met[r] =>
          p \in live
    /\ Op(r) = "updateProject" /\ pc[r] = "write" /\ UidFact(u) \notin met[r] =>
          Named(u) \subseteq {p}
    /\ Op(r) = "createParticipant" /\ pc[r] \in {"owner", "free", "upsert", "join"} =>
          /\ Held(r, UidFact(u)) /\ Held(r, ProjectFact(at[r]))
          /\ ProjectFact(at[r]) \notin met[r] => at[r] \in live
    /\ pc[r] \in {"free", "upsert", "join"} => req[r].admin \in {Nobody, owner[at[r]]}
    /\ pc[r] \in {"upsert", "join"} /\ MemberFact(at[r], x) \notin met[r] => member[<<at[r], x>>] = 0
    /\ pc[r] = "join" /\ PersonFact(x) \notin met[r] => account[x] = row[r]
    /\ Op(r) \in MemberOps /\ Busy(r) =>
          /\ MemberFact(p, x) \notin met[r] => member[<<p, x>>] = row[r]
          /\ \A m \in Numbered(row[r]) : m = <<p, x>>
    /\ Op(r) = "deleteUser" /\ Busy(r) /\ PersonFact(x) \notin met[r] => account[x] = row[r]

Knows == \A r \in Request : KnowsOf(r)

\* Whose names a user has.
Names ==
    \A x \in Person : names[x] \in Request =>
        LET r == names[x] IN
        /\ Op(r) = "createParticipant" /\ x = req[r].person
        /\ pc[r] \in {"join", "done"}
        /\ pc[r] = "join" => account[x] = row[r]
        /\ pc[r] = "done" =>
              \/ answer[r] = "ok"
              \/ /\ answer[r] = "internal"
                 /\ r \in broken \/ {ProjectFact(at[r]), MemberFact(at[r], x)} \cap met[r] # {}

\* The projects of r's user have not been the same all the time.
Stirred(r) == \E p \in Project : owner[p] = req[r].admin /\ ProjectFact(p) \in met[r]

Lists ==
    \A r \in Request :
        /\ pc[r] = "count" => list[r] = Owned(req[r].admin) \/ Stirred(r)
        /\ pc[r] = "rows" /\ r \notin broken =>
              total[r] = Cardinality(Owned(req[r].admin)) \/ Stirred(r)
        /\ pc[r] = "done" /\ Op(r) = "listProjects" /\ answer[r] = "ok" /\ r \notin broken =>
              total[r] = Cardinality(list[r]) \/ Stirred(r)

\* An answer is justified, and stays so.
Reasons ==
    \A r \in Request \ broken : pc[r] = "done" =>
        /\ Justified(r)
        /\ answer[r] = "forbidden" => at[r] \in created \/ Lacked(r, ProjectFact(at[r]))

IInv == TypeOK /\ Control /\ Numbers /\ Track /\ Knows /\ Names /\ Lists /\ Reasons

-----------------------------------------------------------------------------
(* Types and control                                                       *)

LEMMA RequestTypes ==
    ASSUME req \in Plan, NEW r \in Request
    PROVE  /\ Op(r) \in Operation /\ req[r].admin \in Admin \cup {Nobody}
           /\ req[r].project \in Project /\ req[r].uid \in Uid
           /\ req[r].person \in Person /\ req[r].email \in Email \cup {NoEmail}
           /\ Op(r) # "createParticipant" => req[r].admin \in Admin
BY EnrollmentAssumption DEF Op

LEMMA FactsAreFacts ==
    ASSUME TypeOK
    PROVE  Facts \subseteq Fact
BY DEF Facts, Fact, TypeOK, People, Members

Tables ==
    /\ live \subseteq created /\ created \subseteq Project
    /\ uid \in [Project -> Uid] /\ owner \in [Project -> Admin]
    /\ \A p, q \in live : uid[p] = uid[q] => p = q
    /\ left \subseteq Admin /\ \A p \in live : owner[p] \notin left
    /\ account \in [Person -> Nat]
    /\ names \in [Person -> Request \cup {Nobody}]
    /\ email \in [Person -> Email \cup {NoEmail}]
    /\ member \in [Project \X Person -> Nat]
    /\ \A p \in Project, x \in Person : member[<<p, x>>] # 0 => p \in live /\ account[x] # 0
    /\ ids \in Nat /\ req \in Plan

Requests ==
    /\ req \in Plan
    /\ pc \in [Request -> {"idle", "done"} \cup Awaiting]
    /\ answer \in [Request -> Answers]
    /\ at \in [Request -> Project] /\ row \in [Request -> Nat]
    /\ list \in [Request -> SUBSET Project]
    /\ total \in [Request -> Nat]
    /\ held \in [Request -> SUBSET Fact] /\ met \in [Request -> SUBSET Fact]
    /\ broken \subseteq Request

LEMMA TypeParts == TypeOK <=> Tables /\ Requests
BY DEF TypeOK, Tables, Requests

\* Every step answers its request or has it wait for another statement.
Moves(r) ==
    \E from \in {"idle"} \cup Awaiting :
        \/ \E to \in Awaiting : Goes(r, from, to)
        \/ \E a \in Answers \ {"none"} : Says(r, from, a)

LEMMA StepMoves ==
    ASSUME NEW r \in Request, Step(r)
    PROVE  Moves(r)
<1> USE DEF Moves, Awaiting, Answers
<1>1. CASE Begin(r)
  BY <1>1 DEF Begin
<1>2. CASE Fail(r)
  BY <1>2 DEF Fail, Busy, Excuse
<1>3. CASE CheckUid(r)
  BY <1>3 DEF CheckUid
<1>4. CASE CreateProject(r)
  BY <1>4 DEF CreateProject
<1>5. CASE CreateProjectConflicts(r)
  BY <1>5 DEF CreateProjectConflicts
<1>6. CASE FindProject(r)
  BY <1>6 DEF FindProject
<1>7. CASE FindAgain(r)
  BY <1>7 DEF FindAgain
<1>8. CASE CheckNewUid(r)
  BY <1>8 DEF CheckNewUid
<1>9. CASE UpdateProject(r)
  BY <1>9 DEF UpdateProject
<1>10. CASE UpdateProjectConflicts(r)
  BY <1>10 DEF UpdateProjectConflicts
<1>11. CASE DeleteProject(r)
  BY <1>11 DEF DeleteProject
<1>12. CASE DeleteProjectConflicts(r)
  BY <1>12 DEF DeleteProjectConflicts
<1>13. CASE FindProjects(r)
  BY <1>13 DEF FindProjects
<1>14. CASE CountProjects(r)
  BY <1>14 DEF CountProjects
<1>15. CASE CountProjectsFails(r)
  BY <1>15 DEF CountProjectsFails
<1>16. CASE FindByUid(r)
  BY <1>16 DEF FindByUid
<1>17. CASE FindMember(r)
  BY <1>17 DEF FindMember
<1>18. CASE VerifyOwner(r)
  BY <1>18 DEF VerifyOwner
<1>19. CASE CountParticipants(r)
  BY <1>19 DEF CountParticipants
<1>20. CASE CheckFree(r)
  BY <1>20 DEF CheckFree
<1>21. CASE UpsertUser(r)
  BY <1>21 DEF UpsertUser
<1>22. CASE UpsertConflicts(r)
  BY <1>22 DEF UpsertConflicts
<1>23. CASE CreateParticipant(r)
  BY <1>23 DEF CreateParticipant
<1>24. CASE CreateParticipantConflicts(r)
  BY <1>24 DEF CreateParticipantConflicts
<1>25. CASE DeleteParticipant(r)
  BY <1>25 DEF DeleteParticipant
<1>26. CASE FindUser(r)
  BY <1>26 DEF FindUser
<1>27. CASE DeleteUser(r)
  BY <1>27 DEF DeleteUser
<1>28. CASE DeleteAdmin(r)
  BY <1>28 DEF DeleteAdmin
<1>29. CASE DeleteUserConflicts(r)
  BY <1>29 DEF DeleteUserConflicts
<1> QED
  BY <1>1, <1>2, <1>3, <1>4, <1>5, <1>6, <1>7, <1>8, <1>9, <1>10, <1>11, <1>12, <1>13, <1>14,
     <1>15, <1>16, <1>17, <1>18, <1>19, <1>20, <1>21, <1>22, <1>23, <1>24, <1>25, <1>26, <1>27,
     <1>28, <1>29 DEF Step

LEMMA Moved ==
    ASSUME Requests, NEW r \in Request, Moves(r)
    PROVE  /\ pc' \in [Request -> {"idle", "done"} \cup Awaiting]
           /\ answer' \in [Request -> Answers]
           /\ pc[r] \in {"idle"} \cup Awaiting
           /\ \A q \in Request \ {r} : pc'[q] = pc[q] /\ answer'[q] = answer[q]
           /\ \/ pc'[r] \in Awaiting /\ answer'[r] = answer[r]
              \/ pc'[r] = "done" /\ answer'[r] # "none"
BY DEF Requests, Moves, Goes, Says

\* The actions that write tables.
Writes(r) ==
    \/ CreateProject(r) \/ UpdateProject(r) \/ DeleteProject(r) \/ UpsertUser(r)
    \/ CreateParticipant(r) \/ DeleteParticipant(r) \/ DeleteUser(r) \/ DeleteAdmin(r)

LEMMA StepLooks ==
    ASSUME NEW r \in Request, Step(r), ~Writes(r)
    PROVE  /\ UNCHANGED <<projects, people, req, met>>
           /\ UNCHANGED held \/ Begin(r)
<1> USE DEF Looks
<1>1. CASE Begin(r)
  BY <1>1 DEF Begin
<1>2. CASE Fail(r)
  BY <1>2 DEF Fail
<1>3. CASE CheckUid(r)
  BY <1>3 DEF CheckUid
<1>4. CASE CreateProject(r)
  BY <1>4 DEF Writes
<1>5. CASE CreateProjectConflicts(r)
  BY <1>5 DEF CreateProjectConflicts
<1>6. CASE FindProject(r)
  BY <1>6 DEF FindProject
<1>7. CASE FindAgain(r)
  BY <1>7 DEF FindAgain
<1>8. CASE CheckNewUid(r)
  BY <1>8 DEF CheckNewUid
<1>9. CASE UpdateProject(r)
  BY <1>9 DEF Writes
<1>10. CASE UpdateProjectConflicts(r)
  BY <1>10 DEF UpdateProjectConflicts
<1>11. CASE DeleteProject(r)
  BY <1>11 DEF Writes
<1>12. CASE DeleteProjectConflicts(r)
  BY <1>12 DEF DeleteProjectConflicts
<1>13. CASE FindProjects(r)
  BY <1>13 DEF FindProjects
<1>14. CASE CountProjects(r)
  BY <1>14 DEF CountProjects
<1>15. CASE CountProjectsFails(r)
  BY <1>15 DEF CountProjectsFails
<1>16. CASE FindByUid(r)
  BY <1>16 DEF FindByUid
<1>17. CASE FindMember(r)
  BY <1>17 DEF FindMember
<1>18. CASE VerifyOwner(r)
  BY <1>18 DEF VerifyOwner
<1>19. CASE CountParticipants(r)
  BY <1>19 DEF CountParticipants
<1>20. CASE CheckFree(r)
  BY <1>20 DEF CheckFree
<1>21. CASE UpsertUser(r)
  BY <1>21 DEF Writes
<1>22. CASE UpsertConflicts(r)
  BY <1>22 DEF UpsertConflicts
<1>23. CASE CreateParticipant(r)
  BY <1>23 DEF Writes
<1>24. CASE CreateParticipantConflicts(r)
  BY <1>24 DEF CreateParticipantConflicts
<1>25. CASE DeleteParticipant(r)
  BY <1>25 DEF Writes
<1>26. CASE FindUser(r)
  BY <1>26 DEF FindUser
<1>27. CASE DeleteUser(r)
  BY <1>27 DEF Writes
<1>28. CASE DeleteAdmin(r)
  BY <1>28 DEF Writes
<1>29. CASE DeleteUserConflicts(r)
  BY <1>29 DEF DeleteUserConflicts
<1> QED
  BY <1>1, <1>2, <1>3, <1>4, <1>5, <1>6, <1>7, <1>8, <1>9, <1>10, <1>11, <1>12, <1>13, <1>14,
     <1>15, <1>16, <1>17, <1>18, <1>19, <1>20, <1>21, <1>22, <1>23, <1>24, <1>25, <1>26, <1>27,
     <1>28, <1>29 DEF Step

LEMMA NextTables ==
    ASSUME TypeOK, Control, NEW r \in Request, Step(r)
    PROVE  Tables'
<1>0. Tables /\ Requests
  BY TypeParts
<1> USE <1>0, EnrollmentAssumption, RequestTypes DEF projects, people
<1>1. CASE CreateProject(r)
  BY <1>1 DEF CreateProject, Named, Tables, Requests, Goes, Says
<1>2. CASE UpdateProject(r)
  BY <1>2 DEF UpdateProject, Named, Control, Tables, Requests, Goes, Says
<1>3. CASE DeleteProject(r)
  BY <1>3 DEF DeleteProject, Tables, Requests, Goes, Says
<1>4. CASE UpsertUser(r)
  BY <1>4 DEF UpsertUser, Tables, Requests, Goes, Says
<1>5. CASE CreateParticipant(r)
  <2>1. pc[r] = "join" => row[r] # 0
    BY DEF Control, ControlOf
  <2> QED
    BY <1>5, <2>1 DEF CreateParticipant, Joinable, Tables, Requests, Goes, Says
<1>6. CASE DeleteParticipant(r)
  <2>1. CASE UNCHANGED <<projects, people, req>>
    BY <2>1 DEF Tables
  <2>2. CASE \E m \in Project \X Person : member' = [member EXCEPT ![m] = 0]
    BY <1>6, <2>2 DEF DeleteParticipant, Tables, Looks
  <2> QED
    BY <1>6, <2>1, <2>2 DEF DeleteParticipant, Numbered, Members, Looks
<1>7. CASE DeleteUser(r)
  BY <1>7 DEF DeleteUser, Tables, Requests, Goes, Says
<1>8. CASE DeleteAdmin(r)
  BY <1>8 DEF DeleteAdmin, Owned, Tables, Requests, Goes, Says
<1>9. CASE ~Writes(r)
  BY <1>9, StepLooks DEF Tables
<1> QED
  BY <1>1, <1>2, <1>3, <1>4, <1>5, <1>6, <1>7, <1>8, <1>9 DEF Writes

LEMMA ChangeTypes ==
    ASSUME Requests, NEW F \in SUBSET Fact, Change(F)
    PROVE  met' \in [Request -> SUBSET Fact]
BY DEF Requests, Change

LEMMA FactKinds ==
    /\ \A u \in Uid : UidFact(u) \in Fact
    /\ \A p \in Project : ProjectFact(p) \in Fact
    /\ \A a \in Admin : AdminFact(a) \in Fact
    /\ \A x \in Person : PersonFact(x) \in Fact
    /\ \A e \in Email \cup {NoEmail} : EmailFact(e) \in Fact
    /\ \A p \in Project, x \in Person : MemberFact(p, x) \in Fact
BY DEF Fact

LEMMA NextMet ==
    ASSUME TypeOK, Control, NEW r \in Request, Step(r)
    PROVE  met' \in [Request -> SUBSET Fact]
<1>0. Tables /\ Requests /\ Members \subseteq Project \X Person
  BY TypeParts DEF Members
<1>m. \A m \in Project \X Person : MemberFact(m[1], m[2]) \in Fact
  BY FactKinds
<1> USE <1>0, <1>m, EnrollmentAssumption, RequestTypes, FactKinds, ChangeTypes
<1>1. CASE CreateProject(r)
  <2>1. \E F \in SUBSET Fact : Change(F)
    BY <1>1 DEF CreateProject, Tables, Requests
  <2> QED
    BY <2>1
<1>2. CASE UpdateProject(r)
  <2> DEFINE F == IF uid[at[r]] = req[r].uid THEN {} ELSE {UidFact(uid[at[r]]), UidFact(req[r].uid)}
  <2>1. uid[at[r]] \in Uid /\ req[r].uid \in Uid
    BY DEF Tables, Requests
  <2>2. F \in SUBSET Fact
    BY <2>1
  <2>3. Change(F)
    BY <1>2 DEF UpdateProject
  <2> QED
    BY <2>2, <2>3
<1>3. CASE DeleteProject(r)
  <2> DEFINE F == {UidFact(uid[at[r]]), ProjectFact(at[r])}
                  \cup {MemberFact(m[1], m[2]) : m \in {n \in Members : n[1] = at[r]}}
  <2>1. uid[at[r]] \in Uid /\ at[r] \in Project
    BY DEF Tables, Requests
  <2>2. F \in SUBSET Fact
    BY <2>1
  <2>3. Change(F)
    BY <1>3 DEF DeleteProject
  <2> QED
    BY <2>2, <2>3
<1>4. CASE UpsertUser(r)
  <2> DEFINE x == req[r].person
  <2>1. x \in Person /\ email[x] \in Email \cup {NoEmail} /\ email'[x] \in Email \cup {NoEmail}
    BY <1>4 DEF UpsertUser, Tables
  <2>2. \E F \in SUBSET Fact : Change(F)
    BY <1>4, <2>1 DEF UpsertUser
  <2> QED
    BY <2>2
<1>5. CASE CreateParticipant(r)
  <2>1. \E F \in SUBSET Fact : Change(F)
    BY <1>5 DEF CreateParticipant, Tables, Requests
  <2> QED
    BY <2>1
<1>6. CASE DeleteParticipant(r)
  <2>1. CASE UNCHANGED met
    BY <2>1 DEF Requests
  <2>2. CASE \E m \in Project \X Person : Change({MemberFact(m[1], m[2])})
    BY <2>2
  <2> QED
    BY <1>6, <2>1, <2>2 DEF DeleteParticipant, Numbered, Looks
<1>7. CASE DeleteUser(r)
  <2> DEFINE x == req[r].person
             F == {PersonFact(x), EmailFact(email[x])}
                  \cup {MemberFact(m[1], m[2]) : m \in {n \in Members : n[2] = x}}
  <2>1. email[x] \in Email \cup {NoEmail} /\ x \in Person
    BY DEF Tables
  <2>2. F \in SUBSET Fact
    BY <2>1
  <2>3. Change(F)
    BY <1>7 DEF DeleteUser
  <2> QED
    BY <2>2, <2>3
<1>8. CASE DeleteAdmin(r)
  <2>1. \E F \in SUBSET Fact : Change(F)
    BY <1>8 DEF DeleteAdmin, Tables, Requests
  <2> QED
    BY <2>1
<1>9. CASE ~Writes(r)
  BY <1>9, StepLooks DEF Requests
<1> QED
  BY <1>1, <1>2, <1>3, <1>4, <1>5, <1>6, <1>7, <1>8, <1>9 DEF Writes

LEMMA OwnedFinite ==
    ASSUME live \subseteq Project, NEW a
    PROVE  Cardinality(Owned(a)) \in Nat
<1>1. Owned(a) \in SUBSET Project
  BY DEF Owned
<1> QED
  BY <1>1, EnrollmentAssumption, FS_Subset, FS_CardinalityType

LEMMA NextLocal ==
    ASSUME TypeOK, Control, NEW r \in Request, Step(r)
    PROVE  /\ at' \in [Request -> Project] /\ row' \in [Request -> Nat]
           /\ list' \in [Request -> SUBSET Project] /\ total' \in [Request -> Nat]
           /\ held' \in [Request -> SUBSET Fact] /\ broken' \subseteq Request
<1>0. Tables /\ Requests
  BY TypeParts
<1> USE <1>0, EnrollmentAssumption, RequestTypes DEF Requests, local
<1>1. CASE Begin(r)
  BY <1>1, FactsAreFacts DEF Begin, Tables
<1>2. CASE Fail(r)
  BY <1>2 DEF Fail, Looks
<1>3. CASE CheckUid(r)
  BY <1>3 DEF CheckUid, Looks
<1>4. CASE CreateProject(r)
  BY <1>4 DEF CreateProject, Tables
<1>5. CASE CreateProjectConflicts(r)
  BY <1>5 DEF CreateProjectConflicts, Looks
<1>6. CASE FindProject(r)
  BY <1>6 DEF FindProject, Looks
<1>7. CASE FindAgain(r)
  BY <1>7 DEF FindAgain, Looks
<1>8. CASE CheckNewUid(r)
  BY <1>8 DEF CheckNewUid, Looks
<1>9. CASE UpdateProject(r)
  BY <1>9 DEF UpdateProject, Looks
<1>10. CASE UpdateProjectConflicts(r)
  BY <1>10 DEF UpdateProjectConflicts, Looks
<1>11. CASE DeleteProject(r)
  BY <1>11 DEF DeleteProject, Looks
<1>12. CASE DeleteProjectConflicts(r)
  BY <1>12 DEF DeleteProjectConflicts, Looks
<1>13. CASE FindProjects(r)
  BY <1>13 DEF FindProjects, Owned, Tables, Looks
<1>14. CASE CountProjects(r)
  <2>1. Cardinality(Owned(req[r].admin)) \in Nat
    BY <1>14, OwnedFinite DEF Tables
  <2> QED
    BY <1>14, <2>1 DEF CountProjects, Looks
<1>15. CASE CountProjectsFails(r)
  BY <1>15 DEF CountProjectsFails, Looks
<1>16. CASE FindByUid(r)
  BY <1>16 DEF FindByUid, Named, Tables, Looks
<1>17. CASE FindMember(r)
  BY <1>17 DEF FindMember, Numbered, Members, Looks
<1>18. CASE VerifyOwner(r)
  BY <1>18 DEF VerifyOwner, Looks
<1>19. CASE CountParticipants(r)
  BY <1>19 DEF CountParticipants, Looks
<1>20. CASE CheckFree(r)
  BY <1>20 DEF CheckFree, Looks
<1>21. CASE UpsertUser(r)
  BY <1>21 DEF UpsertUser, Tables
<1>22. CASE UpsertConflicts(r)
  BY <1>22 DEF UpsertConflicts, Looks
<1>23. CASE CreateParticipant(r)
  BY <1>23 DEF CreateParticipant, Looks
<1>24. CASE CreateParticipantConflicts(r)
  BY <1>24 DEF CreateParticipantConflicts, Looks
<1>25. CASE DeleteParticipant(r)
  BY <1>25 DEF DeleteParticipant, Looks
<1>26. CASE FindUser(r)
  BY <1>26 DEF FindUser, Looks
<1>27. CASE DeleteUser(r)
  BY <1>27 DEF DeleteUser, Looks
<1>28. CASE DeleteAdmin(r)
  BY <1>28 DEF DeleteAdmin, Looks
<1>29. CASE DeleteUserConflicts(r)
  BY <1>29 DEF DeleteUserConflicts, Looks
<1> QED
  BY <1>1, <1>2, <1>3, <1>4, <1>5, <1>6, <1>7, <1>8, <1>9, <1>10, <1>11, <1>12, <1>13, <1>14,
     <1>15, <1>16, <1>17, <1>18, <1>19, <1>20, <1>21, <1>22, <1>23, <1>24, <1>25, <1>26, <1>27,
     <1>28, <1>29 DEF Step

LEMMA NextTypeOK == TypeOK /\ Control /\ [Next]_vars => TypeOK'
<1> SUFFICES ASSUME TypeOK, Control, [Next]_vars PROVE Tables' /\ Requests'
  BY DEF TypeOK, Tables, Requests
<1>0. Tables /\ Requests
  BY TypeParts
<1>1. ASSUME NEW r \in Request, Step(r) PROVE Tables' /\ Requests'
  <2>1. req' \in Plan
    BY <1>1, NextTables DEF Tables
  <2> QED
    BY <1>0, <1>1, <2>1, NextTables, NextMet, NextLocal, StepMoves, Moved DEF Requests
<1>2. CASE UNCHANGED vars
  BY <1>0, <1>2 DEF vars, Tables, Requests, projects, people, local
<1> QED
  BY <1>1, <1>2 DEF Next

-----------------------------------------------------------------------------
(* What requests ask and wait for                                          *)

LEMMA StepOthers ==
    ASSUME TypeOK, NEW r \in Request, Step(r), NEW q \in Request \ {r}
    PROVE  /\ pc'[q] = pc[q] /\ answer'[q] = answer[q] /\ at'[q] = at[q] /\ row'[q] = row[q]
           /\ list'[q] = list[q] /\ total'[q] = total[q] /\ held'[q] = held[q]
           /\ q \in broken' <=> q \in broken
<1>1. Requests
  BY TypeParts
<1>2. pc'[q] = pc[q] /\ answer'[q] = answer[q]
  BY <1>1, StepMoves, Moved
<1>3. /\ at'[q] = at[q] /\ row'[q] = row[q] /\ list'[q] = list[q] /\ total'[q] = total[q]
      /\ held'[q] = held[q] /\ (q \in broken' <=> q \in broken)
  <2> USE <1>1 DEF Requests, local
  <2>1. CASE Begin(r)
    BY <2>1 DEF Begin, Looks
  <2>2. CASE Fail(r)
    BY <2>2 DEF Fail, Looks
  <2>3. CASE CheckUid(r)
    BY <2>3 DEF CheckUid, Looks
  <2>4. CASE CreateProject(r)
    BY <2>4 DEF CreateProject, Looks
  <2>5. CASE CreateProjectConflicts(r)
    BY <2>5 DEF CreateProjectConflicts, Looks
  <2>6. CASE FindProject(r)
    BY <2>6 DEF FindProject, Looks
  <2>7. CASE FindAgain(r)
    BY <2>7 DEF FindAgain, Looks
  <2>8. CASE CheckNewUid(r)
    BY <2>8 DEF CheckNewUid, Looks
  <2>9. CASE UpdateProject(r)
    BY <2>9 DEF UpdateProject, Looks
  <2>10. CASE UpdateProjectConflicts(r)
    BY <2>10 DEF UpdateProjectConflicts, Looks
  <2>11. CASE DeleteProject(r)
    BY <2>11 DEF DeleteProject, Looks
  <2>12. CASE DeleteProjectConflicts(r)
    BY <2>12 DEF DeleteProjectConflicts, Looks
  <2>13. CASE FindProjects(r)
    BY <2>13 DEF FindProjects, Looks
  <2>14. CASE CountProjects(r)
    BY <2>14 DEF CountProjects, Looks
  <2>15. CASE CountProjectsFails(r)
    BY <2>15 DEF CountProjectsFails, Looks
  <2>16. CASE FindByUid(r)
    BY <2>16 DEF FindByUid, Looks
  <2>17. CASE FindMember(r)
    BY <2>17 DEF FindMember, Looks
  <2>18. CASE VerifyOwner(r)
    BY <2>18 DEF VerifyOwner, Looks
  <2>19. CASE CountParticipants(r)
    BY <2>19 DEF CountParticipants, Looks
  <2>20. CASE CheckFree(r)
    BY <2>20 DEF CheckFree, Looks
  <2>21. CASE UpsertUser(r)
    BY <2>21 DEF UpsertUser, Looks
  <2>22. CASE UpsertConflicts(r)
    BY <2>22 DEF UpsertConflicts, Looks
  <2>23. CASE CreateParticipant(r)
    BY <2>23 DEF CreateParticipant, Looks
  <2>24. CASE CreateParticipantConflicts(r)
    BY <2>24 DEF CreateParticipantConflicts, Looks
  <2>25. CASE DeleteParticipant(r)
    BY <2>25 DEF DeleteParticipant, Looks
  <2>26. CASE FindUser(r)
    BY <2>26 DEF FindUser, Looks
  <2>27. CASE DeleteUser(r)
    BY <2>27 DEF DeleteUser, Looks
  <2>28. CASE DeleteAdmin(r)
    BY <2>28 DEF DeleteAdmin, Looks
  <2>29. CASE DeleteUserConflicts(r)
    BY <2>29 DEF DeleteUserConflicts, Looks
  <2> QED
    BY <2>1, <2>2, <2>3, <2>4, <2>5, <2>6, <2>7, <2>8, <2>9, <2>10, <2>11, <2>12, <2>13, <2>14,
       <2>15, <2>16, <2>17, <2>18, <2>19, <2>20, <2>21, <2>22, <2>23, <2>24, <2>25, <2>26, <2>27,
       <2>28, <2>29 DEF Step
<1> QED
  BY <1>2, <1>3

LEMMA SameRequests ==
    ASSUME NEW r \in Request, Step(r)
    PROVE  req' = req
<1> USE DEF Looks
<1>1. CASE Begin(r)
  BY <1>1 DEF Begin
<1>2. CASE Fail(r)
  BY <1>2 DEF Fail
<1>3. CASE CheckUid(r)
  BY <1>3 DEF CheckUid
<1>4. CASE CreateProject(r)
  BY <1>4 DEF CreateProject
<1>5. CASE CreateProjectConflicts(r)
  BY <1>5 DEF CreateProjectConflicts
<1>6. CASE FindProject(r)
  BY <1>6 DEF FindProject
<1>7. CASE FindAgain(r)
  BY <1>7 DEF FindAgain
<1>8. CASE CheckNewUid(r)
  BY <1>8 DEF CheckNewUid
<1>9. CASE UpdateProject(r)
  BY <1>9 DEF UpdateProject
<1>10. CASE UpdateProjectConflicts(r)
  BY <1>10 DEF UpdateProjectConflicts
<1>11. CASE DeleteProject(r)
  BY <1>11 DEF DeleteProject
<1>12. CASE DeleteProjectConflicts(r)
  BY <1>12 DEF DeleteProjectConflicts
<1>13. CASE FindProjects(r)
  BY <1>13 DEF FindProjects
<1>14. CASE CountProjects(r)
  BY <1>14 DEF CountProjects
<1>15. CASE CountProjectsFails(r)
  BY <1>15 DEF CountProjectsFails
<1>16. CASE FindByUid(r)
  BY <1>16 DEF FindByUid
<1>17. CASE FindMember(r)
  BY <1>17 DEF FindMember
<1>18. CASE VerifyOwner(r)
  BY <1>18 DEF VerifyOwner
<1>19. CASE CountParticipants(r)
  BY <1>19 DEF CountParticipants
<1>20. CASE CheckFree(r)
  BY <1>20 DEF CheckFree
<1>21. CASE UpsertUser(r)
  BY <1>21 DEF UpsertUser
<1>22. CASE UpsertConflicts(r)
  BY <1>22 DEF UpsertConflicts
<1>23. CASE CreateParticipant(r)
  BY <1>23 DEF CreateParticipant
<1>24. CASE CreateParticipantConflicts(r)
  BY <1>24 DEF CreateParticipantConflicts
<1>25. CASE DeleteParticipant(r)
  BY <1>25 DEF DeleteParticipant
<1>26. CASE FindUser(r)
  BY <1>26 DEF FindUser
<1>27. CASE DeleteUser(r)
  BY <1>27 DEF DeleteUser
<1>28. CASE DeleteAdmin(r)
  BY <1>28 DEF DeleteAdmin
<1>29. CASE DeleteUserConflicts(r)
  BY <1>29 DEF DeleteUserConflicts
<1> QED
  BY <1>1, <1>2, <1>3, <1>4, <1>5, <1>6, <1>7, <1>8, <1>9, <1>10, <1>11, <1>12, <1>13, <1>14,
     <1>15, <1>16, <1>17, <1>18, <1>19, <1>20, <1>21, <1>22, <1>23, <1>24, <1>25, <1>26, <1>27,
     <1>28, <1>29 DEF Step

LEMMA NextControlOf ==
    ASSUME TypeOK, Control, NEW r \in Request, Step(r)
    PROVE  ControlOf(r)'
<1>a. Requests /\ Tables /\ req' = req /\ Op(r)' = Op(r) /\ Op(r) \in Operation
  BY TypeParts, SameRequests, RequestTypes DEF Op, Requests
<1>b. ControlOf(r)
  BY DEF Control
<1> USE <1>a, <1>b DEF ControlOf, Requests, Goes, Says
<1>1. CASE Begin(r)
  BY <1>1 DEF Begin, Operation, Creating, ProjectOps, MemberOps
<1>2. CASE Fail(r)
  BY <1>2 DEF Fail, Busy, Awaiting, Excuse
<1>3. CASE CheckUid(r)
  BY <1>3 DEF CheckUid
<1>4. CASE CreateProject(r)
  BY <1>4 DEF CreateProject
<1>5. CASE CreateProjectConflicts(r)
  BY <1>5 DEF CreateProjectConflicts
<1>6. CASE FindProject(r)
  BY <1>6 DEF FindProject, ProjectOps
<1>7. CASE FindAgain(r)
  BY <1>7 DEF FindAgain
<1>8. CASE CheckNewUid(r)
  BY <1>8 DEF CheckNewUid
<1>9. CASE UpdateProject(r)
  BY <1>9 DEF UpdateProject
<1>10. CASE UpdateProjectConflicts(r)
  BY <1>10 DEF UpdateProjectConflicts
<1>11. CASE DeleteProject(r)
  BY <1>11 DEF DeleteProject
<1>12. CASE DeleteProjectConflicts(r)
  BY <1>12 DEF DeleteProjectConflicts
<1>13. CASE FindProjects(r)
  BY <1>13 DEF FindProjects
<1>14. CASE CountProjects(r)
  BY <1>14 DEF CountProjects
<1>15. CASE CountProjectsFails(r)
  BY <1>15 DEF CountProjectsFails
<1>16. CASE FindByUid(r)
  BY <1>16 DEF FindByUid, MemberOps
<1>17. CASE FindMember(r)
  BY <1>17 DEF FindMember, Numbered, Members, MemberOps, Looks
<1>18. CASE VerifyOwner(r)
  BY <1>18 DEF VerifyOwner, MemberOps, Looks, local
<1>19. CASE CountParticipants(r)
  BY <1>19 DEF CountParticipants
<1>20. CASE CheckFree(r)
  BY <1>20 DEF CheckFree
<1>21. CASE UpsertUser(r)
  <2>1. row'[r] # 0
    BY <1>21, RequestTypes DEF UpsertUser, Tables
  <2> QED
    BY <1>21, <2>1 DEF UpsertUser
<1>22. CASE UpsertConflicts(r)
  BY <1>22 DEF UpsertConflicts
<1>23. CASE CreateParticipant(r)
  BY <1>23 DEF CreateParticipant
<1>24. CASE CreateParticipantConflicts(r)
  BY <1>24 DEF CreateParticipantConflicts
<1>25. CASE DeleteParticipant(r)
  BY <1>25 DEF DeleteParticipant
<1>26. CASE FindUser(r)
  BY <1>26 DEF FindUser
<1>27. CASE DeleteUser(r)
  BY <1>27 DEF DeleteUser
<1>28. CASE DeleteAdmin(r)
  BY <1>28 DEF DeleteAdmin
<1>29. CASE DeleteUserConflicts(r)
  BY <1>29 DEF DeleteUserConflicts
<1> QED
  BY <1>1, <1>2, <1>3, <1>4, <1>5, <1>6, <1>7, <1>8, <1>9, <1>10, <1>11, <1>12, <1>13, <1>14,
     <1>15, <1>16, <1>17, <1>18, <1>19, <1>20, <1>21, <1>22, <1>23, <1>24, <1>25, <1>26, <1>27,
     <1>28, <1>29 DEF Step

LEMMA NextControl ==
    ASSUME TypeOK, Control, NEW r \in Request, Step(r)
    PROVE  Control'
<1>1. ASSUME NEW q \in Request \ {r} PROVE ControlOf(q)'
  BY <1>1, StepOthers, SameRequests DEF Control, ControlOf, Op
<1> QED
  BY <1>1, NextControlOf DEF Control

LEMMA NumbersFixed ==
    ASSUME Numbers, UNCHANGED <<member, account, ids, row>>
    PROVE  Numbers'
BY DEF Numbers

LEMMA NextNumbers ==
    ASSUME TypeOK, Control, Numbers, NEW r \in Request, Step(r)
    PROVE  Numbers'
<1>0. Tables /\ Requests
  BY TypeParts
<1> USE <1>0, RequestTypes DEF Numbers, Tables, Requests, projects, people, local
<1>1. CASE Begin(r)
  BY <1>1 DEF Begin
<1>2. CASE Fail(r)
  BY <1>2, NumbersFixed DEF Fail, Looks
<1>3. CASE CheckUid(r)
  BY <1>3, NumbersFixed DEF CheckUid, Looks
<1>4. CASE CreateProject(r)
  BY <1>4, NumbersFixed DEF CreateProject, Looks
<1>5. CASE CreateProjectConflicts(r)
  BY <1>5, NumbersFixed DEF CreateProjectConflicts, Looks
<1>6. CASE FindProject(r)
  BY <1>6, NumbersFixed DEF FindProject, Looks
<1>7. CASE FindAgain(r)
  BY <1>7, NumbersFixed DEF FindAgain, Looks
<1>8. CASE CheckNewUid(r)
  BY <1>8, NumbersFixed DEF CheckNewUid, Looks
<1>9. CASE UpdateProject(r)
  BY <1>9, NumbersFixed DEF UpdateProject, Looks
<1>10. CASE UpdateProjectConflicts(r)
  BY <1>10, NumbersFixed DEF UpdateProjectConflicts, Looks
<1>11. CASE DeleteProject(r)
  BY <1>11 DEF DeleteProject
<1>12. CASE DeleteProjectConflicts(r)
  BY <1>12, NumbersFixed DEF DeleteProjectConflicts, Looks
<1>13. CASE FindProjects(r)
  BY <1>13, NumbersFixed DEF FindProjects, Looks
<1>14. CASE CountProjects(r)
  BY <1>14, NumbersFixed DEF CountProjects, Looks
<1>15. CASE CountProjectsFails(r)
  BY <1>15, NumbersFixed DEF CountProjectsFails, Looks
<1>16. CASE FindByUid(r)
  BY <1>16, NumbersFixed DEF FindByUid, Looks
<1>17. CASE FindMember(r)
  BY <1>17, NumbersFixed DEF FindMember, Looks
<1>18. CASE VerifyOwner(r)
  BY <1>18, NumbersFixed DEF VerifyOwner, Looks
<1>19. CASE CountParticipants(r)
  BY <1>19, NumbersFixed DEF CountParticipants, Looks
<1>20. CASE CheckFree(r)
  BY <1>20, NumbersFixed DEF CheckFree, Looks
<1>21. CASE UpsertUser(r)
  BY <1>21 DEF UpsertUser
<1>22. CASE UpsertConflicts(r)
  BY <1>22, NumbersFixed DEF UpsertConflicts, Looks
<1>23. CASE CreateParticipant(r)
  BY <1>23 DEF CreateParticipant
<1>24. CASE CreateParticipantConflicts(r)
  BY <1>24, NumbersFixed DEF CreateParticipantConflicts, Looks
<1>25. CASE DeleteParticipant(r)
  <2>1. CASE UNCHANGED <<member, account, ids, row>>
    BY <2>1, NumbersFixed
  <2>2. CASE /\ \E m \in Project \X Person : member' = [member EXCEPT ![m] = 0]
             /\ UNCHANGED <<account, ids, row>>
    BY <2>2
  <2> QED
    BY <1>25, <2>1, <2>2 DEF DeleteParticipant, Numbered, Members, Looks
<1>26. CASE FindUser(r)
  BY <1>26, NumbersFixed DEF FindUser, Looks
<1>27. CASE DeleteUser(r)
  BY <1>27 DEF DeleteUser
<1>28. CASE DeleteAdmin(r)
  BY <1>28, NumbersFixed DEF DeleteAdmin, Looks
<1>29. CASE DeleteUserConflicts(r)
  BY <1>29, NumbersFixed DEF DeleteUserConflicts, Looks
<1> QED
  BY <1>1, <1>2, <1>3, <1>4, <1>5, <1>6, <1>7, <1>8, <1>9, <1>10, <1>11, <1>12, <1>13, <1>14,
     <1>15, <1>16, <1>17, <1>18, <1>19, <1>20, <1>21, <1>22, <1>23, <1>24, <1>25, <1>26, <1>27,
     <1>28, <1>29 DEF Step

-----------------------------------------------------------------------------
(* What the history of a request says                                      *)

\* What the facts say of the tables.
FactsRight ==
    /\ \A u \in Uid : UidFact(u) \in Facts <=> Named(u) # {}
    /\ \A p \in Project : ProjectFact(p) \in Facts <=> p \in live
    /\ \A a \in Admin : AdminFact(a) \in Facts <=> a \notin left
    /\ \A x \in Person : PersonFact(x) \in Facts <=> account[x] # 0
    /\ \A e \in Email \cup {NoEmail} : EmailFact(e) \in Facts <=>
          \E x \in Person : account[x] # 0 /\ email[x] = e
    /\ \A p \in Project, x \in Person : MemberFact(p, x) \in Facts <=> member[<<p, x>>] # 0

LEMMA FactsHold == Tables => FactsRight
<1> SUFFICES ASSUME Tables PROVE FactsRight
  OBVIOUS
<1> USE DEF Facts, UidFact, ProjectFact, AdminFact, PersonFact, EmailFact, MemberFact, Members, People, Named,
       Tables
<1>1. \A u \in Uid : UidFact(u) \in Facts <=> Named(u) # {}
  OBVIOUS
<1>2. \A p \in Project : ProjectFact(p) \in Facts <=> p \in live
  OBVIOUS
<1>3. \A a \in Admin : AdminFact(a) \in Facts <=> a \notin left
  OBVIOUS
<1>4. \A x \in Person : PersonFact(x) \in Facts <=> account[x] # 0
  OBVIOUS
<1>5. \A e \in Email \cup {NoEmail} : EmailFact(e) \in Facts <=>
         \E x \in Person : account[x] # 0 /\ email[x] = e
  OBVIOUS
<1>6. ASSUME NEW p \in Project, NEW x \in Person
      PROVE  MemberFact(p, x) \in Facts <=> member[<<p, x>>] # 0
  <2> HIDE DEF MemberFact
  <2> DEFINE ms == {MemberFact(m[1], m[2]) : m \in Members}
  <2>1. MemberFact(p, x) \in Facts <=> MemberFact(p, x) \in ms
    BY DEF MemberFact
  <2>2. \A m \in Members : MemberFact(p, x) = MemberFact(m[1], m[2]) <=> m = <<p, x>>
    BY DEF MemberFact
  <2>3. MemberFact(p, x) \in ms <=> <<p, x>> \in Members
    BY <2>2, Zenon
  <2>4. <<p, x>> \in Members <=> member[<<p, x>>] # 0
    OBVIOUS
  <2> QED
    BY <2>1, <2>3, <2>4
<1> HIDE DEF Facts, UidFact, ProjectFact, AdminFact, PersonFact, EmailFact, MemberFact
<1> QED
  BY <1>1, <1>2, <1>3, <1>4, <1>5, <1>6 DEF FactsRight

LEMMA FactsHoldNext ==
    ASSUME Tables'
    PROVE  FactsRight'
<1>1. Tables' => FactsRight'
  BY FactsHold, PTL
<1> QED
  BY <1>1

\* A change of the tables leaves the facts outside F as they are.
Frame(F) ==
    /\ \A u \in Uid : UidFact(u) \in F \/ Named(u)' = Named(u)
    /\ \A p \in Project : ProjectFact(p) \in F \/ (p \in live' <=> p \in live)
    /\ \A a \in Admin : AdminFact(a) \in F \/ (a \in left' <=> a \in left)
    /\ \A x \in Person : PersonFact(x) \in F \/ account'[x] = account[x]
    /\ \A e \in Email \cup {NoEmail} : EmailFact(e) \in F \/
          ((\E x \in Person : account'[x] # 0 /\ email'[x] = e) <=>
           \E x \in Person : account[x] # 0 /\ email[x] = e)
    /\ \A p \in Project, x \in Person : MemberFact(p, x) \in F \/
          member'[<<p, x>>] = member[<<p, x>>]

LEMMA FramedFacts ==
    ASSUME Tables, Tables', NEW F, Frame(F)
    PROVE  \A f \in Fact : f \in F \/ (f \in Facts' <=> f \in Facts)
<1>0. FactsRight /\ FactsRight'
  BY FactsHold, FactsHoldNext
<1> SUFFICES ASSUME NEW f \in Fact, f \notin F PROVE f \in Facts' <=> f \in Facts
  OBVIOUS
<1>1. CASE \E u \in Uid : f = UidFact(u)
  BY <1>0, <1>1 DEF Frame, FactsRight
<1>2. CASE \E p \in Project : f = ProjectFact(p)
  BY <1>0, <1>2 DEF Frame, FactsRight
<1>3. CASE \E a \in Admin : f = AdminFact(a)
  BY <1>0, <1>3 DEF Frame, FactsRight
<1>4. CASE \E x \in Person : f = PersonFact(x)
  BY <1>0, <1>4 DEF Frame, FactsRight
<1>5. CASE \E e \in Email \cup {NoEmail} : f = EmailFact(e)
  BY <1>0, <1>5 DEF Frame, FactsRight
<1>6. CASE \E p \in Project, x \in Person : f = MemberFact(p, x)
  <2>1. PICK p \in Project, x \in Person : f = MemberFact(p, x)
    BY <1>6
  <2>2. MemberFact(p, x) \in F \/ member'[<<p, x>>] = member[<<p, x>>]
    BY DEF Frame
  <2>3. /\ MemberFact(p, x) \in Facts <=> member[<<p, x>>] # 0
        /\ MemberFact(p, x) \in Facts' <=> member'[<<p, x>>] # 0
    BY <1>0 DEF FactsRight
  <2> QED
    BY <2>1, <2>2, <2>3
<1> QED
  BY <1>1, <1>2, <1>3, <1>4, <1>5, <1>6 DEF Fact

\* A step notes what it changes.
Noted ==
    \/ \E F \in SUBSET Fact :
          Change(F) /\ Frame(F) /\ \A p \in Project : ProjectFact(p) \in F => p \in created'
    \/ UNCHANGED <<projects, people, met>>

LEMMA ProjectFacts ==
    /\ \A p, q \in Project : ProjectFact(p) = ProjectFact(q) => p = q
    /\ \A p \in Project, u \in Uid : ProjectFact(p) # UidFact(u)
    /\ \A p \in Project, a \in Admin : ProjectFact(p) # AdminFact(a)
    /\ \A p \in Project, x \in Person : ProjectFact(p) # PersonFact(x)
    /\ \A p \in Project, e \in Email \cup {NoEmail} : ProjectFact(p) # EmailFact(e)
    /\ \A p, q \in Project, x \in Person : ProjectFact(p) # MemberFact(q, x)
BY DEF ProjectFact, UidFact, AdminFact, PersonFact, EmailFact, MemberFact

LEMMA NothingFramed ==
    ASSUME UNCHANGED <<projects, people>>
    PROVE  Frame({})
BY DEF Frame, Named, projects, people

LEMMA StepNotes ==
    ASSUME TypeOK, Control, NEW r \in Request, Step(r)
    PROVE  Noted
<1>0. /\ Tables /\ Requests
      /\ req[r].admin \in Admin \cup {Nobody} /\ req[r].uid \in Uid /\ req[r].person \in Person
      /\ req[r].email \in Email \cup {NoEmail} /\ at[r] \in Project
      /\ Op(r) # "createParticipant" => req[r].admin \in Admin
  BY TypeParts, RequestTypes DEF Requests
<1> USE <1>0
<1>1. CASE CreateProject(r)
  <2>1. PICK p \in Project \ created :
           /\ live' = live \cup {p} /\ created' = created \cup {p}
           /\ uid' = [uid EXCEPT ![p] = req[r].uid]
           /\ Change({UidFact(req[r].uid), ProjectFact(p)})
    BY <1>1 DEF CreateProject
  <2> DEFINE F == {UidFact(req[r].uid), ProjectFact(p)}
  <2>2. F \in SUBSET Fact
    BY FactKinds
  <2>3. Frame(F)
    BY <1>1, <2>1 DEF CreateProject, Frame, Named, Tables, people
  <2>4. \A q \in Project : ProjectFact(q) \in F => q \in created'
    BY <2>1, ProjectFacts
  <2> QED
    BY <2>1, <2>2, <2>3, <2>4 DEF Noted
<1>2. CASE UpdateProject(r)
  <2> DEFINE F == IF uid[at[r]] = req[r].uid THEN {} ELSE {UidFact(uid[at[r]]), UidFact(req[r].uid)}
  <2>1. uid[at[r]] \in Uid
    BY DEF Tables
  <2>2. F \in SUBSET Fact
    BY <2>1, FactKinds
  <2>3. Frame(F)
    BY <1>2, <2>1 DEF UpdateProject, Frame, Named, Tables, people
  <2>4. Change(F) /\ \A q \in Project : ProjectFact(q) \in F => q \in created'
    BY <1>2, <2>1, ProjectFacts DEF UpdateProject
  <2> QED
    BY <2>2, <2>3, <2>4 DEF Noted
<1>3. CASE DeleteProject(r)
  <2> DEFINE G == {MemberFact(m[1], m[2]) : m \in {n \in Members : n[1] = at[r]}}
             F == {UidFact(uid[at[r]]), ProjectFact(at[r])} \cup G
  <2>1. uid[at[r]] \in Uid /\ Members \subseteq Project \X Person
    BY DEF Tables, Members
  <2>2. F \in SUBSET Fact
    BY <2>1, FactKinds
  <2>3. \A x \in Person : member[<<at[r], x>>] # 0 => MemberFact(at[r], x) \in F
    BY DEF Members
  <2>4. Frame(F)
    BY <1>3, <2>1, <2>3 DEF DeleteProject, Frame, Named, Tables
  <2>5. Change(F) /\ \A q \in Project : ProjectFact(q) \in F => q \in created'
    <3>1. \A q \in Project : ProjectFact(q) \notin G
      BY <2>1, ProjectFacts
    <3>2. at[r] \in created'
      BY <1>3 DEF DeleteProject, Tables
    <3> QED
      BY <1>3, <2>1, <3>1, <3>2, ProjectFacts DEF DeleteProject
  <2> QED
    BY <2>2, <2>4, <2>5 DEF Noted
<1>4. CASE UpsertUser(r)
  <2> DEFINE x == req[r].person
             F == (IF account[x] = 0 THEN {PersonFact(x)} ELSE {})
                  \cup {EmailFact(email[x]), EmailFact(email'[x])}
  <2>1. /\ email[x] \in Email \cup {NoEmail} /\ email'[x] \in Email \cup {NoEmail}
        /\ \A y \in Person \ {x} : account'[y] = account[y] /\ email'[y] = email[y]
        /\ account'[x] # 0
    BY <1>4 DEF UpsertUser, Tables
  <2>2. F \in SUBSET Fact
    BY <2>1, FactKinds
  <2>3. Frame(F)
    BY <1>4, <2>1 DEF UpsertUser, Frame, Named, Tables, projects
  <2>4. Change(F) /\ \A q \in Project : ProjectFact(q) \in F => q \in created'
    BY <1>4, <2>1, ProjectFacts DEF UpsertUser
  <2> QED
    BY <2>2, <2>3, <2>4 DEF Noted
<1>5. CASE CreateParticipant(r)
  <2> DEFINE F == {MemberFact(at[r], req[r].person)}
  <2>1. F \in SUBSET Fact
    BY FactKinds
  <2>2. Frame(F)
    BY <1>5 DEF CreateParticipant, Frame, Named, Tables, projects
  <2>3. Change(F) /\ \A q \in Project : ProjectFact(q) \in F => q \in created'
    BY <1>5, ProjectFacts DEF CreateParticipant
  <2> QED
    BY <2>1, <2>2, <2>3 DEF Noted
<1>6. CASE DeleteParticipant(r)
  <2>1. CASE UNCHANGED <<projects, people, met>>
    BY <2>1 DEF Noted
  <2>2. CASE \E m \in Members : /\ member' = [member EXCEPT ![m] = 0] /\ Change({MemberFact(m[1], m[2])})
                                /\ UNCHANGED <<projects, left, account, names, email, ids>>
    <3>1. PICK m \in Members : /\ member' = [member EXCEPT ![m] = 0] /\ Change({MemberFact(m[1], m[2])})
                               /\ UNCHANGED <<projects, left, account, names, email, ids>>
      BY <2>2
    <3>2. m \in Project \X Person /\ m = <<m[1], m[2]>>
      BY DEF Members
    <3>3. {MemberFact(m[1], m[2])} \in SUBSET Fact
      BY <3>2, FactKinds
    <3>4. Frame({MemberFact(m[1], m[2])})
      BY <3>1, <3>2 DEF Frame, Named, Tables, projects
    <3>5. \A q \in Project : ProjectFact(q) \in {MemberFact(m[1], m[2])} => q \in created'
      BY <3>2, ProjectFacts
    <3> QED
      BY <3>1, <3>3, <3>4, <3>5 DEF Noted
  <2> QED
    BY <1>6, <2>1, <2>2 DEF DeleteParticipant, Numbered, Looks
<1>7. CASE DeleteUser(r)
  <2> DEFINE x == req[r].person
             G == {MemberFact(m[1], m[2]) : m \in {n \in Members : n[2] = x}}
             F == {PersonFact(x), EmailFact(email[x])} \cup G
  <2>1. email[x] \in Email \cup {NoEmail} /\ Members \subseteq Project \X Person
    BY DEF Tables, Members
  <2>2. F \in SUBSET Fact
    BY <2>1, FactKinds
  <2>3. \A p \in Project : member[<<p, x>>] # 0 => MemberFact(p, x) \in F
    BY DEF Members
  <2>4. Frame(F)
    BY <1>7, <2>1, <2>3 DEF DeleteUser, Frame, Named, Tables, projects
  <2>5. Change(F) /\ \A q \in Project : ProjectFact(q) \in F => q \in created'
    <3>1. \A q \in Project : ProjectFact(q) \notin G
      BY <2>1, ProjectFacts
    <3> QED
      BY <1>7, <2>1, <3>1, ProjectFacts DEF DeleteUser
  <2> QED
    BY <2>2, <2>4, <2>5 DEF Noted
<1>8. CASE DeleteAdmin(r)
  <2> DEFINE F == {AdminFact(req[r].admin)}
  <2>1. req[r].admin \in Admin
    BY <1>8 DEF DeleteAdmin
  <2>2. F \in SUBSET Fact
    BY <2>1, FactKinds
  <2>3. Frame(F)
    BY <1>8 DEF DeleteAdmin, Frame, Named, projects
  <2>4. Change(F) /\ \A q \in Project : ProjectFact(q) \in F => q \in created'
    BY <1>8, <2>1, ProjectFacts DEF DeleteAdmin
  <2> QED
    BY <2>2, <2>3, <2>4 DEF Noted
<1>9. CASE ~Writes(r)
  BY <1>9, StepLooks DEF Noted
<1> QED
  BY <1>1, <1>2, <1>3, <1>4, <1>5, <1>6, <1>7, <1>8, <1>9 DEF Writes

LEMMA StepBegun ==
    ASSUME NEW r \in Request, Step(r)
    PROVE  Begin(r) \/ (pc[r] \in Awaiting /\ held' = held)
<1> USE DEF Awaiting, Goes, Says, Looks
<1>1. CASE Begin(r)
  BY <1>1
<1>2. CASE Fail(r)
  BY <1>2 DEF Fail, Busy
<1>3. CASE CheckUid(r)
  BY <1>3 DEF CheckUid
<1>4. CASE CreateProject(r)
  BY <1>4 DEF CreateProject
<1>5. CASE CreateProjectConflicts(r)
  BY <1>5 DEF CreateProjectConflicts
<1>6. CASE FindProject(r)
  BY <1>6 DEF FindProject
<1>7. CASE FindAgain(r)
  BY <1>7 DEF FindAgain
<1>8. CASE CheckNewUid(r)
  BY <1>8 DEF CheckNewUid
<1>9. CASE UpdateProject(r)
  BY <1>9 DEF UpdateProject
<1>10. CASE UpdateProjectConflicts(r)
  BY <1>10 DEF UpdateProjectConflicts
<1>11. CASE DeleteProject(r)
  BY <1>11 DEF DeleteProject
<1>12. CASE DeleteProjectConflicts(r)
  BY <1>12 DEF DeleteProjectConflicts
<1>13. CASE FindProjects(r)
  BY <1>13 DEF FindProjects
<1>14. CASE CountProjects(r)
  BY <1>14 DEF CountProjects
<1>15. CASE CountProjectsFails(r)
  BY <1>15 DEF CountProjectsFails
<1>16. CASE FindByUid(r)
  BY <1>16 DEF FindByUid
<1>17. CASE FindMember(r)
  BY <1>17 DEF FindMember
<1>18. CASE VerifyOwner(r)
  BY <1>18 DEF VerifyOwner
<1>19. CASE CountParticipants(r)
  BY <1>19 DEF CountParticipants
<1>20. CASE CheckFree(r)
  BY <1>20 DEF CheckFree
<1>21. CASE UpsertUser(r)
  BY <1>21 DEF UpsertUser
<1>22. CASE UpsertConflicts(r)
  BY <1>22 DEF UpsertConflicts
<1>23. CASE CreateParticipant(r)
  BY <1>23 DEF CreateParticipant
<1>24. CASE CreateParticipantConflicts(r)
  BY <1>24 DEF CreateParticipantConflicts
<1>25. CASE DeleteParticipant(r)
  BY <1>25 DEF DeleteParticipant
<1>26. CASE FindUser(r)
  BY <1>26 DEF FindUser
<1>27. CASE DeleteUser(r)
  BY <1>27 DEF DeleteUser
<1>28. CASE DeleteAdmin(r)
  BY <1>28 DEF DeleteAdmin
<1>29. CASE DeleteUserConflicts(r)
  BY <1>29 DEF DeleteUserConflicts
<1> QED
  BY <1>1, <1>2, <1>3, <1>4, <1>5, <1>6, <1>7, <1>8, <1>9, <1>10, <1>11, <1>12, <1>13, <1>14,
     <1>15, <1>16, <1>17, <1>18, <1>19, <1>20, <1>21, <1>22, <1>23, <1>24, <1>25, <1>26, <1>27,
     <1>28, <1>29 DEF Step

\* The history of a request q that is busy after the step is right.
LEMMA StepTrackOne ==
    ASSUME TypeOK, Control, Track, NEW r \in Request, Step(r), Tables',
           NEW q \in Request, Busy(q)'
    PROVE  \A f \in Fact \ met'[q] : f \in Facts' <=> f \in held'[q]
<1>0. Tables /\ Requests
  BY TypeParts
<1>1. CASE q = r /\ Begin(r)
  <2>1. met'[q] = {} /\ UNCHANGED <<projects, people, met>> /\ held'[q] = Facts
    BY <1>0, <1>1 DEF Begin, Goes, Requests, Track
  <2>2. Facts' = Facts
    BY <2>1 DEF Facts, Members, People, projects, people
  <2> QED
    BY <2>1, <2>2
<1>2. CASE ~(q = r /\ Begin(r))
  <2>1. Busy(q) /\ held'[q] = held[q]
    <3>1. CASE q = r
      BY <1>2, <3>1, StepBegun DEF Busy
    <3>2. CASE q # r
      BY <3>2, StepOthers DEF Busy
    <3> QED
      BY <3>1, <3>2
  <2>2. \A f \in Fact \ met[q] : f \in Facts <=> f \in held[q]
    BY <2>1 DEF Track
  <2>3. CASE UNCHANGED <<projects, people, met>>
    <3>1. Facts' = Facts
      BY <2>3 DEF Facts, Members, People, projects, people
    <3> QED
      BY <2>1, <2>2, <2>3, <3>1
  <2>4. CASE \E F \in SUBSET Fact : Change(F) /\ Frame(F)
    <3>1. PICK F \in SUBSET Fact : Change(F) /\ Frame(F)
      BY <2>4
    <3>2. met'[q] = met[q] \cup F
      BY <1>0, <2>1, <3>1 DEF Change
    <3>3. \A f \in Fact : f \in F \/ (f \in Facts' <=> f \in Facts)
      BY <1>0, <3>1, FramedFacts
    <3> QED
      BY <2>1, <2>2, <3>2, <3>3
  <2> QED
    BY <2>3, <2>4, StepNotes DEF Noted
<1> QED
  BY <1>1, <1>2

LEMMA StepHeld ==
    ASSUME TypeOK, Control, Track, NEW r \in Request, Step(r), Tables',
           NEW q \in Request, NEW p \in Project, Held(q, ProjectFact(p))'
    PROVE  p \in created'
<1>0. Tables /\ Requests /\ created \subseteq created'
  <2>1. created \subseteq created'
    BY StepLooks DEF Writes, CreateProject, UpdateProject, DeleteProject, UpsertUser,
       CreateParticipant, DeleteParticipant, DeleteUser, DeleteAdmin, Looks, projects
  <2> QED
    BY <2>1, TypeParts
<1>1. CASE ProjectFact(p) \in held'[q]
  <2>1. CASE Begin(r)
    <3>1. ProjectFact(p) \in held[q] \/ ProjectFact(p) \in Facts
      BY <1>0, <1>1, <2>1 DEF Begin, Requests
    <3>2. ProjectFact(p) \in Facts => p \in live
      BY <1>0, FactsHold DEF FactsRight
    <3> QED
      BY <1>0, <3>1, <3>2 DEF Track, Held, Tables
  <2>2. CASE ~Begin(r)
    BY <1>0, <1>1, <2>2, StepBegun DEF Track, Held
  <2> QED
    BY <2>1, <2>2
<1>2. CASE ProjectFact(p) \in met'[q]
  <2>1. CASE UNCHANGED met
    BY <1>0, <1>2, <2>1 DEF Track, Held
  <2>2. CASE \E F \in SUBSET Fact : Change(F) /\ \A s \in Project : ProjectFact(s) \in F => s \in created'
    BY <1>0, <1>2, <2>2 DEF Change, Track, Held
  <2> QED
    BY <2>1, <2>2, StepNotes DEF Noted
<1> QED
  BY <1>1, <1>2 DEF Held

LEMMA NextTrack ==
    ASSUME TypeOK, Control, Track, NEW r \in Request, Step(r)
    PROVE  Track'
<1>0. Requests /\ Tables'
  BY TypeParts, NextTables
<1>1. ASSUME NEW q \in Request, Busy(q)'
      PROVE  \A f \in Fact \ met'[q] : f \in Facts' <=> f \in held'[q]
  BY <1>0, <1>1, StepTrackOne
<1>2. ASSUME NEW q \in Request, pc'[q] = "idle" PROVE met'[q] = {}
  <2>1. q # r /\ pc[q] = "idle" /\ ~Busy(q)
    BY <1>0, <1>2, StepMoves, Moved DEF Busy, Awaiting
  <2> QED
    BY <1>0, <2>1, StepNotes DEF Track, Noted, Change, Requests
<1>3. \A q \in Request, p \in Project : Held(q, ProjectFact(p))' => p \in created'
  BY <1>0, StepHeld
<1> QED
  BY <1>1, <1>2, <1>3 DEF Track

-----------------------------------------------------------------------------
(* What requests have checked                                              *)

LEMMA Witnessed ==
    ASSUME TypeOK, Track, NEW r \in Request, Busy(r)
    PROVE  \A f \in Fact : /\ f \in Facts => Held(r, f)
                           /\ f \notin Facts => Lacked(r, f)
BY DEF Track, Held, Lacked

\* Rows that are new have new numbers, and a project keeps its owner.
LEMMA StepRows ==
    ASSUME TypeOK, Control, NEW r \in Request, Step(r)
    PROVE  /\ \A m \in Project \X Person : member'[m] \in {0, member[m]} \/ member'[m] = ids + 1
           /\ \A p \in created : owner'[p] = owner[p]
           /\ live' \subseteq created'
<1>0. Tables /\ Requests
  BY TypeParts
<1> USE <1>0 DEF Tables, Requests, projects, people
<1>1. CASE CreateProject(r)
  BY <1>1 DEF CreateProject
<1>2. CASE UpdateProject(r)
  BY <1>2 DEF UpdateProject
<1>3. CASE DeleteProject(r)
  BY <1>3 DEF DeleteProject
<1>4. CASE UpsertUser(r)
  BY <1>4 DEF UpsertUser
<1>5. CASE CreateParticipant(r)
  BY <1>5 DEF CreateParticipant
<1>6. CASE DeleteParticipant(r)
  BY <1>6 DEF DeleteParticipant, Numbered, Members, Looks
<1>7. CASE DeleteUser(r)
  BY <1>7 DEF DeleteUser
<1>8. CASE DeleteAdmin(r)
  BY <1>8 DEF DeleteAdmin
<1>9. CASE ~Writes(r)
  BY <1>9, StepLooks
<1> QED
  BY <1>1, <1>2, <1>3, <1>4, <1>5, <1>6, <1>7, <1>8, <1>9 DEF Writes

\* A fact that a busy request has not met keeps its place in the tables.
LEMMA Unmet ==
    ASSUME TypeOK, Control, NEW r \in Request, Step(r), NEW q \in Request, Busy(q)
    PROVE  /\ met[q] \subseteq met'[q]
           /\ \A u \in Uid : UidFact(u) \in met'[q] \/ Named(u)' = Named(u)
           /\ \A p \in Project : ProjectFact(p) \in met'[q] \/ (p \in live' <=> p \in live)
           /\ \A x \in Person : PersonFact(x) \in met'[q] \/ account'[x] = account[x]
           /\ \A p \in Project, x \in Person : MemberFact(p, x) \in met'[q] \/
                 member'[<<p, x>>] = member[<<p, x>>]
<1>0. Tables /\ Requests
  BY TypeParts
<1>1. CASE UNCHANGED <<projects, people, met>>
  BY <1>1 DEF Named, projects, people
<1>2. CASE \E F \in SUBSET Fact : Change(F) /\ Frame(F)
  BY <1>0, <1>2 DEF Change, Frame, Requests
<1> QED
  BY <1>1, <1>2, StepNotes DEF Noted

LEMMA NextKnowsOther ==
    ASSUME TypeOK, Control, Numbers, Track, Knows, NEW r \in Request, Step(r),
           NEW q \in Request \ {r}
    PROVE  KnowsOf(q)'
<1> DEFINE x == req[q].person
           p == req[q].project
           u == req[q].uid
<1>0. /\ Tables /\ Requests /\ req' = req /\ Op(q)' = Op(q)
      /\ x \in Person /\ p \in Project /\ u \in Uid /\ at[q] \in Project
      /\ pc'[q] = pc[q] /\ at'[q] = at[q] /\ row'[q] = row[q] /\ held'[q] = held[q]
      /\ Busy(q)' = Busy(q)
  BY TypeParts, SameRequests, StepOthers, RequestTypes DEF Op, Busy, Requests
<1>1. KnowsOf(q)
  BY DEF Knows
<1>2. CASE ~Busy(q)
  <2>1. pc[q] \in {"idle", "done"}
    BY <1>0, <1>2 DEF Requests, Busy
  <2> QED
    BY <1>0, <1>1, <1>2, <2>1 DEF KnowsOf
<1>3. CASE Busy(q)
  <2>1. \A n \in Project \X Person : member'[n] = row[q] /\ row[q] # 0 => member[n] = row[q]
    BY <1>0, StepRows DEF Numbers, Tables, Requests
  <2>2. Numbered(row[q])' \subseteq Numbered(row[q])
    BY <1>0, <2>1 DEF Numbered, Members, Requests
  <2>3. Held(q, ProjectFact(at[q])) => owner'[at[q]] = owner[at[q]]
    BY <1>0, StepRows DEF Track
  <2>4. /\ Held(q, UidFact(u)) => Held(q, UidFact(u))'
        /\ Held(q, ProjectFact(at[q])) => Held(q, ProjectFact(at[q]))'
    BY <1>0, <1>3, Unmet DEF Held
  <2>5. /\ UidFact(u) \in met'[q] \/ (Named(u)' = Named(u) /\ UidFact(u) \notin met[q])
        /\ ProjectFact(p) \in met'[q] \/ ((p \in live' <=> p \in live) /\ ProjectFact(p) \notin met[q])
        /\ ProjectFact(at[q]) \in met'[q] \/
              ((at[q] \in live' <=> at[q] \in live) /\ ProjectFact(at[q]) \notin met[q])
        /\ PersonFact(x) \in met'[q] \/ (account'[x] = account[x] /\ PersonFact(x) \notin met[q])
        /\ MemberFact(p, x) \in met'[q] \/
              (member'[<<p, x>>] = member[<<p, x>>] /\ MemberFact(p, x) \notin met[q])
        /\ MemberFact(at[q], x) \in met'[q] \/
              (member'[<<at[q], x>>] = member[<<at[q], x>>] /\ MemberFact(at[q], x) \notin met[q])
    BY <1>0, <1>3, Unmet
  <2>6. /\ Op(q) \in ProjectOps \cup MemberOps \cup {"countParticipants"} => at[q] = p
        /\ Op(q) \in ProjectOps /\ pc[q] \in {"again", "check", "write"} /\ ProjectFact(p) \notin met'[q] =>
              p \in live'
        /\ Op(q) = "updateProject" /\ pc[q] = "write" /\ UidFact(u) \notin met'[q] =>
              Named(u)' \subseteq {p}
    BY <1>1, <2>5 DEF KnowsOf
  <2>7. /\ Op(q) = "createParticipant" /\ pc[q] \in {"owner", "free", "upsert", "join"} =>
              /\ Held(q, UidFact(u))' /\ Held(q, ProjectFact(at[q]))'
              /\ ProjectFact(at[q]) \notin met'[q] => at[q] \in live'
        /\ pc[q] \in {"free", "upsert", "join"} => req[q].admin \in {Nobody, owner'[at[q]]}
    <3>1. pc[q] \in {"free", "upsert", "join"} => Op(q) = "createParticipant"
      BY DEF Control, ControlOf
    <3> QED
      BY <1>1, <2>3, <2>4, <2>5, <3>1 DEF KnowsOf
  <2>8. /\ pc[q] \in {"upsert", "join"} /\ MemberFact(at[q], x) \notin met'[q] => member'[<<at[q], x>>] = 0
        /\ pc[q] = "join" /\ PersonFact(x) \notin met'[q] => account'[x] = row[q]
        /\ Op(q) \in MemberOps /\ Busy(q) =>
              /\ MemberFact(p, x) \notin met'[q] => member'[<<p, x>>] = row[q]
              /\ \A m \in Numbered(row[q])' : m = <<p, x>>
        /\ Op(q) = "deleteUser" /\ Busy(q) /\ PersonFact(x) \notin met'[q] => account'[x] = row[q]
    BY <1>1, <2>2, <2>5 DEF KnowsOf
  <2> QED
    BY <1>0, <2>6, <2>7, <2>8 DEF KnowsOf, Numbered, Members
<1> QED
  BY <1>2, <1>3

LEMMA KnowsDone ==
    ASSUME TypeOK, Control, Knows, NEW r \in Request, Step(r), pc'[r] = "done",
           at'[r] = at[r] \/ Op(r) \in Creating
    PROVE  KnowsOf(r)'
<1>1. req' = req /\ Op(r)' = Op(r) /\ ~Busy(r)'
  BY SameRequests DEF Op, Busy, Awaiting
<1>2. Op(r) \in ProjectOps \cup MemberOps \cup {"countParticipants"} => at'[r] = req[r].project
  BY DEF Knows, KnowsOf, Creating, ProjectOps, MemberOps
<1> QED
  BY <1>1, <1>2 DEF KnowsOf

LEMMA NextKnowsOwn ==
    ASSUME TypeOK, Control, Numbers, Track, Knows, NEW r \in Request, Step(r)
    PROVE  KnowsOf(r)'
<1> DEFINE x == req[r].person
           p == req[r].project
           u == req[r].uid
<1>0. /\ Tables /\ Requests /\ req' = req /\ Op(r)' = Op(r) /\ Op(r) \in Operation
      /\ x \in Person /\ p \in Project /\ u \in Uid /\ at[r] \in Project
      /\ KnowsOf(r) /\ ControlOf(r)
  BY TypeParts, SameRequests, RequestTypes DEF Op, Requests, Knows, Control
<1>w. Busy(r) => \A f \in Fact : /\ f \in Facts => Held(r, f)
                                 /\ f \notin Facts => Lacked(r, f)
  BY Witnessed
<1>f. FactsRight
  BY <1>0, FactsHold
<1>1. CASE Begin(r)
  <2>1. /\ UNCHANGED <<projects, people, req, at>> /\ pc[r] = "idle" /\ Busy(r)'
        /\ pc'[r] \notin {"again", "write", "free", "upsert", "join"}
        /\ pc'[r] = "check" => Op(r) \in {"createProject", "available"}
        /\ Op(r) = "createParticipant" => pc'[r] = "project"
        /\ Op(r) \in MemberOps => row'[r] = member[<<p, x>>]
        /\ Op(r) = "deleteUser" => row'[r] = account[x]
    BY <1>0, <1>1 DEF Begin, Goes, Requests, Busy, Awaiting, MemberOps, Operation, Creating
  <2>2. \A m \in Members : member[m] = member[<<p, x>>] => m = <<p, x>>
    BY <1>0 DEF Numbers, Members
  <2> QED
    BY <1>0, <2>1, <2>2 DEF KnowsOf, Numbered, Members, projects, people, ProjectOps, MemberOps
<1>2. CASE Fail(r)
  BY <1>0, <1>2, KnowsDone DEF Fail, Requests, Says, local, Looks
<1>3. CASE CheckUid(r)
  <2>1. CASE pc'[r] = "done"
    BY <1>0, <1>3, <2>1, KnowsDone DEF CheckUid, local
  <2> QED
    BY <1>0, <1>3, <2>1 DEF CheckUid, KnowsOf, Requests, Goes, Says, Looks, projects, people,
       local, ProjectOps, MemberOps
<1>4. CASE CreateProject(r)
  BY <1>0, <1>4, KnowsDone DEF CreateProject, Requests, Says, Creating
<1>5. CASE CreateProjectConflicts(r)
  BY <1>0, <1>5, KnowsDone DEF CreateProjectConflicts, Requests, Says, local, Looks
<1>6. CASE FindProject(r)
  <2>1. CASE pc'[r] = "done"
    BY <1>0, <1>6, <2>1, KnowsDone DEF FindProject, local
  <2> QED
    BY <1>0, <1>6, <2>1 DEF FindProject, KnowsOf, Requests, Goes, Says, Looks, projects, people,
       local, ProjectOps, MemberOps
<1>7. CASE FindAgain(r)
  <2>1. CASE pc'[r] = "done"
    BY <1>0, <1>7, <2>1, KnowsDone DEF FindAgain, local
  <2>2. pc[r] = "again" /\ at[r] = p /\ Op(r) \in {"updateProject", "deleteProject"}
    BY <1>0, <1>7 DEF FindAgain, Goes, Says, ControlOf, KnowsOf, ProjectOps
  <2>3. p \in live /\ uid[p] = u => Named(u) \subseteq {p}
    BY <1>0 DEF Named, Tables
  <2> QED
    BY <1>0, <1>7, <2>1, <2>2, <2>3 DEF FindAgain, Named, KnowsOf, Requests, Goes, Says, Looks,
       projects, people, local, ProjectOps, MemberOps
<1>8. CASE CheckNewUid(r)
  <2>1. CASE pc'[r] = "done"
    BY <1>0, <1>8, <2>1, KnowsDone DEF CheckNewUid, local
  <2> QED
    BY <1>0, <1>8, <2>1 DEF CheckNewUid, Named, KnowsOf, Requests, Goes, Says, Looks, projects,
       people, local, ProjectOps, MemberOps
<1>9. CASE UpdateProject(r)
  BY <1>0, <1>9, KnowsDone DEF UpdateProject, Requests, Says, local, Looks
<1>10. CASE UpdateProjectConflicts(r)
  BY <1>0, <1>10, KnowsDone DEF UpdateProjectConflicts, Requests, Says, local, Looks
<1>11. CASE DeleteProject(r)
  BY <1>0, <1>11, KnowsDone DEF DeleteProject, Requests, Says, local, Looks
<1>12. CASE DeleteProjectConflicts(r)
  BY <1>0, <1>12, KnowsDone DEF DeleteProjectConflicts, Requests, Says, local, Looks
<1>13. CASE FindProjects(r)
  BY <1>0, <1>13 DEF FindProjects, ControlOf, KnowsOf, Requests, Goes, Says, Looks, ProjectOps,
     MemberOps
<1>14. CASE CountProjects(r)
  BY <1>0, <1>14 DEF CountProjects, ControlOf, KnowsOf, Requests, Goes, Says, Looks, ProjectOps,
     MemberOps
<1>15. CASE CountProjectsFails(r)
  BY <1>0, <1>15 DEF CountProjectsFails, KnowsOf, Requests, Goes, Says, projects, people,
     ProjectOps, MemberOps
<1>16. CASE FindByUid(r)
  <2>1. Op(r) = "createParticipant" /\ Busy(r) /\ pc[r] = "project"
    BY <1>0, <1>16 DEF FindByUid, Goes, Says, ControlOf, Busy, Awaiting
  <2>2. CASE pc'[r] = "done"
    BY <2>1, <2>2, KnowsDone DEF Creating
  <2>3. CASE pc'[r] # "done"
    <3>1. at'[r] \in Named(u) /\ pc'[r] \in {"free", "owner"} /\ (pc'[r] = "free" => req[r].admin = Nobody)
      BY <1>0, <1>16, <2>3 DEF FindByUid, Goes, Says, Requests, Named
    <3>2. at'[r] \in live /\ Named(u) # {} /\ at'[r] \in Project
      BY <1>0, <3>1 DEF Named, Tables
    <3>3. Held(r, UidFact(u)) /\ Held(r, ProjectFact(at'[r]))
      BY <1>0, <1>w, <1>f, <2>1, <3>2, FactKinds DEF FactsRight
    <3>4. UNCHANGED <<live, held, met>>
      BY <1>16 DEF FindByUid, Looks, projects
    <3> QED
      BY <1>0, <2>1, <3>1, <3>2, <3>3, <3>4 DEF KnowsOf, Held, ProjectOps, MemberOps
  <2> QED
    BY <2>2, <2>3
<1>17. CASE FindMember(r)
  <2>1. Op(r) \in MemberOps /\ Busy(r)
    BY <1>0, <1>17 DEF FindMember, Goes, Says, Busy, Awaiting
  <2>2. at'[r] = p /\ pc'[r] \in {"done", "owner"}
    BY <1>0, <1>17, <2>1 DEF FindMember, Goes, Says, Requests, KnowsOf
  <2>3. UNCHANGED <<projects, people, met, row>>
    BY <1>17 DEF FindMember, Looks
  <2> QED
    BY <1>0, <2>1, <2>2, <2>3 DEF KnowsOf, Numbered, Members, projects, people, ProjectOps,
       MemberOps
<1>18. CASE VerifyOwner(r)
  <2>1. CASE pc'[r] = "done"
    BY <1>0, <1>18, <2>1, KnowsDone DEF VerifyOwner, local
  <2>2. CASE pc'[r] # "done"
    <3>1. /\ at[r] \in live /\ owner[at[r]] = req[r].admin /\ Busy(r) /\ pc[r] = "owner"
          /\ UNCHANGED <<projects, people, met, held, row, at>>
          /\ \/ Op(r) = "createParticipant" /\ pc'[r] = "free"
             \/ Op(r) = "deleteParticipant" /\ pc'[r] = "remove"
             \/ Op(r) = "countParticipants" /\ pc'[r] = "tally"
      BY <1>0, <1>18, <2>2 DEF VerifyOwner, Goes, Says, Requests, Looks, local, Busy, Awaiting
    <3> QED
      BY <1>0, <3>1 DEF KnowsOf, Held, Numbered, Members, projects, people, ProjectOps, MemberOps
  <2> QED
    BY <2>1, <2>2
<1>19. CASE CountParticipants(r)
  BY <1>0, <1>19, KnowsDone DEF CountParticipants, Requests, Says, local, Looks
<1>20. CASE CheckFree(r)
  <2>0. Op(r) = "createParticipant"
    BY <1>0, <1>20 DEF CheckFree, Goes, Says, ControlOf
  <2>1. CASE pc'[r] = "done"
    BY <2>0, <2>1, KnowsDone DEF Creating
  <2>2. CASE pc'[r] # "done"
    <3>1. /\ member[<<at[r], x>>] = 0 /\ pc[r] = "free" /\ pc'[r] = "upsert"
          /\ UNCHANGED <<projects, people, met, held, row, at>>
      BY <1>0, <1>20, <2>2 DEF CheckFree, Goes, Says, Requests, Looks, local
    <3> QED
      BY <1>0, <2>0, <3>1 DEF KnowsOf, Held, projects, people, ProjectOps, MemberOps
  <2> QED
    BY <2>1, <2>2
<1>21. CASE UpsertUser(r)
  <2>1. /\ Op(r) = "createParticipant" /\ Busy(r) /\ pc[r] = "upsert" /\ pc'[r] = "join"
        /\ UNCHANGED <<projects, member, at, held>> /\ row'[r] = account'[x]
    BY <1>0, <1>21 DEF UpsertUser, Goes, Requests, ControlOf, Busy, Awaiting
  <2>2. met[r] \subseteq met'[r]
    BY <2>1, Unmet
  <2> QED
    BY <1>0, <2>1, <2>2 DEF KnowsOf, Held, projects, ProjectOps, MemberOps
<1>22. CASE UpsertConflicts(r)
  BY <1>0, <1>22, KnowsDone DEF UpsertConflicts, Requests, Says, local, Looks
<1>23. CASE CreateParticipant(r)
  BY <1>0, <1>23, KnowsDone DEF CreateParticipant, Requests, Says, local, Looks
<1>24. CASE CreateParticipantConflicts(r)
  BY <1>0, <1>24, KnowsDone DEF CreateParticipantConflicts, Requests, Says, local, Looks
<1>25. CASE DeleteParticipant(r)
  BY <1>0, <1>25, KnowsDone DEF DeleteParticipant, Requests, Says, local, Looks
<1>26. CASE FindUser(r)
  <2>1. CASE pc'[r] = "done"
    BY <1>0, <1>26, <2>1, KnowsDone DEF FindUser, local
  <2>2. CASE pc'[r] # "done"
    <3>1. /\ pc[r] = "find" /\ pc'[r] = "erase" /\ Op(r) \in {"deleteUser", "deleteAdmin"}
          /\ UNCHANGED <<projects, people, met, held, row, at>> /\ Busy(r)
      BY <1>0, <1>26, <2>2 DEF FindUser, Goes, Says, Requests, Looks, local, Busy, Awaiting
    <3> QED
      BY <1>0, <3>1 DEF KnowsOf, projects, people, ProjectOps, MemberOps
  <2> QED
    BY <2>1, <2>2
<1>27. CASE DeleteUser(r)
  BY <1>0, <1>27, KnowsDone DEF DeleteUser, Requests, Says, local, Looks
<1>28. CASE DeleteAdmin(r)
  BY <1>0, <1>28, KnowsDone DEF DeleteAdmin, Requests, Says, local, Looks
<1>29. CASE DeleteUserConflicts(r)
  BY <1>0, <1>29, KnowsDone DEF DeleteUserConflicts, Requests, Says, local, Looks
<1> QED
  BY <1>1, <1>2, <1>3, <1>4, <1>5, <1>6, <1>7, <1>8, <1>9, <1>10, <1>11, <1>12, <1>13, <1>14,
     <1>15, <1>16, <1>17, <1>18, <1>19, <1>20, <1>21, <1>22, <1>23, <1>24, <1>25, <1>26, <1>27,
     <1>28, <1>29 DEF Step

LEMMA NextKnows ==
    ASSUME TypeOK, Control, Numbers, Track, Knows, NEW r \in Request, Step(r)
    PROVE  Knows'
BY NextKnowsOther, NextKnowsOwn DEF Knows

\* The history of a request that is answered does not change.
LEMMA Frozen ==
    ASSUME TypeOK, Control, NEW r \in Request, Step(r), NEW q \in Request, pc[q] = "done"
    PROVE  /\ q # r /\ req' = req /\ pc'[q] = pc[q] /\ answer'[q] = answer[q]
           /\ at'[q] = at[q] /\ row'[q] = row[q] /\ list'[q] = list[q] /\ total'[q] = total[q]
           /\ held'[q] = held[q] /\ met'[q] = met[q] /\ (q \in broken' <=> q \in broken)
<1>1. Requests /\ ~Busy(q)
  BY TypeParts DEF Busy, Awaiting
<1>2. q # r
  BY <1>1, StepMoves, Moved DEF Busy, Awaiting
<1>3. met'[q] = met[q]
  BY <1>1, StepNotes DEF Noted, Change, Requests
<1> QED
  BY <1>2, <1>3, StepOthers, SameRequests

-----------------------------------------------------------------------------
(* Whose names the users have                                              *)

LEMMA StepNames ==
    ASSUME TypeOK, NEW r \in Request, Step(r), ~UpsertUser(r), NEW y \in Person
    PROVE  names'[y] = Nobody \/ (names'[y] = names[y] /\ account'[y] = account[y])
<1>0. Tables
  BY TypeParts
<1> USE <1>0 DEF Tables, projects, people
<1>1. CASE CreateProject(r)
  BY <1>1 DEF CreateProject
<1>2. CASE UpdateProject(r)
  BY <1>2 DEF UpdateProject
<1>3. CASE DeleteProject(r)
  BY <1>3 DEF DeleteProject
<1>4. CASE CreateParticipant(r)
  BY <1>4 DEF CreateParticipant
<1>5. CASE DeleteParticipant(r)
  BY <1>5 DEF DeleteParticipant, Looks
<1>6. CASE DeleteUser(r)
  BY <1>6 DEF DeleteUser
<1>7. CASE DeleteAdmin(r)
  BY <1>7 DEF DeleteAdmin
<1>8. CASE ~Writes(r)
  BY <1>8, StepLooks
<1> QED
  BY <1>1, <1>2, <1>3, <1>4, <1>5, <1>6, <1>7, <1>8 DEF Writes

NamedBy(r, x) ==
    /\ Op(r) = "createParticipant" /\ x = req[r].person
    /\ pc[r] \in {"join", "done"}
    /\ pc[r] = "join" => account[x] = row[r]
    /\ pc[r] = "done" =>
          \/ answer[r] = "ok"
          \/ /\ answer[r] = "internal"
             /\ r \in broken \/ {ProjectFact(at[r]), MemberFact(at[r], x)} \cap met[r] # {}

LEMMA NamesNamed == Names <=> \A x \in Person : names[x] \in Request => NamedBy(names[x], x)
BY DEF Names, NamedBy

\* The request whose names a user has takes a step.
LEMMA NamedSteps ==
    ASSUME TypeOK, Control, Knows, NEW r \in Request, Step(r), NEW y \in Person, NamedBy(r, y)
    PROVE  NamedBy(r, y)'
<1>0. /\ Requests /\ req' = req /\ Op(r)' = Op(r) /\ at[r] \in Project
      /\ Op(r) = "createParticipant" /\ y = req[r].person /\ pc[r] \in Awaiting \cup {"idle"}
  BY TypeParts, SameRequests, StepMoves, Moved DEF Op, Requests, NamedBy
<1>1. pc[r] = "join" /\ account[y] = row[r] /\ KnowsOf(r)
  BY <1>0 DEF NamedBy, Awaiting, Knows
<1>2. Fail(r) \/ CreateParticipant(r) \/ CreateParticipantConflicts(r)
  BY <1>0, <1>1 DEF Step, Begin, CheckUid, CreateProject, CreateProjectConflicts, FindProject,
     FindAgain, CheckNewUid, UpdateProject, UpdateProjectConflicts, DeleteProject,
     DeleteProjectConflicts, FindProjects, CountProjects, CountProjectsFails, FindByUid,
     FindMember, VerifyOwner, CountParticipants, CheckFree, UpsertUser, UpsertConflicts,
     DeleteParticipant, FindUser, DeleteUser, DeleteAdmin, DeleteUserConflicts, Goes, Says
<1>3. CASE Fail(r)
  BY <1>0, <1>1, <1>3 DEF Fail, Says, Excuse, NamedBy, Requests, ProjectOps
<1>4. CASE CreateParticipant(r)
  BY <1>0, <1>4 DEF CreateParticipant, Says, NamedBy, Requests
<1>5. CASE CreateParticipantConflicts(r)
  <2>1. {ProjectFact(at[r]), MemberFact(at[r], y)} \cap met[r] # {}
    BY <1>0, <1>1, <1>5 DEF CreateParticipantConflicts, Joinable, KnowsOf
  <2> QED
    BY <1>0, <1>5, <2>1 DEF CreateParticipantConflicts, Says, NamedBy, Requests, Looks, local
<1> QED
  BY <1>2, <1>3, <1>4, <1>5

LEMMA NextNames ==
    ASSUME TypeOK, Control, Knows, Names, NEW r \in Request, Step(r)
    PROVE  Names'
<1>0. Requests /\ Tables /\ req' = req
  BY TypeParts, SameRequests
<1> SUFFICES ASSUME NEW y \in Person, NEW q \in Request, names'[y] = q PROVE NamedBy(q, y)'
  BY DEF Names, NamedBy, Op
<1>1. CASE UpsertUser(r) /\ y = req[r].person
  <2>1. q = r /\ pc'[r] = "join" /\ row'[r] = account'[y] /\ Op(r) = "createParticipant"
    BY <1>0, <1>1 DEF UpsertUser, Goes, Control, ControlOf, Requests, Tables
  <2> QED
    BY <1>0, <1>1, <2>1 DEF NamedBy, Op
<1>2. CASE ~(UpsertUser(r) /\ y = req[r].person)
  <2>1. names[y] = q /\ account'[y] = account[y]
    <3>1. CASE UpsertUser(r)
      BY <1>0, <1>2, <3>1 DEF UpsertUser, Tables
    <3>2. CASE ~UpsertUser(r)
      BY <3>2, StepNames, EnrollmentAssumption
    <3> QED
      BY <3>1, <3>2
  <2>2. NamedBy(q, y)
    BY <2>1, NamesNamed
  <2>3. CASE q = r
    BY <2>2, <2>3, NamedSteps
  <2>4. CASE q # r /\ pc[q] = "join"
    BY <1>0, <2>1, <2>2, <2>4, StepOthers DEF NamedBy, Op
  <2>5. CASE pc[q] = "done"
    BY <1>0, <2>1, <2>2, <2>5, Frozen DEF NamedBy, Op
  <2> QED
    BY <2>2, <2>3, <2>4, <2>5 DEF NamedBy
<1> QED
  BY <1>1, <1>2

-----------------------------------------------------------------------------
(* Lists of projects and their totals                                      *)

LEMMA StirredStays ==
    ASSUME TypeOK, Control, Track, NEW r \in Request, Step(r), NEW q \in Request, Stirred(q)
    PROVE  Stirred(q)'
<1>0. Requests /\ Tables /\ req' = req
  BY TypeParts, SameRequests
<1>1. PICK p \in Project : owner[p] = req[q].admin /\ ProjectFact(p) \in met[q]
  BY DEF Stirred
<1>2. owner'[p] = owner[p]
  BY <1>1, StepRows DEF Track, Held
<1>3. met[q] \subseteq met'[q]
  BY <1>0, StepNotes DEF Noted, Change, Requests
<1> QED
  BY <1>0, <1>1, <1>2, <1>3 DEF Stirred

\* A busy request notes any change of the projects of its user.
LEMMA OwnedStirs ==
    ASSUME TypeOK, Control, Track, NEW r \in Request, Step(r), NEW q \in Request, Busy(q)
    PROVE  Owned(req[q].admin)' = Owned(req[q].admin) \/ Stirred(q)'
<1>0. Requests /\ Tables /\ Tables' /\ req' = req
  BY TypeParts, SameRequests, NextTables
<1>1. \A p \in live : owner'[p] = owner[p]
  BY <1>0, StepRows DEF Tables
<1>2. ASSUME NEW p \in Project, owner'[p] = req[q].admin, (p \in live') # (p \in live)
      PROVE  Stirred(q)'
  BY <1>0, <1>2, Unmet DEF Stirred
<1>3. ASSUME NEW p, p \in Owned(req[q].admin)', p \notin Owned(req[q].admin)
      PROVE  Stirred(q)'
  <2>1. p \in Project /\ owner'[p] = req[q].admin /\ p \in live' /\ p \notin live
    BY <1>0, <1>1, <1>3 DEF Owned, Tables
  <2> QED
    BY <1>2, <2>1
<1>4. ASSUME NEW p, p \notin Owned(req[q].admin)', p \in Owned(req[q].admin)
      PROVE  Stirred(q)'
  <2>1. p \in Project /\ owner'[p] = req[q].admin /\ p \notin live' /\ p \in live
    BY <1>0, <1>1, <1>4 DEF Owned, Tables
  <2> QED
    BY <1>2, <2>1
<1> QED
  BY <1>3, <1>4

ListsOf(r) ==
    /\ pc[r] = "count" => list[r] = Owned(req[r].admin) \/ Stirred(r)
    /\ pc[r] = "rows" /\ r \notin broken =>
          total[r] = Cardinality(Owned(req[r].admin)) \/ Stirred(r)
    /\ pc[r] = "done" /\ Op(r) = "listProjects" /\ answer[r] = "ok" /\ r \notin broken =>
          total[r] = Cardinality(list[r]) \/ Stirred(r)

LEMMA ListsParts == Lists <=> \A r \in Request : ListsOf(r)
BY DEF Lists, ListsOf

LEMMA NextListsOwn ==
    ASSUME TypeOK, Control, Track, Lists, NEW r \in Request, Step(r)
    PROVE  ListsOf(r)'
<1>0. Requests /\ req' = req /\ Op(r)' = Op(r) /\ ControlOf(r) /\ ListsOf(r) /\ ControlOf(r)'
  BY TypeParts, SameRequests, ListsParts, NextControlOf DEF Op, Control
<1>s. Stirred(r) => Stirred(r)'
  BY StirredStays
<1>1. CASE Op(r) # "listProjects"
  BY <1>0, <1>1 DEF ListsOf, ControlOf
<1>2. CASE Op(r) = "listProjects"
  <2>1. Begin(r) \/ Fail(r) \/ FindProjects(r) \/ CountProjects(r) \/ CountProjectsFails(r)
    BY <1>0, <1>2 DEF Step, ControlOf, CheckUid, CreateProject, CreateProjectConflicts, FindProject,
       FindAgain, CheckNewUid, UpdateProject, UpdateProjectConflicts, DeleteProject,
       DeleteProjectConflicts, FindByUid, FindMember, VerifyOwner, CountParticipants, CheckFree,
       UpsertUser, UpsertConflicts, CreateParticipant, CreateParticipantConflicts,
       DeleteParticipant, FindUser, DeleteUser, DeleteAdmin, DeleteUserConflicts, Goes, Says,
       ProjectOps, MemberOps
  <2>2. CASE Begin(r)
    BY <1>0, <1>2, <2>2 DEF Begin, Goes, Requests, ListsOf
  <2>3. CASE Fail(r)
    BY <1>0, <1>2, <2>3 DEF Fail, Says, Excuse, Requests, ListsOf, ProjectOps
  <2>4. CASE FindProjects(r)
    <3>1. list'[r] = Owned(req[r].admin) /\ UNCHANGED <<projects, broken, total>>
      BY <1>0, <2>4 DEF FindProjects, Requests, Looks
    <3>2. Owned(req[r].admin)' = Owned(req[r].admin)
      BY <1>0, <3>1 DEF Owned, projects
    <3> QED
      BY <1>0, <1>s, <2>4, <3>1, <3>2 DEF FindProjects, Goes, Says, Requests, ListsOf
  <2>5. CASE CountProjects(r)
    <3>1. total'[r] = Cardinality(Owned(req[r].admin)) /\ UNCHANGED <<projects, broken, list>>
      BY <1>0, <2>5 DEF CountProjects, Requests, Looks
    <3>2. Owned(req[r].admin)' = Owned(req[r].admin)
      BY <1>0, <3>1 DEF Owned, projects
    <3> QED
      BY <1>0, <1>s, <2>5, <3>1, <3>2 DEF CountProjects, Goes, Says, Requests, ListsOf
  <2>6. CASE CountProjectsFails(r)
    BY <1>0, <2>6 DEF CountProjectsFails, Goes, Says, Requests, ListsOf
  <2> QED
    BY <2>1, <2>2, <2>3, <2>4, <2>5, <2>6
<1> QED
  BY <1>1, <1>2

LEMMA NextLists ==
    ASSUME TypeOK, Control, Track, Lists, NEW r \in Request, Step(r)
    PROVE  Lists'
<1>0. Requests /\ req' = req
  BY TypeParts, SameRequests
<1>1. ASSUME NEW q \in Request \ {r} PROVE ListsOf(q)'
  <2>1. /\ pc'[q] = pc[q] /\ answer'[q] = answer[q] /\ list'[q] = list[q] /\ total'[q] = total[q]
        /\ (q \in broken' <=> q \in broken) /\ Op(q)' = Op(q) /\ ListsOf(q)
    BY <1>0, StepOthers, ListsParts DEF Op
  <2>2. Stirred(q) => Stirred(q)'
    BY StirredStays
  <2>3. pc[q] \in {"count", "rows"} => Owned(req[q].admin)' = Owned(req[q].admin) \/ Stirred(q)'
    BY OwnedStirs DEF Busy, Awaiting
  <2> QED
    BY <1>0, <2>1, <2>2, <2>3 DEF ListsOf
<1>2. ListsOf(r)'
  BY NextListsOwn
<1> QED
  BY <1>1, <1>2 DEF Lists, ListsOf, Op

-----------------------------------------------------------------------------
(* Answers and their reasons                                               *)

ReasonOf(r) ==
    r \notin broken /\ pc[r] = "done" =>
        /\ Justified(r)
        /\ answer[r] = "forbidden" => at[r] \in created \/ Lacked(r, ProjectFact(at[r]))

LEMMA ReasonParts == Reasons <=> \A r \in Request : ReasonOf(r)
BY DEF Reasons, ReasonOf

LEMMA CreatedStays ==
    ASSUME NEW r \in Request, Step(r)
    PROVE  created \subseteq created'
BY StepLooks DEF Writes, CreateProject, UpdateProject, DeleteProject, UpsertUser,
   CreateParticipant, DeleteParticipant, DeleteUser, DeleteAdmin, Looks, projects

\* The reason of an answer given earlier stays.
LEMMA ReasonsStay ==
    ASSUME TypeOK, Control, Track, NEW r \in Request, Step(r), NEW q \in Request, pc[q] = "done",
           ReasonOf(q)
    PROVE  ReasonOf(q)'
<1>1. /\ req' = req /\ pc'[q] = pc[q] /\ answer'[q] = answer[q] /\ at'[q] = at[q]
      /\ held'[q] = held[q] /\ met'[q] = met[q] /\ (q \in broken' <=> q \in broken) /\ Op(q)' = Op(q)
  BY Frozen DEF Op
<1>2. \A p \in created : p \in created' /\ owner'[p] = owner[p]
  BY StepRows, CreatedStays
<1>3. \A p \in Project : Held(q, ProjectFact(p)) => owner'[p] = owner[p]
  BY <1>2 DEF Track
<1>4. \A f : (Held(q, f)' <=> Held(q, f)) /\ (Lacked(q, f)' <=> Lacked(q, f))
  BY <1>1 DEF Held, Lacked
<1> SUFFICES ASSUME q \notin broken, Justified(q),
                    answer[q] = "forbidden" => at[q] \in created \/ Lacked(q, ProjectFact(at[q]))
             PROVE  /\ Justified(q)'
                    /\ answer[q] = "forbidden" => at[q] \in created' \/ Lacked(q, ProjectFact(at[q]))'
  BY <1>1 DEF ReasonOf
<1>5. at[q] \in Project
  BY TypeParts DEF Requests
<1>6. Conflict(q) => Conflict(q)'
  BY <1>1, <1>2, <1>3, <1>4 DEF Conflict
<1> QED
  BY <1>1, <1>2, <1>3, <1>4, <1>5, <1>6 DEF Justified

\* What a busy request finds in the tables is in its history.
LEMMA Shown ==
    ASSUME TypeOK, Track, NEW r \in Request, Busy(r)
    PROVE  /\ \A u \in Uid : /\ Named(u) # {} => Held(r, UidFact(u))
                             /\ Named(u) = {} => Lacked(r, UidFact(u))
           /\ \A p \in Project : /\ p \in live => Held(r, ProjectFact(p))
                                 /\ p \notin live => Lacked(r, ProjectFact(p))
           /\ \A a \in Admin : a \in left => Lacked(r, AdminFact(a))
           /\ \A x \in Person : account[x] = 0 => Lacked(r, PersonFact(x))
           /\ \A e \in Email \cup {NoEmail} :
                 (\E y \in Person : account[y] # 0 /\ email[y] = e) => Held(r, EmailFact(e))
           /\ \A p \in Project, x \in Person :
                 /\ member[<<p, x>>] # 0 => Held(r, MemberFact(p, x))
                 /\ member[<<p, x>>] = 0 => Lacked(r, MemberFact(p, x))
<1>w. \A f \in Fact : /\ f \in Facts => Held(r, f)
                      /\ f \notin Facts => Lacked(r, f)
  BY Witnessed
<1>f. FactsRight
  BY TypeParts, FactsHold
<1>1. ASSUME NEW u \in Uid
      PROVE  /\ Named(u) # {} => Held(r, UidFact(u))
             /\ Named(u) = {} => Lacked(r, UidFact(u))
  BY <1>w, <1>f, FactKinds DEF FactsRight
<1>2. ASSUME NEW p \in Project
      PROVE  /\ p \in live => Held(r, ProjectFact(p))
             /\ p \notin live => Lacked(r, ProjectFact(p))
  BY <1>w, <1>f, FactKinds DEF FactsRight
<1>3. ASSUME NEW a \in Admin PROVE a \in left => Lacked(r, AdminFact(a))
  BY <1>w, <1>f, FactKinds DEF FactsRight
<1>4. ASSUME NEW x \in Person PROVE account[x] = 0 => Lacked(r, PersonFact(x))
  BY <1>w, <1>f, FactKinds DEF FactsRight
<1>5. ASSUME NEW e \in Email \cup {NoEmail}
      PROVE  (\E y \in Person : account[y] # 0 /\ email[y] = e) => Held(r, EmailFact(e))
  BY <1>w, <1>f, FactKinds DEF FactsRight
<1>6. ASSUME NEW p \in Project, NEW x \in Person
      PROVE  /\ member[<<p, x>>] # 0 => Held(r, MemberFact(p, x))
             /\ member[<<p, x>>] = 0 => Lacked(r, MemberFact(p, x))
  BY <1>w, <1>f, FactKinds DEF FactsRight
<1> QED
  BY <1>1, <1>2, <1>3, <1>4, <1>5, <1>6

\* The statement that answers a request has a reason to.
LEMMA ReasonGiven ==
    ASSUME TypeOK, Control, Numbers, Track, Knows, NEW r \in Request, Step(r)
    PROVE  ReasonOf(r)'
<1> SUFFICES ASSUME pc'[r] = "done", r \notin broken' PROVE ReasonOf(r)'
  BY DEF ReasonOf
<1> DEFINE x == req[r].person
           p == req[r].project
           u == req[r].uid
           a == req[r].admin
<1>0. /\ Tables /\ Requests /\ req' = req /\ Op(r)' = Op(r) /\ Op(r) \in Operation
      /\ x \in Person /\ p \in Project /\ u \in Uid /\ at[r] \in Project
      /\ req[r].email \in Email \cup {NoEmail} /\ (Op(r) # "createParticipant" => a \in Admin)
      /\ KnowsOf(r) /\ ControlOf(r)
  BY TypeParts, SameRequests, RequestTypes DEF Op, Requests, Knows, Control
<1>b. ~Begin(r)
  BY <1>0 DEF Begin, Goes, Requests
<1>c. Busy(r) /\ held' = held
  BY <1>b, StepBegun DEF Busy
<1>w. \A f \in Fact : /\ f \in Facts => Held(r, f)
                      /\ f \notin Facts => Lacked(r, f)
  BY <1>c, Witnessed
<1>f. FactsRight
  BY <1>0, FactsHold
<1>v. /\ Named(u) # {} => Held(r, UidFact(u))
      /\ Named(u) = {} => Lacked(r, UidFact(u))
      /\ at[r] \notin live => Lacked(r, ProjectFact(at[r]))
      /\ \A q \in live : Held(r, ProjectFact(q))
      /\ a \in Admin /\ a \in left => Lacked(r, AdminFact(a))
      /\ account[x] = 0 => Lacked(r, PersonFact(x))
      /\ (\E y \in Person : account[y] # 0 /\ email[y] = req[r].email) => Held(r, EmailFact(req[r].email))
      /\ member[<<at[r], x>>] # 0 => Held(r, MemberFact(at[r], x))
      /\ member[<<p, x>>] = 0 => Lacked(r, MemberFact(p, x))
  BY <1>0, <1>c, Shown, Zenon DEF Tables
<1>m. \A f : f \in met[r] => Held(r, f) /\ Lacked(r, f)
  BY DEF Held, Lacked
<1>g. ASSUME at'[r] = at[r], UNCHANGED <<projects, met>>
      PROVE  /\ \A f : (Held(r, f)' <=> Held(r, f)) /\ (Lacked(r, f)' <=> Lacked(r, f))
             /\ Conflict(r)' <=> Conflict(r)
             /\ owner' = owner /\ live \subseteq created'
  <2>1. \A f : (Held(r, f)' <=> Held(r, f)) /\ (Lacked(r, f)' <=> Lacked(r, f))
    BY <1>c, <1>g DEF Held, Lacked
  <2>2. Conflict(r)' <=> Conflict(r)
    BY <1>0, <1>g, <2>1 DEF Conflict, projects
  <2> QED
    BY <1>0, <1>g, <2>1, <2>2 DEF projects, Tables
<1>1. CASE Begin(r)
  BY <1>b, <1>1
<1>2. CASE Fail(r)
  BY <1>2 DEF Fail
<1>3. CASE CheckUid(r)
  <2>1. at'[r] = at[r] /\ UNCHANGED <<projects, met>>
    BY <1>0, <1>3 DEF CheckUid, Goes, Says, Looks, local
  <2> QED
    BY <1>0, <1>g, <1>v, <1>3, <2>1 DEF CheckUid, Goes, Says, Requests, ReasonOf, Justified
<1>4. CASE CreateProject(r)
  BY <1>0, <1>4 DEF CreateProject, Says, Requests, ReasonOf, Justified, ProjectOps, MemberOps
<1>5. CASE CreateProjectConflicts(r)
  <2>1. at'[r] = at[r] /\ UNCHANGED <<projects, met>>
    BY <1>0, <1>5 DEF CreateProjectConflicts, Goes, Says, Looks, local
  <2>2. Conflict(r)
    BY <1>0, <1>v, <1>5 DEF CreateProjectConflicts, Conflict
  <2> QED
    BY <1>0, <1>g, <1>v, <1>5, <2>1, <2>2 DEF CreateProjectConflicts, Goes, Says, Requests,
       ReasonOf, Justified
<1>6. CASE FindProject(r)
  <2>1. at'[r] = at[r] /\ UNCHANGED <<projects, met>> /\ at[r] = p /\ Op(r) \in ProjectOps
    BY <1>0, <1>6 DEF FindProject, Goes, Says, Looks, local, KnowsOf
  <2>2. \/ answer'[r] = "missing" /\ at[r] \notin live
        \/ answer'[r] = "forbidden" /\ at[r] \in live /\ owner[at[r]] # a
        \/ answer'[r] = "ok"
    BY <1>0, <1>6 DEF FindProject, Goes, Says, Requests
  <2>3. /\ answer'[r] = "missing" => Lacked(r, ProjectFact(p))'
        /\ answer'[r] = "forbidden" => at'[r] \in created' /\ owner'[at[r]] # a
    BY <1>0, <1>g, <1>v, <2>1, <2>2
  <2> QED
    BY <1>0, <2>1, <2>2, <2>3 DEF ReasonOf, Justified, ProjectOps, MemberOps
<1>7. CASE FindAgain(r)
  <2>1. at'[r] = at[r] /\ UNCHANGED <<projects, met>> /\ at[r] = p /\ Op(r) \in ProjectOps
    BY <1>0, <1>7 DEF FindAgain, Goes, Says, Looks, local, KnowsOf, ControlOf, ProjectOps
  <2>2. answer'[r] = "missing" /\ at[r] \notin live
    BY <1>0, <1>7 DEF FindAgain, Goes, Says, Requests
  <2>3. Lacked(r, ProjectFact(p))'
    BY <1>0, <1>g, <1>v, <2>1, <2>2
  <2> QED
    BY <1>0, <2>1, <2>2, <2>3 DEF ReasonOf, Justified, ProjectOps, MemberOps
<1>8. CASE CheckNewUid(r)
  <2>1. at'[r] = at[r] /\ UNCHANGED <<projects, met>>
    BY <1>0, <1>8 DEF CheckNewUid, Goes, Says, Looks, local
  <2> QED
    BY <1>0, <1>g, <1>v, <1>8, <2>1 DEF CheckNewUid, Goes, Says, Requests, ReasonOf, Justified
<1>9. CASE UpdateProject(r)
  BY <1>0, <1>9 DEF UpdateProject, Says, Requests, ReasonOf, Justified, ProjectOps, MemberOps
<1>10. CASE UpdateProjectConflicts(r)
  <2>1. at'[r] = at[r] /\ UNCHANGED <<projects, met>>
    BY <1>0, <1>10 DEF UpdateProjectConflicts, Goes, Says, Looks, local
  <2>2. Conflict(r)
    BY <1>0, <1>10 DEF UpdateProjectConflicts, Says, Conflict, KnowsOf, ProjectOps
  <2> QED
    BY <1>0, <1>g, <1>v, <1>10, <2>1, <2>2 DEF UpdateProjectConflicts, Goes, Says, Requests,
       ReasonOf, Justified
<1>11. CASE DeleteProject(r)
  BY <1>0, <1>11 DEF DeleteProject, Says, Requests, ReasonOf, Justified, ProjectOps, MemberOps
<1>12. CASE DeleteProjectConflicts(r)
  <2>1. at'[r] = at[r] /\ UNCHANGED <<projects, met>>
    BY <1>0, <1>12 DEF DeleteProjectConflicts, Goes, Says, Looks, local
  <2>2. Conflict(r)
    BY <1>0, <1>12 DEF DeleteProjectConflicts, Says, Conflict, KnowsOf, ProjectOps
  <2> QED
    BY <1>0, <1>g, <1>v, <1>12, <2>1, <2>2 DEF DeleteProjectConflicts, Goes, Says, Requests,
       ReasonOf, Justified
<1>13. CASE FindProjects(r)
  BY <1>0, <1>13 DEF FindProjects, ControlOf, Goes, Says, Requests, ReasonOf, Justified,
     ProjectOps, MemberOps
<1>14. CASE CountProjects(r)
  BY <1>0, <1>14 DEF CountProjects, ControlOf, Goes, Says, Requests, ReasonOf, Justified,
     ProjectOps, MemberOps
<1>15. CASE CountProjectsFails(r)
  BY <1>15 DEF CountProjectsFails
<1>16. CASE FindByUid(r)
  <2>1. at'[r] = at[r] /\ UNCHANGED <<projects, met>> /\ answer'[r] = "missing"
        /\ Named(u) = {} /\ Op(r) = "createParticipant"
    BY <1>0, <1>16 DEF FindByUid, Goes, Says, Looks, Requests, ControlOf
  <2>2. Lacked(r, UidFact(u))'
    BY <1>0, <1>g, <1>v, <2>1
  <2> QED
    BY <1>0, <2>1, <2>2 DEF ReasonOf, Justified, ProjectOps, MemberOps
<1>17. CASE FindMember(r)
  <2>1. at'[r] = at[r] /\ UNCHANGED <<projects, met>> /\ answer'[r] = "missing"
        /\ Numbered(row[r]) = {} /\ Op(r) \in MemberOps
    BY <1>0, <1>17 DEF FindMember, Goes, Says, Looks, Requests
  <2>2. MemberFact(p, x) \in met[r] \/ member[<<p, x>>] = 0
    BY <1>0, <1>c, <2>1 DEF KnowsOf, Numbered, Members
  <2> QED
    BY <1>0, <1>g, <1>v, <1>m, <2>1, <2>2 DEF ReasonOf, Justified, ProjectOps, MemberOps
<1>18. CASE VerifyOwner(r)
  <2>1. at'[r] = at[r] /\ UNCHANGED <<projects, met>>
        /\ \/ answer'[r] = "ok" /\ Op(r) = "getParticipant"
           \/ answer'[r] = "forbidden" /\ (at[r] \notin live \/ owner[at[r]] # a)
    BY <1>0, <1>18 DEF VerifyOwner, Goes, Says, Looks, local, Requests
  <2> QED
    BY <1>0, <1>g, <1>v, <2>1 DEF ReasonOf, Justified
<1>19. CASE CountParticipants(r)
  BY <1>0, <1>19 DEF CountParticipants, ControlOf, Says, Requests, ReasonOf, Justified,
     ProjectOps, MemberOps
<1>20. CASE CheckFree(r)
  <2>1. at'[r] = at[r] /\ UNCHANGED <<projects, met>>
    BY <1>0, <1>20 DEF CheckFree, Goes, Says, Looks, local
  <2> QED
    BY <1>0, <1>g, <1>v, <1>20, <2>1 DEF CheckFree, Goes, Says, Requests, ReasonOf, Justified
<1>21. CASE UpsertUser(r)
  BY <1>0, <1>21 DEF UpsertUser, Goes, Requests
<1>22. CASE UpsertConflicts(r)
  <2>1. at'[r] = at[r] /\ UNCHANGED <<projects, met>>
    BY <1>0, <1>22 DEF UpsertConflicts, Goes, Says, Looks, local
  <2>2. Conflict(r)
    BY <1>0, <1>v, <1>22 DEF UpsertConflicts, EmailTaken, People, Says, Conflict, ControlOf
  <2> QED
    BY <1>0, <1>g, <1>v, <1>22, <2>1, <2>2 DEF UpsertConflicts, Goes, Says, Requests, ReasonOf,
       Justified
<1>23. CASE CreateParticipant(r)
  <2>1. at'[r] = at[r] /\ UNCHANGED projects /\ answer'[r] = "ok"
        /\ Op(r) = "createParticipant" /\ pc[r] = "join"
    BY <1>0, <1>23 DEF CreateParticipant, Says, local, Requests, ControlOf
  <2>2. Held(r, UidFact(u)) /\ Held(r, ProjectFact(at[r])) /\ a \in {Nobody, owner[at[r]]}
    BY <1>0, <2>1 DEF KnowsOf
  <2>3. \A f : Held(r, f) => Held(r, f)'
    BY <1>c, Unmet DEF Held
  <2> QED
    BY <1>0, <2>1, <2>2, <2>3 DEF ReasonOf, Justified, projects
<1>24. CASE CreateParticipantConflicts(r)
  <2>1. at'[r] = at[r] /\ UNCHANGED <<projects, met>>
    BY <1>0, <1>24 DEF CreateParticipantConflicts, Goes, Says, Looks, local
  <2>2. Conflict(r)
    BY <1>0, <1>24 DEF CreateParticipantConflicts, Joinable, Says, Conflict, KnowsOf, ControlOf
  <2> QED
    BY <1>0, <1>g, <1>v, <1>24, <2>1, <2>2 DEF CreateParticipantConflicts, Goes, Says, Requests,
       ReasonOf, Justified
<1>25. CASE DeleteParticipant(r)
  <2>0. Op(r) = "deleteParticipant" /\ pc[r] = "remove" /\ at[r] = p /\ row[r] # 0
    BY <1>0, <1>25 DEF DeleteParticipant, Says, ControlOf, KnowsOf, MemberOps
  <2>1. CASE answer'[r] = "ok"
    BY <1>0, <2>0, <2>1 DEF ReasonOf, Justified
  <2>2. CASE answer'[r] # "ok"
    <3>1. at'[r] = at[r] /\ UNCHANGED <<projects, met>> /\ answer'[r] = "internal" /\ Numbered(row[r]) = {}
      BY <1>0, <1>25, <2>2 DEF DeleteParticipant, Says, Looks, local, Requests
    <3>2. MemberFact(at[r], x) \in met[r]
      BY <1>0, <1>c, <2>0, <3>1 DEF KnowsOf, Numbered, Members, MemberOps
    <3>3. Conflict(r)
      BY <2>0, <3>2 DEF Conflict
    <3> QED
      BY <1>0, <1>g, <3>1, <3>3 DEF ReasonOf, Justified
  <2> QED
    BY <2>1, <2>2
<1>26. CASE FindUser(r)
  <2>1. at'[r] = at[r] /\ UNCHANGED <<projects, met>> /\ answer'[r] = "missing"
        /\ \/ Op(r) = "deleteUser" /\ (row[r] = 0 \/ account[x] # row[r])
           \/ Op(r) = "deleteAdmin" /\ a \in left
    BY <1>0, <1>26 DEF FindUser, Goes, Says, Looks, local, Requests
  <2>2. Op(r) = "deleteUser" => PersonFact(x) \in met[r] \/ account[x] = 0
    BY <1>0, <1>c, <2>1 DEF KnowsOf
  <2> QED
    BY <1>0, <1>g, <1>v, <1>m, <2>1, <2>2 DEF ReasonOf, Justified, ProjectOps, MemberOps
<1>27. CASE DeleteUser(r)
  BY <1>0, <1>27 DEF DeleteUser, Says, Requests, ReasonOf, Justified, ProjectOps, MemberOps
<1>28. CASE DeleteAdmin(r)
  BY <1>0, <1>28 DEF DeleteAdmin, Says, Requests, ReasonOf, Justified, ProjectOps, MemberOps
<1>29. CASE DeleteUserConflicts(r)
  <2>1. at'[r] = at[r] /\ UNCHANGED <<projects, met>>
        /\ \/ answer'[r] = "missing" /\ Op(r) = "deleteUser" /\ account[x] # row[r]
           \/ answer'[r] = "missing" /\ Op(r) = "deleteAdmin" /\ a \in left
           \/ answer'[r] = "internal" /\ Op(r) = "deleteAdmin" /\ Owned(a) # {}
    BY <1>0, <1>29 DEF DeleteUserConflicts, Says, Looks, local, Requests
  <2>2. Op(r) = "deleteUser" /\ account[x] # row[r] => PersonFact(x) \in met[r]
    BY <1>0, <1>c DEF KnowsOf
  <2>3. Op(r) = "deleteAdmin" /\ Owned(a) # {} => Conflict(r)
    BY <1>0, <1>v DEF Conflict, Owned, Tables
  <2> QED
    BY <1>0, <1>g, <1>v, <1>m, <2>1, <2>2, <2>3 DEF ReasonOf, Justified, ProjectOps, MemberOps
<1> QED
  BY <1>1, <1>2, <1>3, <1>4, <1>5, <1>6, <1>7, <1>8, <1>9, <1>10, <1>11, <1>12, <1>13, <1>14,
     <1>15, <1>16, <1>17, <1>18, <1>19, <1>20, <1>21, <1>22, <1>23, <1>24, <1>25, <1>26, <1>27,
     <1>28, <1>29 DEF Step

LEMMA NextReasons ==
    ASSUME TypeOK, Control, Numbers, Track, Knows, Reasons, NEW r \in Request, Step(r)
    PROVE  Reasons'
<1>1. ASSUME NEW q \in Request PROVE ReasonOf(q)'
  <2>1. CASE q = r
    BY <2>1, ReasonGiven
  <2>2. CASE q # r /\ pc[q] # "done"
    BY <2>2, StepOthers DEF ReasonOf
  <2>3. CASE pc[q] = "done"
    BY <2>3, ReasonsStay, ReasonParts
  <2> QED
    BY <2>1, <2>2, <2>3
<1> QED
  BY <1>1 DEF Reasons, ReasonOf

-----------------------------------------------------------------------------
(* The theorems                                                            *)

LEMMA InitIInv == Init => IInv
<1> SUFFICES ASSUME Init PROVE IInv
  OBVIOUS
<1> USE EnrollmentAssumption DEF Init
<1>1. TypeOK
  <2>1. at \in [Request -> Project]
    BY RequestTypes
  <2> QED
    BY <2>1 DEF TypeOK, Answers
<1>2. Control
  BY DEF Control, ControlOf, Awaiting
<1>3. Numbers
  BY DEF Numbers
<1>4. Track
  BY DEF Track, Busy, Awaiting, Held
<1>5. Knows
  BY DEF Knows, KnowsOf, Busy, Awaiting
<1>6. Names /\ Lists /\ Reasons
  BY DEF Names, Lists, Reasons
<1> QED
  BY <1>1, <1>2, <1>3, <1>4, <1>5, <1>6 DEF IInv

LEMMA SameIInv == IInv /\ UNCHANGED vars => IInv'
<1> SUFFICES ASSUME IInv, UNCHANGED vars PROVE IInv'
  OBVIOUS
<1> USE DEF IInv, vars, projects, people, local
<1>1. TypeOK'
  BY NextTypeOK
<1>2. \A r \in Request : Op(r)' = Op(r) /\ Busy(r)' = Busy(r) /\ (Stirred(r)' <=> Stirred(r))
  BY DEF Op, Busy, Stirred
<1>3. Control' /\ Numbers'
  BY <1>2 DEF Control, ControlOf, Numbers
<1>4. Facts' = Facts /\ \A n : Numbered(n)' = Numbered(n) /\ Named(n)' = Named(n) /\ Owned(n)' = Owned(n)
  BY DEF Facts, Members, People, Numbered, Named, Owned
<1>5. \A r, f : (Held(r, f)' <=> Held(r, f)) /\ (Lacked(r, f)' <=> Lacked(r, f))
  BY DEF Held, Lacked
<1>6. Track'
  BY <1>2, <1>4, <1>5 DEF Track
<1>7. Knows'
  BY <1>2, <1>4, <1>5 DEF Knows, KnowsOf
<1>8. Names' /\ Lists'
  BY <1>2, <1>4 DEF Names, Lists, Op
<1>9. Reasons'
  <2>1. \A r \in Request : Conflict(r)' <=> Conflict(r)
    BY <1>2, <1>5 DEF Conflict
  <2> QED
    BY <1>2, <1>5, <2>1 DEF Reasons, Justified
<1> QED
  BY <1>1, <1>3, <1>6, <1>7, <1>8, <1>9

LEMMA NextIInv == IInv /\ [Next]_vars => IInv'
<1> SUFFICES ASSUME IInv, [Next]_vars PROVE IInv'
  OBVIOUS
<1>1. ASSUME NEW r \in Request, Step(r) PROVE IInv'
  <2> USE <1>1 DEF IInv
  <2>1. TypeOK'
    BY NextTypeOK DEF Next
  <2>2. Control' /\ Numbers'
    BY NextControl, NextNumbers
  <2>3. Track' /\ Knows'
    BY NextTrack, NextKnows
  <2>4. Names' /\ Lists' /\ Reasons'
    BY NextNames, NextLists, NextReasons
  <2> QED
    BY <2>1, <2>2, <2>3, <2>4
<1>2. CASE UNCHANGED vars
  BY <1>2, SameIInv
<1> QED
  BY <1>1, <1>2 DEF Next

\* The invariant above holds whatever the requests ask and however they race.
THEOREM InductiveInvariant == Spec => []IInv
BY InitIInv, NextIInv, PTL DEF Spec

\* Every variable keeps its type and every foreign key of the tables holds,
\* whatever the requests ask and in whatever order their statements run.
THEOREM TypeCorrect == Spec => []TypeOK
<1>1. IInv => TypeOK
  BY DEF IInv
<1> QED
  BY <1>1, InductiveInvariant, PTL

\* An answer of a request none of whose statements threw is justified by
\* what held at some moment of the request.
THEOREM Reasoned == Spec => []AnsweredForAReason
<1>1. IInv => AnsweredForAReason
  BY DEF IInv, Reasons, AnsweredForAReason
<1> QED
  BY <1>1, InductiveInvariant, PTL

\* A refused enrolment has left its names on a shared user only if a
\* statement threw or the project or membership changed meanwhile.
THEOREM NoTrace == Spec => []RefusedLeavesNoTrace
<1>1. IInv => RefusedLeavesNoTrace
  <2> SUFFICES ASSUME IInv, NEW x \in Person, names[x] \in Request, answer[names[x]] \notin {"none", "ok"}
               PROVE  /\ answer[names[x]] = "internal"
                      /\ \/ names[x] \in broken
                         \/ {ProjectFact(at[names[x]]), MemberFact(at[names[x]], x)} \cap met[names[x]] # {}
    BY DEF RefusedLeavesNoTrace
  <2>1. NamedBy(names[x], x) /\ ControlOf(names[x])
    BY NamesNamed DEF IInv, Control
  <2> QED
    BY <2>1 DEF NamedBy, ControlOf
<1> QED
  BY <1>1, InductiveInvariant, PTL

\* A list of projects whose count worked has its length as total, unless a
\* project of its user was created or deleted meanwhile.
THEOREM Fits == Spec => []TotalFits
<1>1. IInv => TotalFits
  BY DEF IInv, Lists, Control, ControlOf, TypeOK, Awaiting, Stirred, TotalFits
<1> QED
  BY <1>1, InductiveInvariant, PTL

=============================================================================
