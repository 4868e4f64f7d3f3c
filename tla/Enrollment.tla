----------------------------- MODULE Enrollment -----------------------------
(***************************************************************************)
(* Projects and their participants: ProjectService and                     *)
(* ProjectParticipantService over their repositories, statement by         *)
(* statement, with the deletion of users.  Every handler first looks, then *)
(* writes, in separate statements without a transaction: unique indexes    *)
(* and foreign keys decide the races.  Fail is a statement that throws;    *)
(* what the client then hears depends on which one it was.                 *)
(*                                                                         *)
(* A participant is a User row found by the participantId the app gives    *)
(* (User.uniqueId) and shared by all projects.  A fact is a pair of a kind *)
(* and a value: a used unique id, a live project, a User row, a membership.*)
(***************************************************************************)
EXTENDS Naturals, FiniteSets

CONSTANTS
    Request,
    Project,      \* autoincremented ids: each names at most one row ever
    Uid,          \* Project.uniqueId
    Admin,        \* users who own projects
    Person,       \* User.uniqueId
    Email, NoEmail,
    Nobody,       \* no administrator (a phone); no request
    Plan          \* bound: what the requests ask

Creating    == {"createProject", "createParticipant"}
ProjectOps  == {"getProject", "updateProject", "deleteProject"}
MemberOps   == {"getParticipant", "deleteParticipant"}
Operation   == Creating \cup ProjectOps \cup MemberOps \cup
    {"available", "listProjects", "countParticipants", "deleteUser", "deleteAdmin", "none"}

ASSUME EnrollmentAssumption ==
    /\ Plan \subseteq [Request -> [op : Operation, admin : Admin \cup {Nobody}, project : Project,
                                   uid : Uid, person : Person, email : Email \cup {NoEmail}]]
    /\ \A q \in Plan, r \in Request : q[r].op # "createParticipant" => q[r].admin # Nobody
    /\ IsFiniteSet(Project)   \* 32 bits
    /\ NoEmail \notin Email
    /\ Nobody \notin Admin \cup Request

VARIABLES
    live,     \* Project rows
    uid,      \* Project.uniqueId of each project, once created
    owner,    \* Project.userId
    created,  \* projects whose id has been used
    left,     \* administrators whose User row is deleted
    account,  \* number of each participant's User row, 0 without one
    names,    \* whose request last wrote firstName and lastName
    email,    \* User.email
    member,   \* number of the ProjectParticipant row of each pair, 0 without one
    ids,      \* rows numbered so far
    req,      \* what each request asks, an element of Plan
    pc,       \* the statement a request waits for
    answer,   \* what it was answered
    at,       \* the project a request has found or created
    row,      \* the User or ProjectParticipant row a request works on
    list, total,  \* listProjects: what the two parallel queries returned
    held,     \* history: the facts when r began
    met,      \* history: the facts that have changed since
    broken    \* history: requests one of whose statements threw

projects == <<live, uid, owner, created>>
people   == <<left, account, names, email, member, ids>>
local    == <<at, row, list, total>>
vars     == <<projects, people, req, pc, answer, local, held, met, broken>>

Answers == {"none", "ok", "free", "used", "taken", "forbidden", "missing", "exists", "internal"}
Awaiting == {"check", "find", "again", "write", "reads", "rows", "count",
             "project", "owner", "free", "upsert", "join", "remove", "tally", "erase"}

UidFact(u)       == <<"uid", u>>
ProjectFact(p)   == <<"project", p>>
AdminFact(a)     == <<"admin", a>>
PersonFact(x)    == <<"person", x>>
EmailFact(e)     == <<"email", e>>
MemberFact(p, x) == <<"member", <<p, x>>>>
Fact == {UidFact(u) : u \in Uid} \cup {ProjectFact(p) : p \in Project}
        \cup {AdminFact(a) : a \in Admin} \cup {PersonFact(x) : x \in Person}
        \cup {EmailFact(e) : e \in Email \cup {NoEmail}} \cup {MemberFact(p, x) : p \in Project, x \in Person}

TypeOK ==
    /\ live \subseteq created /\ created \subseteq Project
    /\ uid \in [Project -> Uid] /\ owner \in [Project -> Admin]
    /\ \A p, q \in live : uid[p] = uid[q] => p = q
    /\ left \subseteq Admin /\ \A p \in live : owner[p] \notin left
    /\ account \in [Person -> Nat]
    /\ names \in [Person -> Request \cup {Nobody}]
    /\ email \in [Person -> Email \cup {NoEmail}]
    /\ member \in [Project \X Person -> Nat]
    /\ \A p \in Project, x \in Person : member[<<p, x>>] # 0 => p \in live /\ account[x] # 0
    /\ ids \in Nat /\ req \in Plan
    /\ pc \in [Request -> {"idle", "done"} \cup Awaiting]
    /\ answer \in [Request -> Answers]
    /\ at \in [Request -> Project] /\ row \in [Request -> Nat]
    /\ list \in [Request -> SUBSET Project]
    /\ total \in [Request -> Nat]
    /\ held \in [Request -> SUBSET Fact] /\ met \in [Request -> SUBSET Fact]
    /\ broken \subseteq Request

-----------------------------------------------------------------------------
Op(r)   == req[r].op
Busy(r) == pc[r] \in Awaiting

Named(u)  == {p \in live : uid[p] = u}
Owned(a)  == {p \in live : owner[p] = a}
People    == {x \in Person : account[x] # 0}
Members   == {m \in Project \X Person : member[m] # 0}
Numbered(n) == {m \in Members : member[m] = n}

Facts ==
    {UidFact(uid[p]) : p \in live} \cup {ProjectFact(p) : p \in live}
    \cup {AdminFact(a) : a \in Admin \ left}
    \cup {PersonFact(x) : x \in People} \cup {EmailFact(email[x]) : x \in People}
    \cup {MemberFact(m[1], m[2]) : m \in Members}

Goes(r, from, to) ==
    pc[r] = from /\ pc' = [pc EXCEPT ![r] = to] /\ UNCHANGED answer

Says(r, from, a) ==
    /\ pc[r] = from
    /\ pc' = [pc EXCEPT ![r] = "done"]
    /\ answer' = [answer EXCEPT ![r] = a]

\* The requests in progress meet the change of the facts F.
Change(F) == met' = [r \in Request |-> IF Busy(r) THEN met[r] \cup F ELSE met[r]]

Looks == UNCHANGED <<projects, people, req, held, met, broken>>

Init ==
    /\ live \in SUBSET Project /\ created = live
    /\ uid \in [Project -> Uid] /\ owner \in [Project -> Admin]
    /\ \A p, q \in live : uid[p] = uid[q] => p = q
    /\ left = {}
    /\ account = [x \in Person |-> 0]
    /\ names = [x \in Person |-> Nobody]
    /\ email = [x \in Person |-> NoEmail]
    /\ member = [m \in Project \X Person |-> 0]
    /\ ids = 0
    /\ req \in Plan
    /\ pc = [r \in Request |-> "idle"]
    /\ answer = [r \in Request |-> "none"]
    /\ at = [r \in Request |-> req[r].project]
    /\ row = [r \in Request |-> 0]
    /\ list = [r \in Request |-> {}]
    /\ total = [r \in Request |-> 0]
    /\ held = [r \in Request |-> {}]
    /\ met = [r \in Request |-> {}]
    /\ broken = {}

\* A participant or a user is named by the row the client has seen.
Begin(r) ==
    /\ Op(r) # "none"
    /\ Goes(r, "idle", CASE Op(r) \in {"createProject", "available"} -> "check"
                         [] Op(r) = "createParticipant" -> "project"
                         [] Op(r) = "listProjects" -> "reads"
                         [] Op(r) = "countParticipants" -> "owner"
                         [] OTHER -> "find")
    /\ held' = [held EXCEPT ![r] = Facts]
    /\ row' = [row EXCEPT ![r] = CASE Op(r) \in MemberOps -> member[<<req[r].project, req[r].person>>]
                                   [] Op(r) = "deleteUser" -> account[req[r].person]
                                   [] OTHER -> 0]
    /\ UNCHANGED <<projects, people, req, at, list, total, met, broken>>

-----------------------------------------------------------------------------
(* Projects                                                                *)

\* isUniqueIdAvailable, or the first statement of createProject.
CheckUid(r) ==
    /\ Op(r) \in {"createProject", "available"}
    /\ LET taken == Named(req[r].uid) # {} IN
       IF Op(r) = "available" THEN Says(r, "check", IF taken THEN "used" ELSE "free")
       ELSE IF taken THEN Says(r, "check", "exists")
       ELSE Goes(r, "check", "write")
    /\ Looks /\ UNCHANGED local

\* The unique index and the foreign key decide.
CreateProject(r) ==
    /\ Op(r) = "createProject" /\ Says(r, "write", "ok")
    /\ Named(req[r].uid) = {} /\ req[r].admin \notin left
    /\ \E p \in Project \ created :
          /\ live' = live \cup {p} /\ created' = created \cup {p}
          /\ uid' = [uid EXCEPT ![p] = req[r].uid]
          /\ owner' = [owner EXCEPT ![p] = req[r].admin]
          /\ at' = [at EXCEPT ![r] = p]
          /\ Change({UidFact(req[r].uid), ProjectFact(p)})
    /\ UNCHANGED <<people, req, row, list, total, held, broken>>

\* ProjectCreationError, whatever the index or the foreign key says.
CreateProjectConflicts(r) ==
    /\ Op(r) = "createProject" /\ Says(r, "write", "internal")
    /\ Named(req[r].uid) # {} \/ req[r].admin \in left
    /\ Looks /\ UNCHANGED local

\* The service's look: found and owned, or not.
FindProject(r) ==
    /\ Op(r) \in ProjectOps
    /\ IF at[r] \notin live THEN Says(r, "find", "missing")
       ELSE IF owner[at[r]] # req[r].admin THEN Says(r, "find", "forbidden")
       ELSE IF Op(r) = "getProject" THEN Says(r, "find", "ok")
       ELSE Goes(r, "find", "again")
    /\ Looks /\ UNCHANGED local

\* The repository's look: found again; a new unique id is looked up next.
FindAgain(r) ==
    /\ IF at[r] \notin live THEN Says(r, "again", "missing")
       ELSE Goes(r, "again", IF Op(r) = "updateProject" /\ uid[at[r]] # req[r].uid
                             THEN "check" ELSE "write")
    /\ Looks /\ UNCHANGED local

CheckNewUid(r) ==
    /\ Op(r) = "updateProject"
    /\ IF Named(req[r].uid) # {} THEN Says(r, "check", "exists") ELSE Goes(r, "check", "write")
    /\ Looks /\ UNCHANGED local

UpdateProject(r) ==
    /\ Op(r) = "updateProject" /\ Says(r, "write", "ok")
    /\ at[r] \in live /\ Named(req[r].uid) \subseteq {at[r]}
    /\ uid' = [uid EXCEPT ![at[r]] = req[r].uid]
    /\ Change(IF uid[at[r]] = req[r].uid THEN {} ELSE {UidFact(uid[at[r]]), UidFact(req[r].uid)})
    /\ UNCHANGED <<live, owner, created, people, req, local, held, broken>>

\* ProjectUpdateError: deleted, or the unique id has just been taken.
UpdateProjectConflicts(r) ==
    /\ Op(r) = "updateProject" /\ Says(r, "write", "internal")
    /\ at[r] \notin live \/ Named(req[r].uid) \ {at[r]} # {}
    /\ Looks /\ UNCHANGED local

\* Mutation: participants of the deleted project are kept.
MutDeleteProject(r) ==
    /\ Op(r) = "deleteProject" /\ Says(r, "write", "ok")
    /\ at[r] \in live
    /\ live' = live \ {at[r]}
    /\ Change({UidFact(uid[at[r]]), ProjectFact(at[r])})
    /\ UNCHANGED <<uid, owner, created, people, req, local, held, broken>>

\* The participants' rows go with the project.
DeleteProject(r) ==
    /\ Op(r) = "deleteProject" /\ Says(r, "write", "ok")
    /\ at[r] \in live
    /\ live' = live \ {at[r]}
    /\ member' = [m \in Project \X Person |-> IF m[1] = at[r] THEN 0 ELSE member[m]]
    /\ Change({UidFact(uid[at[r]]), ProjectFact(at[r])}
              \cup {MemberFact(m[1], m[2]) : m \in {n \in Members : n[1] = at[r]}})
    /\ UNCHANGED <<uid, owner, created, left, account, names, email, ids, req, local, held, broken>>

DeleteProjectConflicts(r) ==
    /\ Op(r) = "deleteProject" /\ Says(r, "write", "internal")
    /\ at[r] \notin live
    /\ Looks /\ UNCHANGED local

\* findProjects and getProjectsCount run in parallel (Promise.all).
FindProjects(r) ==
    /\ \/ Goes(r, "reads", "count")
       \/ Says(r, "rows", "ok")
    /\ list' = [list EXCEPT ![r] = Owned(req[r].admin)]
    /\ Looks /\ UNCHANGED <<at, row, total>>

\* Mutation: the projects of all users are counted.
MutCountProjects(r) ==
    /\ \/ Goes(r, "reads", "rows")
       \/ Says(r, "count", "ok")
    /\ total' = [total EXCEPT ![r] = Cardinality(live)]
    /\ Looks /\ UNCHANGED <<at, row, list>>

CountProjects(r) ==
    /\ \/ Goes(r, "reads", "rows")
       \/ Says(r, "count", "ok")
    /\ total' = [total EXCEPT ![r] = Cardinality(Owned(req[r].admin))]
    /\ Looks /\ UNCHANGED <<at, row, list>>

\* getProjectsCount answers 0 when its query throws.
CountProjectsFails(r) ==
    /\ \/ Goes(r, "reads", "rows")
       \/ Says(r, "count", "ok")
    /\ Op(r) = "listProjects"
    /\ total' = [total EXCEPT ![r] = 0]
    /\ broken' = broken \cup {r}
    /\ UNCHANGED <<projects, people, req, at, row, list, held, met>>

-----------------------------------------------------------------------------
(* Participants                                                            *)

\* getProjectByUniqueIdPublic; a phone's enrolment checks no owner.
FindByUid(r) ==
    /\ \/ Says(r, "project", "missing") /\ Named(req[r].uid) = {} /\ UNCHANGED at
       \/ /\ Goes(r, "project", IF req[r].admin = Nobody THEN "free" ELSE "owner")
          /\ \E p \in Named(req[r].uid) : at' = [at EXCEPT ![r] = p]
    /\ Looks /\ UNCHANGED <<row, list, total>>

\* findParticipantById
FindMember(r) ==
    /\ Op(r) \in MemberOps
    /\ \/ Says(r, "find", "missing") /\ Numbered(row[r]) = {} /\ UNCHANGED at
       \/ /\ Goes(r, "find", "owner")
          /\ \E m \in Numbered(row[r]) : at' = [at EXCEPT ![r] = m[1]]
    /\ Looks /\ UNCHANGED <<row, list, total>>

\* verifyProjectOwnership: without the project access is denied as well.
VerifyOwner(r) ==
    /\ IF at[r] \in live /\ owner[at[r]] = req[r].admin
       THEN \/ Op(r) = "createParticipant" /\ Goes(r, "owner", "free")
            \/ Op(r) = "deleteParticipant" /\ Goes(r, "owner", "remove")
            \/ Op(r) = "countParticipants" /\ Goes(r, "owner", "tally")
            \/ Op(r) = "getParticipant" /\ Says(r, "owner", "ok")
       ELSE Says(r, "owner", "forbidden")
    /\ Looks /\ UNCHANGED local

CountParticipants(r) ==
    /\ Says(r, "tally", "ok")
    /\ Looks /\ UNCHANGED local

\* Mutation: a participant of any project is refused.
MutCheckFree(r) ==
    /\ IF \E p \in Project : member[<<p, req[r].person>>] # 0
       THEN Says(r, "free", "taken") ELSE Goes(r, "free", "upsert")
    /\ Looks /\ UNCHANGED local

\* Mutation: nobody is refused.
MutCheckNobody(r) ==
    /\ Goes(r, "free", "upsert")
    /\ Looks /\ UNCHANGED local

\* isParticipantIdAvailable
CheckFree(r) ==
    /\ IF member[<<at[r], req[r].person>>] # 0
       THEN Says(r, "free", "taken") ELSE Goes(r, "free", "upsert")
    /\ Looks /\ UNCHANGED local

EmailTaken(r) ==
    req[r].email # NoEmail /\ \E y \in People \ {req[r].person} : email[y] = req[r].email

\* A new row, or the names of the one there is, default names if none are
\* given; an e-mail address only if one is given.
UpsertUser(r) ==
    LET x == req[r].person
        old == account[x] IN
    /\ Goes(r, "upsert", "join")
    /\ ~EmailTaken(r)
    /\ account' = [account EXCEPT ![x] = IF old = 0 THEN ids + 1 ELSE old]
    /\ ids' = IF old = 0 THEN ids + 1 ELSE ids
    /\ names' = [names EXCEPT ![x] = r]
    /\ email' = IF req[r].email = NoEmail THEN email ELSE [email EXCEPT ![x] = req[r].email]
    /\ row' = [row EXCEPT ![r] = account'[x]]
    /\ Change((IF old = 0 THEN {PersonFact(x)} ELSE {}) \cup {EmailFact(email[x]), EmailFact(email'[x])})
    /\ UNCHANGED <<projects, left, member, req, at, list, total, held, broken>>

UpsertConflicts(r) ==
    /\ EmailTaken(r)
    /\ Says(r, "upsert", "internal")
    /\ Looks /\ UNCHANGED local

Joinable(r) ==
    /\ at[r] \in live
    /\ account[req[r].person] = row[r]
    /\ member[<<at[r], req[r].person>>] = 0

CreateParticipant(r) ==
    /\ Says(r, "join", "ok")
    /\ Joinable(r)
    /\ member' = [member EXCEPT ![<<at[r], req[r].person>>] = ids + 1]
    /\ ids' = ids + 1
    /\ Change({MemberFact(at[r], req[r].person)})
    /\ UNCHANGED <<projects, left, account, names, email, req, local, held, broken>>

\* Enrolled, or the project or the user deleted, meanwhile: the names stay.
CreateParticipantConflicts(r) ==
    /\ ~Joinable(r)
    /\ Says(r, "join", "internal")
    /\ Looks /\ UNCHANGED local

DeleteParticipant(r) ==
    \/ /\ Says(r, "remove", "ok")
       /\ \E m \in Numbered(row[r]) :
             member' = [member EXCEPT ![m] = 0] /\ Change({MemberFact(m[1], m[2])})
       /\ UNCHANGED <<projects, left, account, names, email, ids, req, local, held, broken>>
    \/ /\ Says(r, "remove", "internal") /\ Numbered(row[r]) = {}
       /\ Looks /\ UNCHANGED local

-----------------------------------------------------------------------------
(* Users                                                                   *)

FindUser(r) ==
    /\ \/ /\ Op(r) = "deleteUser"
          /\ IF row[r] = 0 \/ account[req[r].person] # row[r]
             THEN Says(r, "find", "missing") ELSE Goes(r, "find", "erase")
       \/ /\ Op(r) = "deleteAdmin"
          /\ IF req[r].admin \in left THEN Says(r, "find", "missing") ELSE Goes(r, "find", "erase")
    /\ Looks /\ UNCHANGED local

\* A participant's memberships go with the row.
DeleteUser(r) ==
    LET x == req[r].person IN
    /\ Op(r) = "deleteUser" /\ Says(r, "erase", "ok")
    /\ account[x] = row[r]
    /\ account' = [account EXCEPT ![x] = 0]
    /\ names' = [names EXCEPT ![x] = Nobody]
    /\ email' = [email EXCEPT ![x] = NoEmail]
    /\ member' = [m \in Project \X Person |-> IF m[2] = x THEN 0 ELSE member[m]]
    /\ Change({PersonFact(x), EmailFact(email[x])}
              \cup {MemberFact(m[1], m[2]) : m \in {n \in Members : n[2] = x}})
    /\ UNCHANGED <<projects, left, ids, req, local, held, broken>>

\* The projects of an administrator are in the way (no onDelete).
DeleteAdmin(r) ==
    /\ Op(r) = "deleteAdmin"
    /\ req[r].admin \notin left /\ Owned(req[r].admin) = {}
    /\ left' = left \cup {req[r].admin}
    /\ Change({AdminFact(req[r].admin)})
    /\ Says(r, "erase", "ok")
    /\ UNCHANGED <<projects, account, names, email, member, ids, req, local, held, broken>>

DeleteUserConflicts(r) ==
    /\ \/ Op(r) = "deleteUser" /\ account[req[r].person] # row[r] /\ Says(r, "erase", "missing")
       \/ Op(r) = "deleteAdmin" /\ req[r].admin \in left /\ Says(r, "erase", "missing")
       \/ Op(r) = "deleteAdmin" /\ Owned(req[r].admin) # {} /\ Says(r, "erase", "internal")
    /\ Looks /\ UNCHANGED local

-----------------------------------------------------------------------------
\* What a client hears when the statement throws.
Excuse(r) ==
    CASE Op(r) = "available" -> "free"
      [] Op(r) \in ProjectOps /\ pc[r] = "find" -> "missing"
      [] pc[r] \in {"project", "reads", "rows"} -> "missing"
      [] pc[r] = "owner" -> "forbidden"
      [] OTHER -> "internal"

Fail(r) ==
    /\ Busy(r) /\ pc[r] # "count"
    /\ Says(r, pc[r], Excuse(r))
    /\ broken' = broken \cup {r}
    /\ UNCHANGED <<projects, people, req, local, held, met>>

Step(r) ==
    \/ Begin(r) \/ Fail(r) \/ CheckUid(r) \/ CreateProject(r) \/ CreateProjectConflicts(r)
    \/ FindProject(r) \/ FindAgain(r) \/ CheckNewUid(r)
    \/ UpdateProject(r) \/ UpdateProjectConflicts(r)
    \/ DeleteProject(r) \/ DeleteProjectConflicts(r)
    \/ FindProjects(r) \/ CountProjects(r) \/ CountProjectsFails(r)
    \/ FindByUid(r) \/ FindMember(r) \/ VerifyOwner(r) \/ CountParticipants(r) \/ CheckFree(r)
    \/ UpsertUser(r) \/ UpsertConflicts(r)
    \/ CreateParticipant(r) \/ CreateParticipantConflicts(r) \/ DeleteParticipant(r)
    \/ FindUser(r) \/ DeleteUser(r) \/ DeleteAdmin(r) \/ DeleteUserConflicts(r)

Next == \E r \in Request : Step(r)

Spec == Init /\ [][Next]_vars

-----------------------------------------------------------------------------
(* Properties                                                              *)

\* The fact held at some moment, or failed to hold at some moment, of r.
Held(r, f)   == f \in held[r] \cup met[r]
Lacked(r, f) == f \notin held[r] \/ f \in met[r]

\* What stood between the checks of r and its write.
Conflict(r) ==
    LET x == req[r].person IN
    CASE Op(r) = "createProject" -> Held(r, UidFact(req[r].uid)) \/ Lacked(r, AdminFact(req[r].admin))
      [] Op(r) = "updateProject" -> {UidFact(req[r].uid), ProjectFact(at[r])} \cap met[r] # {}
      [] Op(r) = "deleteProject" -> ProjectFact(at[r]) \in met[r]
      [] Op(r) = "createParticipant" ->
            \/ {ProjectFact(at[r]), PersonFact(x), MemberFact(at[r], x)} \cap met[r] # {}
            \/ req[r].email # NoEmail /\ Held(r, EmailFact(req[r].email))
      [] Op(r) = "deleteParticipant" -> MemberFact(at[r], x) \in met[r]
      [] Op(r) = "deleteAdmin" ->
            \E p \in Project : owner[p] = req[r].admin /\ Held(r, ProjectFact(p))
      [] OTHER -> FALSE

\* What a refusal says was so at some moment of the request.
Justified(r) ==
    CASE answer[r] = "internal" -> Conflict(r)
      [] answer[r] \in {"exists", "used"} -> Held(r, UidFact(req[r].uid))
      [] answer[r] = "free" -> Lacked(r, UidFact(req[r].uid))
      [] answer[r] = "taken" -> Held(r, MemberFact(at[r], req[r].person))
      [] answer[r] = "forbidden" -> owner[at[r]] # req[r].admin \/ Lacked(r, ProjectFact(at[r]))
      [] answer[r] = "missing" ->
            CASE Op(r) \in ProjectOps -> Lacked(r, ProjectFact(req[r].project))
              [] Op(r) = "createParticipant" -> Lacked(r, UidFact(req[r].uid))
              [] Op(r) \in MemberOps -> Lacked(r, MemberFact(req[r].project, req[r].person))
              [] Op(r) = "deleteUser" -> Lacked(r, PersonFact(req[r].person))
              [] OTHER -> Lacked(r, AdminFact(req[r].admin))
      [] answer[r] = "ok" /\ Op(r) = "createParticipant" ->
            /\ Held(r, UidFact(req[r].uid)) /\ Held(r, ProjectFact(at[r]))
            /\ req[r].admin \in {Nobody, owner[at[r]]}
      [] OTHER -> TRUE

(* Whatever requests race each other, an answer of one whose statements    *)
(* all worked is justified: what a refusal says was so at some moment of   *)
(* the request, a server error means that another request changed what     *)
(* this one had checked (the losing createProject is told 500, not 409),   *)
(* and an enrolment went to a project of the caller that was there.        *)
AnsweredForAReason ==
    \A r \in Request \ broken : pc[r] = "done" => Justified(r)

(* A failed enrolment has overwritten the names of the user, whom other    *)
(* projects share, only if a statement threw or if, after the check that   *)
(* the participant is not there, the project was deleted or the            *)
(* participant enrolled (createParticipant writes User first).             *)
RefusedLeavesNoTrace ==
    \A x \in Person : names[x] \in Request /\ answer[names[x]] \notin {"none", "ok"} =>
        LET r == names[x] IN
        /\ answer[r] = "internal"
        /\ r \in broken \/ {ProjectFact(at[r]), MemberFact(at[r], x)} \cap met[r] # {}

(* The total of a list of projects is its length unless the count threw    *)
(* (it then says 0) or the user's projects changed while both were read    *)
(* (getUserProjects runs the two queries in parallel).                     *)
TotalFits ==
    \A r \in Request \ broken : Op(r) = "listProjects" /\ answer[r] = "ok" =>
        \/ total[r] = Cardinality(list[r])
        \/ \E p \in Project : owner[p] = req[r].admin /\ ProjectFact(p) \in met[r]

=============================================================================
