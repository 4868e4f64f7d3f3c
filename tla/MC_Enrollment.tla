---------------------------- MODULE MC_Enrollment ----------------------------
(* The projects p1 of a1 and p2 of a2, unique ids u1 and u2; p3 is still   *)
(* to be created.  Two participants x1 and x2, one e-mail address.  Either *)
(* requests race each other and no phone calls, or phones register the     *)
(* tokens t1, t2 and pushes go out while x1 is enrolled and deleted.       *)
EXTENDS Devices, TLC

CONSTANTS r1, r2, r3, r4, p1, p2, p3, u1, u2, u3, a1, a2, x1, x2, e1,
          c1, c2, c3, c4, t1, t2

None == [op |-> "none", admin |-> a1, project |-> p1, uid |-> u1, person |-> x1, email |-> NoEmail]
Do(op) == [None EXCEPT !.op = op]
New(u) == [Do("createProject") EXCEPT !.uid = u]
Rename(p, o, u) == [Do("updateProject") EXCEPT !.project = p, !.admin = o, !.uid = u]
Enrol(who, u, p, mail) ==
    [Do("createParticipant") EXCEPT !.admin = who, !.uid = u, !.person = p, !.email = mail]
Some == <<New(u3), Rename(p1, a1, u3), Enrol(a1, u1, x1, e1), Enrol(Nobody, u1, x1, NoEmail),
          Enrol(Nobody, u2, x1, NoEmail), Do("deleteProject"), Do("deleteParticipant"),
          Do("listProjects"), Do("deleteUser")>>

\* Any two of them after an enrolment, and some threes and fours.
Racing == {r1 :> q[1] @@ r2 :> q[2] @@ r3 :> q[3] @@ r4 :> q[4] : q \in
    {<<Enrol(Nobody, u1, x1, NoEmail), Some[n[1]], Some[n[2]], None>> :
        n \in {i \in (1 .. 9) \X (1 .. 9) : i[1] <= i[2]}} \cup {
    <<New(u3), New(u3), [Do("available") EXCEPT !.uid = u3], Rename(p1, a1, u3)>>,
    <<Rename(p1, a1, u3), New(u3), Do("deleteProject"), None>>,
    <<Rename(p1, a1, u3), Rename(p2, a2, u3), [Do("getProject") EXCEPT !.admin = a2], None>>,
    <<Do("deleteProject"), Do("deleteProject"), Do("listProjects"), New(u3)>>,
    <<Do("deleteAdmin"), New(u3), Do("deleteProject"), Do("deleteAdmin")>>,
    <<Enrol(a1, u1, x1, NoEmail), Enrol(Nobody, u1, x1, e1), Do("deleteProject"), None>>,
    <<Enrol(Nobody, u1, x1, e1), Enrol(Nobody, u1, x2, e1), Do("deleteUser"), None>>,
    <<Enrol(a1, u1, x1, NoEmail), Do("getParticipant"), Do("deleteUser"), None>>,
    <<Enrol(a2, u1, x1, NoEmail), Do("countParticipants"), Do("deleteProject"), None>>,
    <<Do("deleteAdmin"), Do("deleteAdmin"), Do("deleteProject"), None>>,
    <<Enrol(a1, u1, x1, NoEmail), Do("deleteParticipant"), Do("deleteParticipant"), Do("deleteUser")>>}}

Phone(who) == Enrol(Nobody, u1, who, NoEmail)
Steady == {r1 :> Phone(x1) @@ r2 :> q @@ r3 :> None @@ r4 :> None : q \in {Phone(x2), Do("deleteUser")}}

Ask(op, token, who) == [op |-> op, token |-> token, person |-> who, uid |-> u1]
Register(token, who) == Ask("register", token, who)
Push(who) == Ask("push", t1, who)
NoCall == Ask("none", t1, x1)
Calls(q) == c1 :> q[1] @@ c2 :> q[2] @@ c3 :> q[3] @@ c4 :> q[4]
Calling == {Calls(q) : q \in {
    <<Register(t1, x1), Register(t1, x1), Push(x1), NoCall>>,
    <<Register(t1, x1), Register(t1, x2), Push(x1), NoCall>>,
    <<Register(t1, x1), Ask("unregister", t1, x1), Push(x1), NoCall>>,
    <<Register(t1, x1), Register(t2, x1), Push(x1), NoCall>>}}

MCPlan == Racing \cup Steady
MCCallPlan == Calling \cup {Calls([n \in 1 .. 4 |-> NoCall])}

MCInit ==
    /\ live = {p1, p2}
    /\ uid = [p \in Project |-> IF p = p2 THEN u2 ELSE u1]
    /\ owner = [p \in Project |-> IF p = p2 THEN a2 ELSE a1]
    /\ \/ req \in Racing /\ call \in MCCallPlan \ Calling
       \/ req \in Steady /\ call \in Calling /\ (call[c2].person = x1 <=> req[r2].op = "deleteUser")
    /\ found = [d \in Call |-> p1]
    /\ DeviceInit

MCSpec == MCInit /\ [][DeviceNext]_<<vars, deviceVars>>
=============================================================================
