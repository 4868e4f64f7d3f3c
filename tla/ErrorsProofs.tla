---------------------------- MODULE ErrorsProofs ----------------------------
(* Proofs about Errors, for every table of endpoints, and about the table  *)
(* of Endpoints.                                                           *)
EXTENDS Endpoints, TLAPS

-----------------------------------------------------------------------------
(* The inductive invariant                                                 *)

\* Only what is wrong, broken or another request's doing throws, or a pipe
\* that refuses what is documented.
Cause == wrong # {} \/ broke \/ raced \/ variant \in My.refuses

Thrown ==
    /\ stage \in {"catch", "filter"} => Cause /\ error \in Error
    /\ stage = "done" => Cause \/ status = My.ok

IInv == TypeOK /\ Thrown

-----------------------------------------------------------------------------
(* Lemmas about the helpers                                                *)

LEMMA StatusInRange == \A e \in Error : StatusOf(e) \in 1 .. 599
<1> SUFFICES ASSUME NEW e \in Error PROVE StatusOf(e) \in 1 .. 599
  OBVIOUS
<1>1. e \in DOMAIN AuthStatus => AuthStatus[e] \in 1 .. 599
  BY DEF AuthStatus
<1>2. e \in DOMAIN ProjectStatus => ProjectStatus[e] \in 1 .. 599
  BY DEF ProjectStatus
<1>3. e \in DOMAIN UserStatus => UserStatus[e] \in 1 .. 599
  BY DEF UserStatus
<1>4. e \in DOMAIN NestStatus => NestStatus[e] \in 1 .. 599
  BY DEF NestStatus
<1> QED
  BY <1>1, <1>2, <1>3, <1>4 DEF StatusOf

LEMMA NamedErrors ==
    {"UnauthorizedException", "ForbiddenException", "BadRequestException", "InvalidJwtTokenError",
     "GeneralAuthError", "UserNotFoundError", "UserAlreadyExistsError", "UserOperationFailedError",
     "Error"} \subseteq Error
BY DEF Error, AuthStatus, ProjectStatus, UserStatus, NestStatus, ChatError

LEMMA CaughtIsError == \A e \in Error : AuthCatch(e) \in Error /\ UserStrategy(e) \in Error
BY NamedErrors DEF AuthCatch, UserStrategy

LEMMA MyTypes ==
    ASSUME endpoint \in Endpoint
    PROVE  /\ My.does \in Seq(Statement) /\ My.ok \in {200, 201, 204}
           /\ My.refuses \subseteq Variant
BY ApiAssumption DEF My

LEMMA NextStatement ==
    ASSUME endpoint \in Endpoint, at \in 1 .. Len(My.does) + 1, at <= Len(My.does)
    PROVE  /\ My.does[at] \in Statement /\ at + 1 \in 1 .. Len(My.does) + 1
           /\ My.does[at].asks = "conflict" => My.does[at].says # "none"
<1>1. My.does \in Seq(Statement)
  BY MyTypes
<1>2. at \in 1 .. Len(My.does) /\ Len(My.does) \in Nat
  BY <1>1
<1>3. My.does[at].asks = "conflict" => My.does[at].says # "none"
  BY <1>2, ApiAssumption DEF My
<1> QED
  BY <1>1, <1>2, <1>3

-----------------------------------------------------------------------------
LEMMA InitIInv == Init => IInv
<1> SUFFICES ASSUME Init PROVE IInv
  OBVIOUS
<1>1. Len(My.does) \in Nat
  BY MyTypes DEF Init
<1>2. wrong \subseteq Fault
  BY DEF Init, Meets, Fault
<1>3. TypeOK
  <2>1. 1 \in 1 .. Len(My.does) + 1
    BY <1>1
  <2>2. status \in 0 .. 599 /\ (status = 0 <=> stage # "done")
    BY DEF Init
  <2> QED
    BY <1>2, <2>1, <2>2 DEF Init, TypeOK
<1>4. Thrown
  BY DEF Init, Thrown
<1> QED
  BY <1>3, <1>4 DEF IInv

Stages == {"guard", "role", "pipe", "work", "catch", "filter"}

\* A step that answers nothing and leads to no other statement.
LEMMA Unanswered ==
    ASSUME IInv, UNCHANGED <<request, at, status>>, stage \in Stages, stage' \in Stages,
           error' \in Error \cup {"none"}, broke' \in BOOLEAN, raced' \in BOOLEAN,
           stage' \in {"catch", "filter"} => Cause' /\ error' \in Error
    PROVE  IInv'
<1>1. My' = My
  BY DEF My, request
<1>2. at' \in 1 .. Len(My'.does) + 1
  BY <1>1 DEF IInv, TypeOK
<1>3. status' \in 0 .. 599 /\ (status' = 0 <=> stage' # "done")
  BY DEF IInv, TypeOK, Stages
<1>4. TypeOK'
  BY <1>2, <1>3 DEF IInv, TypeOK, request, Stages
<1> QED
  BY <1>4 DEF IInv, Thrown, Stages

\* A step that answers s.
LEMMA Answered ==
    ASSUME IInv, UNCHANGED <<request, at, broke, raced>>, stage' = "done",
           error' = error, status' \in 1 .. 599, Cause \/ status' = My.ok
    PROVE  IInv'
<1>1. My' = My
  BY DEF My, request
<1>2. at' \in 1 .. Len(My'.does) + 1
  BY <1>1 DEF IInv, TypeOK
<1>3. status' \in 0 .. 599 /\ (status' = 0 <=> stage' # "done")
  OBVIOUS
<1>4. TypeOK'
  BY <1>2, <1>3 DEF IInv, TypeOK, request
<1> QED
  BY <1>1, <1>4 DEF IInv, Thrown, Cause, request

LEMMA NextIInv == IInv /\ [Next]_vars => IInv'
<1> SUFFICES ASSUME IInv, [Next]_vars PROVE IInv'
  OBVIOUS
<1>0. /\ My.ok \in 1 .. 599 /\ (UNCHANGED request => My' = My)
      /\ error \in Error \cup {"none"} /\ broke \in BOOLEAN /\ raced \in BOOLEAN
  BY MyTypes DEF IInv, TypeOK, My, request
<1>1. CASE Authenticate
  <2>1. CASE UNCHANGED error
    BY <1>0, <1>1, <2>1, Unanswered DEF Authenticate, Goes, Throws, Cause, Stages, request
  <2>2. CASE \E e \in Error : Throws("guard", e) /\ broke' \in BOOLEAN /\ raced' = raced
                             /\ (wrong # {} \/ broke')
    BY <1>0, <2>2, Unanswered DEF Throws, Cause, Stages, request
  <2> QED
    BY <1>0, <1>1, <2>1, <2>2, NamedErrors DEF Authenticate, Goes
<1>2. CASE Authorize
  BY <1>0, <1>2, NamedErrors, Unanswered DEF Authorize, Goes, Throws, Cause, Stages, request
<1>3. CASE Validate
  BY <1>0, <1>3, NamedErrors, Unanswered DEF Validate, Goes, Throws, Cause, Stages, request
<1>4. CASE Work
  <2> DEFINE s == My.does[at]
  <2>1. s \in Statement /\ at + 1 \in 1 .. Len(My.does) + 1 /\ stage = "work"
    BY <1>4, NextStatement DEF Work, IInv, TypeOK
  <2>2. ASSUME Passes, broke' \in BOOLEAN, raced' \in BOOLEAN PROVE IInv'
    <3>1. at' \in 1 .. Len(My'.does) + 1
      BY <1>0, <2>1, <2>2 DEF Passes
    <3>2. status' \in 0 .. 599 /\ (status' = 0 <=> stage' # "done")
      BY <2>2 DEF Passes, IInv, TypeOK
    <3> QED
      BY <2>1, <2>2, <3>1, <3>2 DEF Passes, IInv, TypeOK, Thrown, request
  <2>3. ASSUME NEW e \in Error, Throws("work", e), broke' \in BOOLEAN, raced' \in BOOLEAN,
               wrong # {} \/ broke' \/ raced'
        PROVE  IInv'
    BY <1>0, <2>1, <2>3, Unanswered DEF Throws, Cause, Stages, request
  <2>4. s.says \in Error \cup {"none"} /\ s.broken \in Error \cup {"none", "never"}
    BY <2>1 DEF Statement
  <2>5. s.asks = "conflict" => s.says # "none"
    BY <1>4, NextStatement DEF Work, IInv, TypeOK
  <2> QED
    BY <1>0, <1>4, <2>2, <2>3, <2>4, <2>5 DEF Work
<1>5. CASE Answer
  BY <1>0, <1>5, Answered DEF Answer
<1>6. CASE Catch
  <2>1. error \in Error /\ Cause /\ AuthCatch(error) \in Error /\ UserStrategy(error) \in Error
    BY <1>6, CaughtIsError DEF Catch, IInv, Thrown
  <2>2. CASE My.wraps = "all"
    BY <1>0, <1>6, <2>1, <2>2, Answered DEF Catch
  <2>3. CASE My.wraps # "all"
    BY <1>0, <1>6, <2>1, <2>3, Unanswered DEF Catch, Cause, Stages, request
  <2> QED
    BY <2>2, <2>3
<1>7. CASE Filter
  <2>1. StatusOf(error) \in 1 .. 599 /\ Cause
    BY <1>7, StatusInRange DEF Filter, IInv, Thrown
  <2> QED
    BY <1>7, <2>1, Answered DEF Filter
<1>8. CASE UNCHANGED vars
  BY <1>8 DEF vars, IInv, TypeOK, Thrown, Cause, My, request
<1> QED
  BY <1>1, <1>2, <1>3, <1>4, <1>5, <1>6, <1>7, <1>8 DEF Next

LEMMA InductiveInvariant == Spec => []IInv
<1>1. QED
  BY InitIInv, NextIInv, PTL DEF Spec

(* Whatever the table of endpoints says, every request gets one status of  *)
(* at most 599, and none before its handling has ended: every error that a *)
(* guard, a pipe, a statement or a catch clause throws has a status.       *)
THEOREM TypeCorrect == Spec => []TypeOK
<1>1. IInv => TypeOK
  BY DEF IInv
<1> QED
  BY <1>1, InductiveInvariant, PTL

\* A request with nothing wrong, which nothing failed or came in between.
Faultless == wrong = {} /\ ~broke /\ ~raced

(* Whatever the table of endpoints says, only a pipe that knows less than  *)
(* is documented keeps a faultless request from its success: no guard,     *)
(* catch clause or filter does.                                            *)
THEOREM FaultlessServed ==
    Spec => [](stage = "done" /\ Faultless /\ variant \notin My.refuses => status = My.ok)
<1>1. IInv => (stage = "done" /\ Faultless /\ variant \notin My.refuses => status = My.ok)
  BY DEF IInv, Thrown, Cause, Faultless
<1> QED
  BY <1>1, InductiveInvariant, PTL

-----------------------------------------------------------------------------
(* Where an answer comes from                                              *)

\* What a catch clause w makes of an error.
Caught(w, e) ==
    CASE w = "auth" -> AuthCatch(e)
      [] w = "user" -> UserStrategy(e)
      [] OTHER -> e

\* A statement of the handler throws e, for a fault, a race or a failure.
ByHandler(e) == \E i \in DOMAIN My.does :
    \/ e = My.does[i].says /\ e # "none" /\ My.does[i].asks \in wrong
    \/ e = My.does[i].says /\ My.does[i].asks = "conflict" /\ raced
    \/ e = My.does[i].broken /\ e \in Error /\ broke

\* A guard or a pipe throws e.
ByGate(e) ==
    \/ e \in {"UnauthorizedException", "InvalidJwtTokenError"} /\ wrong \cap TokenFault # {}
    \/ e = "ForbiddenException" /\ "notAdmin" \in wrong
    \/ e = "BadRequestException"
       /\ (variant \in My.refuses \/ (My.validates /\ "malformed" \in wrong))
    \/ e = "Error" /\ broke

\* What the guards, then the pipes, have let through.
Guarded ==
    /\ My.needs # "nobody" => wrong \cap TokenFault = {}
    /\ My.needs = "admin" => "notAdmin" \notin wrong

Through ==
    Guarded /\ variant \notin My.refuses /\ ~(My.validates /\ "malformed" \in wrong)

\* What reaches the filter.
Filtered(e) ==
    \/ ByGate(e)
    \/ My.wraps # "all" /\ Through /\ \E d \in Error : ByHandler(d) /\ e = Caught(My.wraps, d)

\* The statements before the next one found nothing to throw.
Run ==
    /\ \A i \in 1 .. at - 1 :
          \/ My.does[i].asks \notin wrong \/ My.does[i].says = "none"
          \/ My.does[i].broken = "none" /\ broke
    /\ broke => \E i \in DOMAIN My.does : My.does[i].broken = "none"

Course ==
    /\ wrong \subseteq Meets(endpoint)
    /\ stage \in {"guard", "role", "pipe"} => ~broke /\ at = 1
    /\ stage = "role" => My.needs # "nobody" /\ wrong \cap TokenFault = {}
    /\ stage = "pipe" => Guarded
    /\ stage = "work" => Through /\ Run
    /\ stage = "catch" => Through /\ ByHandler(error)
    /\ stage = "filter" => Filtered(error)
    /\ stage = "done" =>
          \/ status = StatusOf(error) /\ Filtered(error)
          \/ status = My.ok /\ My.wraps = "all" /\ Through
          \/ status = My.ok /\ Through /\ Run /\ at = Len(My.does) + 1

LEMMA InitCourse == Init => Course
<1> SUFFICES ASSUME Init PROVE Course
  OBVIOUS
<1>1. wrong \subseteq Meets(endpoint) /\ stage = "guard" /\ ~broke /\ at = 1
  BY DEF Init
<1> QED
  BY <1>1 DEF Course

LEMMA NextCourse == IInv /\ Course /\ [Next]_vars => Course'
<1> SUFFICES ASSUME IInv, Course, [Next]_vars PROVE Course'
  OBVIOUS
<1>0. /\ endpoint' = endpoint /\ wrong' = wrong /\ variant' = variant
      /\ My' = My /\ (wrong \subseteq Meets(endpoint))' /\ Guarded' = Guarded /\ Through' = Through
  <2>1. UNCHANGED request
    BY DEF Next, vars, Authenticate, Authorize, Validate, Work, Answer, Catch, Filter,
           Goes, Throws, Passes
  <2> QED
    BY <2>1 DEF request, My, Course, Meets, Guarded, Through
<1>1. CASE Authenticate
  BY <1>0, <1>1 DEF Authenticate, Goes, Throws, Course, Filtered, ByGate, Guarded, TokenFault
<1>2. CASE Authorize
  BY <1>0, <1>2 DEF Authorize, Goes, Throws, Course, Filtered, ByGate, Guarded
<1>3. CASE Validate
  <2>1. CASE stage' = "work"
    BY <1>0, <1>3, <2>1 DEF Validate, Goes, Throws, Course, Through, Run
  <2>2. CASE stage' = "filter"
    BY <1>0, <1>3, <2>2 DEF Validate, Goes, Throws, Course, Filtered, ByGate
  <2> QED
    BY <1>3, <2>1, <2>2 DEF Validate, Goes, Throws
<1>4. CASE Work
  <2> DEFINE s == My.does[at]
  <2>1. at \in DOMAIN My.does /\ stage = "work" /\ Through /\ Run /\ at \in Nat \ {0}
    BY <1>4, MyTypes DEF Work, IInv, TypeOK, Course
  <2>2. ASSUME Passes, broke => broke',
               s.asks \notin wrong \/ s.says = "none" \/ (s.broken = "none" /\ broke'),
               broke' => broke \/ s.broken = "none"
        PROVE  Course'
    <3>1. at' = at + 1 /\ stage' = "work"
      BY <2>1, <2>2 DEF Passes
    <3>2. \A i \in 1 .. at' - 1 : i \in 1 .. at - 1 \/ i = at
      BY <2>1, <3>1
    <3>3. Run'
      BY <1>0, <2>1, <2>2, <3>1, <3>2 DEF Run
    <3> QED
      BY <1>0, <2>1, <3>1, <3>3 DEF Course
  <2>3. ASSUME NEW e, Throws("work", e), ByHandler(e)' PROVE Course'
    BY <1>0, <2>3 DEF Throws, Course
  <2>4. s.says \in Error \cup {"none"} /\ "none" \notin Error
        /\ (s.asks = "conflict" => s.says # "none")
    BY <1>4, NextStatement DEF Work, IInv, TypeOK, Statement, Error, AuthStatus, ProjectStatus,
       UserStatus, NestStatus, ChatError
  <2>5. CASE (s.asks \notin wrong \/ s.says = "none") /\ Passes /\ UNCHANGED <<broke, raced>>
    BY <2>2, <2>5
  <2>6. CASE /\ s.asks \in wrong /\ s.says # "none"
             /\ Throws("work", s.says) /\ UNCHANGED <<broke, raced>>
    <3>1. PICK e : e = s.says
      OBVIOUS
    <3>2. e \in Error
      BY <2>1, <2>6, <2>4, <3>1
    <3>3. ByHandler(e)'
      BY <1>0, <2>1, <2>6, <3>1, <3>2 DEF ByHandler
    <3> QED
      BY <2>3, <2>6, <3>1, <3>3
  <2>7. CASE s.asks = "conflict" /\ Throws("work", s.says) /\ raced' = TRUE /\ UNCHANGED broke
    <3>1. PICK e : e = s.says
      OBVIOUS
    <3>2. e \in Error
      BY <2>1, <2>7, <2>4, <3>1
    <3>3. ByHandler(e)'
      BY <1>0, <2>1, <2>7, <3>1, <3>2 DEF ByHandler
    <3> QED
      BY <2>3, <2>7, <3>1, <3>3
  <2>8. CASE s.broken = "none" /\ Passes /\ broke' = TRUE /\ UNCHANGED raced
    BY <2>2, <2>8
  <2>9. CASE s.broken \in Error /\ Throws("work", s.broken) /\ broke' = TRUE /\ UNCHANGED raced
    <3>1. PICK e : e = s.broken
      OBVIOUS
    <3>2. e \in Error
      BY <2>1, <2>9, <2>4, <3>1
    <3>3. ByHandler(e)'
      BY <1>0, <2>1, <2>9, <3>1, <3>2 DEF ByHandler
    <3> QED
      BY <2>3, <2>9, <3>1, <3>3
  <2> QED
    BY <1>4, <2>5, <2>6, <2>7, <2>8, <2>9 DEF Work
<1>5. CASE Answer
  <2>1. stage' = "done" /\ status' = My.ok /\ UNCHANGED <<at, broke>> /\ at = Len(My.does) + 1
        /\ Through /\ Run
    BY <1>5 DEF Answer, Course
  <2> QED
    BY <1>0, <2>1 DEF Course, Run
<1>6. CASE Catch
  <2>1. Through /\ ByHandler(error) /\ error \in Error /\ UNCHANGED <<at, broke, raced>>
    BY <1>6 DEF Catch, Course, IInv, Thrown
  <2>2. \A d : ByHandler(d)' <=> ByHandler(d)
    BY <1>0, <2>1 DEF ByHandler
  <2>3. CASE My.wraps = "all"
    BY <1>0, <1>6, <2>1, <2>3 DEF Catch, Course
  <2>4. CASE My.wraps # "all"
    <3>1. stage' = "filter" /\ error' = Caught(My.wraps, error)
      BY <1>6, <2>4 DEF Catch, Caught
    <3>2. Filtered(error)'
      BY <1>0, <2>1, <2>2, <2>4, <3>1 DEF Filtered, Caught, AuthCatch, UserStrategy
    <3> QED
      BY <1>0, <3>1, <3>2 DEF Course
  <2> QED
    BY <2>3, <2>4
<1>7. CASE Filter
  <2>1. UNCHANGED <<error, broke, raced>> /\ status' = StatusOf(error) /\ stage' = "done"
    BY <1>7 DEF Filter
  <2>2. Filtered(error)
    BY <1>7 DEF Filter, Course
  <2>3. Filtered(error)'
    BY <1>0, <2>1, <2>2 DEF Filtered, ByGate, ByHandler, Caught, AuthCatch, UserStrategy
  <2> QED
    BY <1>0, <2>1, <2>3 DEF Course, StatusOf
<1>8. CASE UNCHANGED vars
  <2>1. UNCHANGED <<endpoint, wrong, variant, stage, at, error, status, broke, raced>>
    BY <1>8 DEF vars, request
  <2>2. Run' = Run /\ ByHandler(error)' = ByHandler(error) /\ Filtered(error)' = Filtered(error)
    BY <1>0, <2>1 DEF Run, ByHandler, Filtered, ByGate, Caught, AuthCatch, UserStrategy
  <2> QED
    BY <1>0, <2>1, <2>2 DEF Course, StatusOf
<1> QED
  BY <1>1, <1>2, <1>3, <1>4, <1>5, <1>6, <1>7, <1>8 DEF Next

-----------------------------------------------------------------------------
(* What the table has to say for its answers to be as documented           *)

LEMMA StatusTable ==
    /\ \A e \in {"Error", "P2002", "P2025"} \cup ChatError : StatusOf(e) = 500
    /\ \A e \in DOMAIN AuthStatus : StatusOf(e) = AuthStatus[e]
    /\ \A e \in DOMAIN ProjectStatus : StatusOf(e) = ProjectStatus[e]
    /\ \A e \in DOMAIN UserStatus : StatusOf(e) = UserStatus[e]
    /\ \A e \in DOMAIN NestStatus : StatusOf(e) = NestStatus[e]
BY DEF StatusOf, AuthStatus, ProjectStatus, UserStatus, NestStatus, ChatError

\* A status x that an endpoint n with row R may answer.
Said(n, R, x) == x \in R.documented \cup {500} \/ <<n, x>> \in Undocumented

\* Status x tells of fault f, or is known not to.
Owned(n, f, x) == (x \in DOMAIN Tells /\ f \in Tells[x]) \/ (x >= 500 /\ <<n, f>> \in Unspoken)

\* Status x when a service fails is a server error, or known not to be.
Admits(n, x) == x >= 500 \/ (x = 404 /\ n \in CallsMissing) \/ (x = 403 /\ n \in CallsForbidden)

\* What a statement s of n may throw and swallow.
Fair(n, R, s) ==
    /\ s.asks \in Fault /\ (s.says = "none" \/ R.wraps = "all") => <<n, s.asks>> \in Overlooked
    /\ s.broken = "none" => n \in Covers
    /\ s.broken = "none" /\ s.asks \in Fault =>
          <<n, s.asks>> \in Overlooked \/ (s.asks = "spam" /\ n \in Messaging)
    /\ s.says # "none" /\ R.wraps # "all" =>
          /\ Said(n, R, StatusOf(Caught(R.wraps, s.says)))
          /\ s.asks \in Fault => Owned(n, s.asks, StatusOf(Caught(R.wraps, s.says)))
    /\ s.broken \in Error /\ R.wraps # "all" =>
          /\ Said(n, R, StatusOf(Caught(R.wraps, s.broken)))
          /\ Admits(n, StatusOf(Caught(R.wraps, s.broken)))

AllFair(n, R, does) == \A i \in DOMAIN does : Fair(n, R, does[i])

Honest(n, R) ==
    /\ Said(n, R, R.ok)
    /\ R.wraps = "all" => n \in Covers
    /\ R.refuses = Variant \/ AllFair(n, R, R.does)

HonestTable == \A n \in Endpoint : Honest(n, Api[n])

\* The statuses of the classes that the statements throw.
LEMMA Statuses ==
    /\ StatusOf("Error") = 500 /\ StatusOf("P2025") = 500 /\ StatusOf("P2002") = 500
    /\ StatusOf("AuthUserNotFoundError") = 404 /\ StatusOf("WeakPasswordError") = 400
    /\ StatusOf("InvalidCredentialsError") = 401 /\ StatusOf("InvalidRefreshTokenError") = 401
    /\ StatusOf("InvalidResetTokenError") = 400 /\ StatusOf("EmailAlreadyExistsError") = 409
    /\ StatusOf("GeneralAuthError") = 500
    /\ StatusOf("ProjectNotFoundError") = 404 /\ StatusOf("ProjectAlreadyExistsError") = 409
    /\ StatusOf("ProjectAccessDeniedError") = 403 /\ StatusOf("InvalidProjectNameError") = 400
    /\ StatusOf("InvalidProjectUniqueIdError") = 400 /\ StatusOf("ProjectCreationError") = 500
    /\ StatusOf("ProjectUpdateError") = 500 /\ StatusOf("ProjectDeletionError") = 500
    /\ StatusOf("UserNotFoundError") = 404 /\ StatusOf("UserAlreadyExistsError") = 409
    /\ StatusOf("UserOperationFailedError") = 500
    /\ StatusOf("ForbiddenException") = 403 /\ StatusOf("NotFoundException") = 404
    /\ StatusOf("BadRequestException") = 400
    /\ StatusOf("ChatAccessDeniedError") = 500 /\ StatusOf("ChatInactiveError") = 500
    /\ StatusOf("InvalidMessageContentError") = 500 /\ StatusOf("MessageSpamError") = 500
BY StatusTable DEF AuthStatus, ProjectStatus, UserStatus, NestStatus, ChatError

\* What needs no look at the endpoint.
LEMMA Told ==
    \A n : /\ Owned(n, "unknown", 404) /\ Owned(n, "unknownPerson", 404)
           /\ Owned(n, "unknown", 403) /\ Owned(n, "notMine", 403)
           /\ Owned(n, "badNumber", 403) /\ Owned(n, "badNumber", 404)
           /\ Owned(n, "badPassword", 401) /\ Owned(n, "badToken", 401)
           /\ Owned(n, "badName", 400) /\ Owned(n, "badUniqueId", 400) /\ Owned(n, "taken", 400)
           /\ Owned(n, "weakPassword", 400) /\ Owned(n, "badToken", 400)
           /\ Owned(n, "taken", 409)
<1>1. DOMAIN Tells = {400, 401, 403, 404, 409}
      /\ Tells[400] = {"malformed", "badName", "badUniqueId", "weakPassword", "badToken", "taken"}
      /\ Tells[401] = TokenFault \cup {"badPassword", "badToken"}
      /\ Tells[403] = {"notAdmin", "notMine", "unknown", "badNumber"}
      /\ Tells[404] = {"unknown", "unknownPerson", "badNumber"} /\ Tells[409] = {"taken"}
  BY DEF Tells
<1> QED
  BY <1>1 DEF Owned

LEMMA Plain ==
    /\ "nothing" \notin Fault /\ "conflict" \notin Fault
    /\ "none" \notin Error /\ "never" \notin Error
    /\ \A n : Admits(n, 500)
<1>1. "nothing" \notin Fault /\ "conflict" \notin Fault
  BY DEF Fault, TokenFault
<1>2. "none" \notin Error /\ "never" \notin Error
  BY DEF Error, AuthStatus, ProjectStatus, UserStatus, NestStatus, ChatError
<1> QED
  BY <1>1, <1>2 DEF Admits

\* The faults answered 500, where the list of them says so.
LEMMA Untold ==
    /\ \A n \in {"getChatById", "getMessages", "getMessagesMobile", "createMessage",
                 "createMessageMobile", "markChatAsRead", "deactivateChat"} :
          \A f \in {"badNumber", "unknown", "notMine", "closed", "badContent", "spam"} :
             Owned(n, f, 500)
    /\ \A n \in {"getChats", "getProjectChats", "createOrGetChat", "getParticipantById",
                 "deleteParticipant"} : Owned(n, "badNumber", 500)
    /\ \A n \in {"getChats", "getProjectChats", "getMessages", "getMessagesMobile",
                 "getProjectParticipants", "getAllUsers"} : Owned(n, "badPage", 500)
    /\ Owned("createOrGetChat", "unknown", 500) /\ Owned("createOrGetChatMobile", "unknown", 500)
    /\ Owned("createParticipant", "emailTaken", 500)
    /\ Owned("createParticipantMobile", "emailTaken", 500)
    /\ \A f \in {"noEmail", "noPassword", "noName"} : Owned("register", f, 500)
BY DEF Owned, Unspoken, InOneChat, Messaging

\* What the users' service makes of the errors of its statements.
LEMMA Wraps ==
    /\ UserStrategy("UserNotFoundError") = "UserNotFoundError"
    /\ UserStrategy("UserAlreadyExistsError") = "UserAlreadyExistsError"
    /\ UserStrategy("P2002") = "UserAlreadyExistsError"
    /\ UserStrategy("P2025") = "UserNotFoundError"
    /\ UserStrategy("Error") = "UserOperationFailedError"
    /\ UserStrategy("PasswordChangeTokenInvalidError") = "UserOperationFailedError"
    /\ \A n \in {"getUserById", "updateUserByAdmin", "deleteUser"} :
          Owned(n, "badNumber", 500) /\ Owned(n, "ownsProjects", 500)
    /\ Owned("confirmPasswordChange", "badToken", 500)
BY DEF UserStrategy, Owned, Unspoken

\* What a statement has to have to be fair, where nothing is caught.
LEMMA Statements ==
    ASSUME NEW n, NEW R, R.wraps = "nothing"
    PROVE  /\ Fair(n, R, Read("Error"))
           /\ \A e \in {"P2002", "P2025", "Error"}, b \in {"Error", "never"} : Fair(n, R, Conflict(e, b))
           /\ \A f, e : Owned(n, f, 500) /\ e \in ChatError \cup {"Error"} => Fair(n, R, Check(f, e))
           /\ \A f : Owned(n, f, 500) => Fair(n, R, Ask(f, "Error", "Error"))
           /\ \A f : <<n, f>> \in Overlooked => Fair(n, R, Check(f, "none"))
           /\ Said(n, R, 404) => Fair(n, R, FindMember)
           /\ Said(n, R, 404) /\ Admits(n, 404) =>
                 /\ Fair(n, R, FindProject)
                 /\ Fair(n, R, Conflict("ProjectNotFoundError", "ProjectNotFoundError"))
           /\ Said(n, R, 403) =>
                 /\ Fair(n, R, Check("notMine", "ForbiddenException"))
                 /\ Fair(n, R, Check("badNumber", "ForbiddenException"))
           /\ Said(n, R, 403) /\ Admits(n, 403) =>
                 /\ Fair(n, R, Conflict("ForbiddenException", "ForbiddenException"))
                 /\ Fair(n, R, Ask("unknown", "ForbiddenException", "ForbiddenException"))
           /\ Said(n, R, 400) => Fair(n, R, Ask("taken", "BadRequestException", "Error"))
           /\ Owned(n, "emailTaken", 500) => Fair(n, R, Ask("emailTaken", "P2002", "Error"))
           /\ n \in Covers \cap Messaging /\ Owned(n, "spam", 500) => Fair(n, R, NotSpam)
<1> USE Statuses, Told, Plain DEF Fair, Caught, Ask, Check, Conflict, Read
<1>0. Said(n, R, 500)
  BY DEF Said
<1>1. Fair(n, R, Read("Error"))
  BY <1>0
<1>2. \A e \in {"P2002", "P2025", "Error"}, b \in {"Error", "never"} : Fair(n, R, Conflict(e, b))
  BY <1>0
<1>3. ASSUME NEW f, NEW e \in ChatError \cup {"Error"}, Owned(n, f, 500) PROVE Fair(n, R, Check(f, e))
  <2>1. StatusOf(e) = 500 /\ e # "none"
    BY StatusTable DEF ChatError
  <2> QED
    BY <1>0, <1>3, <2>1
<1>4. ASSUME NEW f, Owned(n, f, 500) PROVE Fair(n, R, Ask(f, "Error", "Error"))
  BY <1>0, <1>4
<1>5. ASSUME NEW f, <<n, f>> \in Overlooked PROVE Fair(n, R, Check(f, "none"))
  BY <1>5
<1>6. Said(n, R, 404) => Fair(n, R, FindMember)
  BY <1>0 DEF FindMember
<1>7. Said(n, R, 404) /\ Admits(n, 404) =>
         /\ Fair(n, R, FindProject)
         /\ Fair(n, R, Conflict("ProjectNotFoundError", "ProjectNotFoundError"))
  BY <1>0 DEF FindProject
<1>8. Said(n, R, 403) =>
         /\ Fair(n, R, Check("notMine", "ForbiddenException"))
         /\ Fair(n, R, Check("badNumber", "ForbiddenException"))
  BY <1>0
<1>9. Said(n, R, 403) /\ Admits(n, 403) =>
         /\ Fair(n, R, Conflict("ForbiddenException", "ForbiddenException"))
         /\ Fair(n, R, Ask("unknown", "ForbiddenException", "ForbiddenException"))
  BY <1>0
<1>10. Said(n, R, 400) => Fair(n, R, Ask("taken", "BadRequestException", "Error"))
  BY <1>0
<1>11. Owned(n, "emailTaken", 500) => Fair(n, R, Ask("emailTaken", "P2002", "Error"))
  BY <1>0
<1>12. n \in Covers \cap Messaging /\ Owned(n, "spam", 500) => Fair(n, R, NotSpam)
  BY <1>0 DEF NotSpam
<1> QED
  BY <1>1, <1>2, <1>3, <1>4, <1>5, <1>6, <1>7, <1>8, <1>9, <1>10, <1>11, <1>12

\* The statements of the handlers that begin by looking for a chat.
LEMMA ChatStatements ==
    ASSUME NEW n \in InOneChat, NEW R, R.wraps = "nothing"
    PROVE  /\ Fair(n, R, Check("badNumber", "Error")) /\ Fair(n, R, Ask("unknown", "Error", "Error"))
           /\ Fair(n, R, Check("notMine", "ChatAccessDeniedError"))
           /\ Fair(n, R, Check("closed", "ChatInactiveError")) /\ Fair(n, R, ValidContent)
<1>1. /\ Owned(n, "badNumber", 500) /\ Owned(n, "unknown", 500) /\ Owned(n, "notMine", 500)
      /\ Owned(n, "closed", 500) /\ Owned(n, "badContent", 500)
  BY Untold DEF InOneChat, Messaging
<1>2. \A f, e : Owned(n, f, 500) /\ e \in ChatError \cup {"Error"} => Fair(n, R, Check(f, e))
  BY Statements
<1>3. Fair(n, R, Check("notMine", "ChatAccessDeniedError"))
  BY <1>1, <1>2 DEF ChatError
<1>4. Fair(n, R, Check("closed", "ChatInactiveError")) /\ Fair(n, R, ValidContent)
  BY <1>1, <1>2 DEF ChatError, ValidContent
<1>5. Fair(n, R, Check("badNumber", "Error")) /\ Fair(n, R, Ask("unknown", "Error", "Error"))
  BY <1>1, <1>2, Statements
<1> QED
  BY <1>3, <1>4, <1>5

LEMMA AuthRows ==
    /\ Honest("login", Login)
    /\ Honest("refresh", Refresh)
    /\ Honest("logout", Logout)
    /\ Honest("requestReset", RequestReset)
    /\ Honest("resetPassword", ResetPassword)
    /\ Honest("register", Register)
<1> USE Statuses, Told, Plain DEF Honest, AllFair, Fair, Said, Caught, Serves, Ask, Check,
       Conflict, Read
<1>1. Honest("login", Login)
  <2>1. /\ AuthCatch("AuthUserNotFoundError") = "AuthUserNotFoundError"
        /\ AuthCatch("InvalidCredentialsError") = "InvalidCredentialsError"
        /\ AuthCatch("Error") = "GeneralAuthError" /\ AuthCatch("P2025") = "GeneralAuthError"
    BY DEF AuthCatch, AuthStatus
  <2>2. <<"login", 404>> \in Undocumented
    BY DEF Undocumented
  <2> QED
    BY <2>1, <2>2 DEF Login, Wrapped, WriteToken
<1>2. Honest("refresh", Refresh)
  BY DEF Refresh, WriteToken
<1>3. Honest("logout", Logout)
  BY DEF Logout, Unvalidated, WriteToken
<1>4. Honest("requestReset", RequestReset)
  BY DEF RequestReset, Wrapped, Overlooked, Covers
<1>5. Honest("resetPassword", ResetPassword)
  BY DEF ResetPassword, Strong
<1>6. Honest("register", Register)
  <2>1. <<"register", "badEmail">> \in Overlooked /\ "register" \in Covers
        /\ <<"register", 409>> \in Undocumented
    BY DEF Overlooked, Covers, Undocumented
  <2> QED
    BY <2>1, Untold DEF Register, Unvalidated, Strong, WriteToken
<1> HIDE DEF Honest
<1> QED
  BY <1>1, <1>2, <1>3, <1>4, <1>5, <1>6

LEMMA ProjectRows ==
    /\ Honest("createProject", CreateProject)
    /\ Honest("getProjectById", GetProjectById)
    /\ Honest("getProjectByUniqueId", GetProjectByUniqueId)
    /\ Honest("getUserProjects", GetUserProjects)
    /\ Honest("updateProject", UpdateProject)
    /\ Honest("deleteProject", DeleteProject)
    /\ Honest("checkUniqueIdAvailability", CheckUniqueIdAvailability)
<1> USE Statuses, Told, Plain DEF Honest, AllFair, Fair, Said, Caught, Serves, Ask, Check,
       Conflict, Read
<1>1. Honest("createProject", CreateProject)
  BY DEF CreateProject, ValidName
<1>2. Honest("getProjectById", GetProjectById)
  BY DEF GetProjectById, Numbered, FindProject, OwnProject, Admits, CallsMissing
<1>3. Honest("getProjectByUniqueId", GetProjectByUniqueId)
  BY DEF GetProjectByUniqueId, Unvalidated, FindProject, OwnProject, Admits, CallsMissing
<1>4. Honest("getUserProjects", GetUserProjects)
  BY DEF GetUserProjects, Admits, CallsMissing, Undocumented, Covers
<1>5. Honest("updateProject", UpdateProject)
  BY DEF UpdateProject, Refusing, Numbered, FindProject, OwnProject, ValidName, Admits, CallsMissing
<1>6. Honest("deleteProject", DeleteProject)
  BY DEF DeleteProject, Numbered, FindProject, OwnProject, Admits, CallsMissing
<1>7. Honest("checkUniqueIdAvailability", CheckUniqueIdAvailability)
  BY DEF CheckUniqueIdAvailability, Unvalidated, ValidUid, Covers
<1> HIDE DEF Honest
<1> QED
  BY <1>1, <1>2, <1>3, <1>4, <1>5, <1>6, <1>7

LEMMA ParticipantRows ==
    /\ Honest("createParticipant", CreateParticipant)
    /\ Honest("createParticipantMobile", CreateParticipantMobile)
    /\ Honest("getProjectParticipants", GetProjectParticipants)
    /\ Honest("getParticipantById", GetParticipantById)
    /\ Honest("deleteParticipant", DeleteParticipant)
<1>1. Honest("createParticipant", CreateParticipant)
  <2> DEFINE R == CreateParticipant
  <2>1. R.wraps = "nothing" /\ R.ok = 201 /\ R.documented = {201, 400, 401}
    BY DEF CreateParticipant, Serves
  <2>2. ASSUME NEW i \in DOMAIN R.does
        PROVE  R.does[i] \in
          {FindProject, Conflict("ForbiddenException", "ForbiddenException"),
           Check("notMine", "ForbiddenException"), Ask("taken", "BadRequestException", "Error"),
           Ask("emailTaken", "P2002", "Error"), Conflict("P2002", "Error")}
    BY DEF CreateParticipant, Serves, VerifyOwnerAgain, Enrol
  <2> HIDE DEF R
  <2>3. Said("createParticipant", R, 201) /\ Said("createParticipant", R, 400) /\
        Said("createParticipant", R, 403) /\ Said("createParticipant", R, 404) /\
        Admits("createParticipant", 403) /\ Admits("createParticipant", 404)
    BY <2>1 DEF Said, Undocumented, Admits, CallsMissing, CallsForbidden
  <2>4. Fair("createParticipant", R, FindProject) /\
        Fair("createParticipant", R, Conflict("ForbiddenException", "ForbiddenException")) /\
        Fair("createParticipant", R, Check("notMine", "ForbiddenException")) /\
        Fair("createParticipant", R, Ask("taken", "BadRequestException", "Error")) /\
        Fair("createParticipant", R, Ask("emailTaken", "P2002", "Error")) /\
        Fair("createParticipant", R, Conflict("P2002", "Error"))
    BY <2>1, <2>3, Statements, Untold
  <2> QED
    BY <2>1, <2>2, <2>3, <2>4 DEF Honest, AllFair, R
<1>2. Honest("createParticipantMobile", CreateParticipantMobile)
  <2> DEFINE R == CreateParticipantMobile
  <2>1. R.wraps = "nothing" /\ R.ok = 201 /\ R.documented = {201, 400}
    BY DEF CreateParticipantMobile, Serves
  <2>2. ASSUME NEW i \in DOMAIN R.does
        PROVE  R.does[i] \in
          {FindProject, Ask("taken", "BadRequestException", "Error"),
           Ask("emailTaken", "P2002", "Error"), Conflict("P2002", "Error")}
    BY DEF CreateParticipantMobile, Serves, Enrol
  <2> HIDE DEF R
  <2>3. Said("createParticipantMobile", R, 201) /\ Said("createParticipantMobile", R, 400) /\
        Said("createParticipantMobile", R, 404) /\ Admits("createParticipantMobile", 404)
    BY <2>1 DEF Said, Undocumented, Admits, CallsMissing
  <2>4. Fair("createParticipantMobile", R, FindProject) /\
        Fair("createParticipantMobile", R, Ask("taken", "BadRequestException", "Error")) /\
        Fair("createParticipantMobile", R, Ask("emailTaken", "P2002", "Error")) /\
        Fair("createParticipantMobile", R, Conflict("P2002", "Error"))
    BY <2>1, <2>3, Statements, Untold
  <2> QED
    BY <2>1, <2>2, <2>3, <2>4 DEF Honest, AllFair, R
<1>3. Honest("getProjectParticipants", GetProjectParticipants)
  <2> DEFINE R == GetProjectParticipants
  <2>1. R.wraps = "nothing" /\ R.ok = 200 /\ R.documented = {200, 401}
    BY DEF GetProjectParticipants, Serves
  <2>2. ASSUME NEW i \in DOMAIN R.does
        PROVE  R.does[i] \in
          {Check("badNumber", Ask("unknown", "ForbiddenException", "ForbiddenException").broken),
           Ask("unknown", "ForbiddenException", "ForbiddenException"),
           Check("notMine", "ForbiddenException"), Check("badPage", "Error"), Read("Error")}
    BY DEF GetProjectParticipants, Serves, VerifyOwner, Numbered, Page
  <2> HIDE DEF R
  <2>3. Said("getProjectParticipants", R, 200) /\ Said("getProjectParticipants", R, 403) /\
        Admits("getProjectParticipants", 403)
    BY <2>1 DEF Said, Undocumented, Admits, CallsForbidden
  <2>4. Fair("getProjectParticipants", R, Check("badNumber", "ForbiddenException")) /\
        Fair("getProjectParticipants", R, Ask("unknown", "ForbiddenException", "ForbiddenException")) /\
        Fair("getProjectParticipants", R, Check("notMine", "ForbiddenException")) /\
        Fair("getProjectParticipants", R, Check("badPage", "Error")) /\
        Fair("getProjectParticipants", R, Read("Error"))
    BY <2>1, <2>3, Statements, Untold
  <2> QED
    BY <2>1, <2>2, <2>3, <2>4 DEF Honest, AllFair, R, Ask, FindMember
<1>4. Honest("getParticipantById", GetParticipantById)
  <2> DEFINE R == GetParticipantById
  <2>1. R.wraps = "nothing" /\ R.ok = 200 /\ R.documented = {200, 401, 404}
    BY DEF GetParticipantById, Serves
  <2>2. ASSUME NEW i \in DOMAIN R.does
        PROVE  R.does[i] \in
          {Check("badNumber", FindMember.broken), FindMember,
           Conflict("ForbiddenException", "ForbiddenException"),
           Check("notMine", "ForbiddenException")}
    BY DEF GetParticipantById, Serves, Numbered, VerifyOwnerAgain
  <2> HIDE DEF R
  <2>3. Said("getParticipantById", R, 200) /\ Said("getParticipantById", R, 403) /\
        Said("getParticipantById", R, 404) /\ Admits("getParticipantById", 403)
    BY <2>1 DEF Said, Undocumented, Admits, CallsForbidden
  <2>4. Fair("getParticipantById", R, Check("badNumber", "Error")) /\
        Fair("getParticipantById", R, FindMember) /\
        Fair("getParticipantById", R, Conflict("ForbiddenException", "ForbiddenException")) /\
        Fair("getParticipantById", R, Check("notMine", "ForbiddenException"))
    BY <2>1, <2>3, Statements, Untold
  <2> QED
    BY <2>1, <2>2, <2>3, <2>4 DEF Honest, AllFair, R, Ask, FindMember
<1>5. Honest("deleteParticipant", DeleteParticipant)
  <2> DEFINE R == DeleteParticipant
  <2>1. R.wraps = "nothing" /\ R.ok = 204 /\ R.documented = {204, 401, 404}
    BY DEF DeleteParticipant, Serves
  <2>2. ASSUME NEW i \in DOMAIN R.does
        PROVE  R.does[i] \in
          {Check("badNumber", FindMember.broken), FindMember,
           Conflict("ForbiddenException", "ForbiddenException"),
           Check("notMine", "ForbiddenException"), Conflict("P2025", "Error")}
    BY DEF DeleteParticipant, Serves, Numbered, VerifyOwnerAgain
  <2> HIDE DEF R
  <2>3. Said("deleteParticipant", R, 204) /\ Said("deleteParticipant", R, 403) /\
        Said("deleteParticipant", R, 404) /\ Admits("deleteParticipant", 403)
    BY <2>1 DEF Said, Undocumented, Admits, CallsForbidden
  <2>4. Fair("deleteParticipant", R, Check("badNumber", "Error")) /\
        Fair("deleteParticipant", R, FindMember) /\
        Fair("deleteParticipant", R, Conflict("ForbiddenException", "ForbiddenException")) /\
        Fair("deleteParticipant", R, Check("notMine", "ForbiddenException")) /\
        Fair("deleteParticipant", R, Conflict("P2025", "Error"))
    BY <2>1, <2>3, Statements, Untold
  <2> QED
    BY <2>1, <2>2, <2>3, <2>4 DEF Honest, AllFair, R, Ask, FindMember
<1> QED
  BY <1>1, <1>2, <1>3, <1>4, <1>5

LEMMA UserRows ==
    /\ Honest("getAllUsers", GetAllUsers)
    /\ Honest("getUserById", GetUserById)
    /\ Honest("updateUserByAdmin", UpdateUserByAdmin)
    /\ Honest("deleteUser", DeleteUser)
    /\ Honest("confirmPasswordChange", ConfirmPasswordChange)
<1> USE Statuses, Told, Plain, Wraps DEF Honest, AllFair, Fair, Said, Caught, Serves, Ask,
       Check, Conflict, Read
<1>1. Honest("getAllUsers", GetAllUsers)
  BY Untold DEF GetAllUsers, Users, Wrapped, Page
<1>2. Honest("getUserById", GetUserById)
  BY DEF GetUserById, Unvalidated, Users, Wrapped, FindUser, Numbered
<1>3. Honest("updateUserByAdmin", UpdateUserByAdmin)
  BY DEF UpdateUserByAdmin, Users, Wrapped, FindUser, Numbered, Undocumented
<1>4. Honest("deleteUser", DeleteUser)
  BY DEF DeleteUser, Unvalidated, Users, Wrapped, FindUser, Numbered, Undocumented
<1>5. Honest("confirmPasswordChange", ConfirmPasswordChange)
  BY DEF ConfirmPasswordChange, Wrapped, Undocumented
<1> HIDE DEF Honest
<1> QED
  BY <1>1, <1>2, <1>3, <1>4, <1>5

LEMMA ChatRows ==
    /\ Honest("getChats", GetChats)
    /\ Honest("getProjectChats", GetProjectChats)
    /\ Honest("getChatById", GetChatById)
    /\ Honest("createOrGetChat", CreateOrGetChat)
    /\ Honest("getMessages", GetMessages)
    /\ Honest("createMessage", CreateMessage)
    /\ Honest("sendBroadcast", SendBroadcast)
    /\ Honest("markChatAsRead", MarkChatAsRead)
    /\ Honest("deactivateChat", DeactivateChat)
    /\ Honest("getCurrentUserOnlineStatus", CurrentUserOnlineStatus)
    /\ Honest("createOrGetChatMobile", CreateOrGetChatMobile)
    /\ Honest("getMessagesMobile", GetMessagesMobile)
    /\ Honest("createMessageMobile", CreateMessageMobile)
<1>1. Honest("getChats", GetChats)
  BY Statuses, Plain, Untold DEF Honest, AllFair, Fair, Said, Caught, Serves, Ask, Check, Read,
     GetChats, Refusing, Page
<1>2. Honest("getProjectChats", GetProjectChats)
  BY Statuses, Plain, Untold DEF Honest, AllFair, Fair, Said, Caught, Serves, Ask, Check, Read,
     GetProjectChats, Page
<1>3. Honest("getChatById", GetChatById)
  <2> DEFINE R == GetChatById
  <2>1. R.wraps = "nothing" /\ R.ok = 200 /\ R.documented = {200, 401, 403, 404}
    BY DEF GetChatById, Serves
  <2>2. ASSUME NEW i \in DOMAIN R.does
        PROVE  R.does[i] \in
          {Check("badNumber", Ask("unknown", "Error", "Error").broken),
           Ask("unknown", "Error", "Error"), Check("notMine", "ChatAccessDeniedError"),
           Read("Error")}
    BY DEF GetChatById, Serves, FindChat, Numbered
  <2> HIDE DEF R
  <2>3. Said("getChatById", R, 200)
    BY <2>1 DEF Said, Undocumented
  <2>4. Fair("getChatById", R, Check("badNumber", "Error")) /\
        Fair("getChatById", R, Ask("unknown", "Error", "Error")) /\
        Fair("getChatById", R, Check("notMine", "ChatAccessDeniedError")) /\
        Fair("getChatById", R, Read("Error"))
    BY <2>1, Statements, ChatStatements, Untold DEF InOneChat, Messaging
  <2> QED
    BY <2>1, <2>2, <2>3, <2>4 DEF Honest, AllFair, R, Ask, FindMember
<1>4. Honest("createOrGetChat", CreateOrGetChat)
  <2> DEFINE R == CreateOrGetChat
  <2>1. R.wraps = "nothing" /\ R.ok = 201 /\ R.documented = {200, 401}
    BY DEF CreateOrGetChat, Serves
  <2>2. ASSUME NEW i \in DOMAIN R.does
        PROVE  R.does[i] \in
          {Check("badNumber", "Error"), Read("Error"), Ask("unknown", "Error", "Error"),
           Conflict("P2002", "never")}
    BY DEF CreateOrGetChat, Serves, OpenChat
  <2> HIDE DEF R
  <2>3. Said("createOrGetChat", R, 201)
    BY <2>1 DEF Said, Undocumented
  <2>4. Fair("createOrGetChat", R, Check("badNumber", "Error")) /\
        Fair("createOrGetChat", R, Read("Error")) /\
        Fair("createOrGetChat", R, Ask("unknown", "Error", "Error")) /\
        Fair("createOrGetChat", R, Conflict("P2002", "never"))
    BY <2>1, <2>3, Statements, Untold
  <2> QED
    BY <2>1, <2>2, <2>3, <2>4 DEF Honest, AllFair, R
<1>5. Honest("getMessages", GetMessages)
  <2> DEFINE R == GetMessages
  <2>1. R.wraps = "nothing" /\ R.ok = 200 /\ R.documented = {200, 401, 403, 404}
    BY DEF GetMessages, Serves
  <2>2. ASSUME NEW i \in DOMAIN R.does
        PROVE  R.does[i] \in
          {Check("badNumber", Ask("unknown", "Error", "Error").broken),
           Ask("unknown", "Error", "Error"), Check("notMine", "ChatAccessDeniedError"),
           Check("badPage", "Error"), Read("Error")}
    BY DEF GetMessages, Serves, FindChat, Numbered, Page
  <2> HIDE DEF R
  <2>3. Said("getMessages", R, 200)
    BY <2>1 DEF Said, Undocumented
  <2>4. Fair("getMessages", R, Check("badNumber", "Error")) /\
        Fair("getMessages", R, Ask("unknown", "Error", "Error")) /\
        Fair("getMessages", R, Check("notMine", "ChatAccessDeniedError")) /\
        Fair("getMessages", R, Check("badPage", "Error")) /\
        Fair("getMessages", R, Read("Error"))
    BY <2>1, Statements, ChatStatements, Untold DEF InOneChat, Messaging
  <2> QED
    BY <2>1, <2>2, <2>3, <2>4 DEF Honest, AllFair, R, Ask, FindMember
<1>6. Honest("createMessage", CreateMessage)
  <2> DEFINE R == CreateMessage
  <2>1. R.wraps = "nothing" /\ R.ok = 201 /\ R.documented = {201, 400, 401, 403, 404}
    BY DEF CreateMessage, Serves
  <2>2. ASSUME NEW i \in DOMAIN R.does
        PROVE  R.does[i] \in
          {Check("badNumber", Ask("unknown", "Error", "Error").broken),
           Ask("unknown", "Error", "Error"), Check("notMine", "ChatAccessDeniedError"),
           Check("closed", "ChatInactiveError"), ValidContent, NotSpam,
           Conflict("Error", "Error"), Conflict("P2025", "Error"), Read("Error")}
    BY DEF CreateMessage, Serves, SendMessage, FindChat, Numbered
  <2> HIDE DEF R
  <2>3. Said("createMessage", R, 201) /\ "createMessage" \in Covers \cap Messaging
    BY <2>1 DEF Said, Undocumented, Covers, Messaging
  <2>4. Fair("createMessage", R, Check("badNumber", "Error")) /\
        Fair("createMessage", R, Ask("unknown", "Error", "Error")) /\
        Fair("createMessage", R, Check("notMine", "ChatAccessDeniedError")) /\
        Fair("createMessage", R, Check("closed", "ChatInactiveError")) /\
        Fair("createMessage", R, ValidContent) /\ Fair("createMessage", R, NotSpam) /\
        Fair("createMessage", R, Conflict("Error", "Error")) /\
        Fair("createMessage", R, Conflict("P2025", "Error")) /\
        Fair("createMessage", R, Read("Error"))
    BY <2>1, <2>3, Statements, ChatStatements, Untold DEF InOneChat, Messaging
  <2> QED
    BY <2>1, <2>2, <2>3, <2>4 DEF Honest, AllFair, R, Ask, FindMember
<1>7. Honest("sendBroadcast", SendBroadcast)
  <2>1. \A f \in {"closed", "badContent", "spam"} : <<"sendBroadcast", f>> \in Overlooked
    BY DEF Overlooked
  <2>2. Admits("sendBroadcast", 403) /\ "sendBroadcast" \in Covers
        /\ <<"sendBroadcast", 403>> \in Undocumented
    BY DEF Admits, CallsForbidden, Covers, Undocumented
  <2> QED
    BY <2>1, <2>2, Statuses, Told, Plain DEF Honest, AllFair, Fair, Said, Caught, Serves, Ask, Check,
       Read, SendBroadcast, VerifyOwner, Numbered
<1>8. Honest("markChatAsRead", MarkChatAsRead)
  <2> DEFINE R == MarkChatAsRead
  <2>1. R.wraps = "nothing" /\ R.ok = 200 /\ R.documented = {200, 401, 403, 404}
    BY DEF MarkChatAsRead, Serves
  <2>2. ASSUME NEW i \in DOMAIN R.does
        PROVE  R.does[i] \in
          {Check("badNumber", Ask("unknown", "Error", "Error").broken),
           Ask("unknown", "Error", "Error"), Check("notMine", "ChatAccessDeniedError"),
           Conflict("P2025", "Error")}
    BY DEF MarkChatAsRead, Serves, FindChat, Numbered
  <2> HIDE DEF R
  <2>3. Said("markChatAsRead", R, 200)
    BY <2>1 DEF Said, Undocumented
  <2>4. Fair("markChatAsRead", R, Check("badNumber", "Error")) /\
        Fair("markChatAsRead", R, Ask("unknown", "Error", "Error")) /\
        Fair("markChatAsRead", R, Check("notMine", "ChatAccessDeniedError")) /\
        Fair("markChatAsRead", R, Conflict("P2025", "Error"))
    BY <2>1, Statements, ChatStatements, Untold DEF InOneChat, Messaging
  <2> QED
    BY <2>1, <2>2, <2>3, <2>4 DEF Honest, AllFair, R, Ask, FindMember
<1>9. Honest("deactivateChat", DeactivateChat)
  <2> DEFINE R == DeactivateChat
  <2>1. R.wraps = "nothing" /\ R.ok = 200 /\ R.documented = {200, 401, 403, 404}
    BY DEF DeactivateChat, Serves
  <2>2. ASSUME NEW i \in DOMAIN R.does
        PROVE  R.does[i] \in
          {Check("badNumber", Ask("unknown", "Error", "Error").broken),
           Ask("unknown", "Error", "Error"), Check("notMine", "ChatAccessDeniedError"),
           Conflict("P2025", "Error")}
    BY DEF DeactivateChat, Serves, FindChat, Numbered
  <2> HIDE DEF R
  <2>3. Said("deactivateChat", R, 200)
    BY <2>1 DEF Said, Undocumented
  <2>4. Fair("deactivateChat", R, Check("badNumber", "Error")) /\
        Fair("deactivateChat", R, Ask("unknown", "Error", "Error")) /\
        Fair("deactivateChat", R, Check("notMine", "ChatAccessDeniedError")) /\
        Fair("deactivateChat", R, Conflict("P2025", "Error"))
    BY <2>1, Statements, ChatStatements, Untold DEF InOneChat, Messaging
  <2> QED
    BY <2>1, <2>2, <2>3, <2>4 DEF Honest, AllFair, R, Ask, FindMember
<1>10. Honest("getCurrentUserOnlineStatus", CurrentUserOnlineStatus)
  BY DEF Honest, Said, Serves, CurrentUserOnlineStatus, Refusing
<1>11. Honest("createOrGetChatMobile", CreateOrGetChatMobile)
  <2> DEFINE R == CreateOrGetChatMobile
  <2>1. R.wraps = "nothing" /\ R.ok = 201 /\ R.documented = {200, 400}
    BY DEF CreateOrGetChatMobile, Serves, Unvalidated
  <2>2. ASSUME NEW i \in DOMAIN R.does
        PROVE  R.does[i] \in
          {FindProject, Conflict("ProjectNotFoundError", "ProjectNotFoundError"), FindMember,
           Read("Error"), Ask("unknown", "Error", "Error"), Conflict("P2002", "never")}
    BY DEF CreateOrGetChatMobile, Serves, Unvalidated, OpenChat
  <2> HIDE DEF R
  <2>3. Said("createOrGetChatMobile", R, 201) /\ Said("createOrGetChatMobile", R, 404) /\
        Admits("createOrGetChatMobile", 404)
    BY <2>1 DEF Said, Undocumented, Admits, CallsMissing
  <2>4. Fair("createOrGetChatMobile", R, FindProject) /\
        Fair("createOrGetChatMobile", R, Conflict("ProjectNotFoundError", "ProjectNotFoundError")) /\
        Fair("createOrGetChatMobile", R, FindMember) /\
        Fair("createOrGetChatMobile", R, Read("Error")) /\
        Fair("createOrGetChatMobile", R, Ask("unknown", "Error", "Error")) /\
        Fair("createOrGetChatMobile", R, Conflict("P2002", "never"))
    BY <2>1, <2>3, Statements, Untold
  <2> QED
    BY <2>1, <2>2, <2>3, <2>4 DEF Honest, AllFair, R
<1>12. Honest("getMessagesMobile", GetMessagesMobile)
  <2> DEFINE R == GetMessagesMobile
  <2>1. R.wraps = "nothing" /\ R.ok = 200 /\ R.documented = {200, 404}
    BY DEF GetMessagesMobile, Serves
  <2>2. ASSUME NEW i \in DOMAIN R.does
        PROVE  R.does[i] \in
          {FindProject, Check("noParticipant", "none"), FindMember,
           Check("badNumber", Ask("unknown", "Error", "Error").broken),
           Ask("unknown", "Error", "Error"), Check("notMine", "ChatAccessDeniedError"),
           Check("badPage", "Error"), Read("Error")}
    BY DEF GetMessagesMobile, Serves, AnyMember, FindChat, Numbered, Page
  <2> HIDE DEF R
  <2>3. Said("getMessagesMobile", R, 200) /\ Said("getMessagesMobile", R, 404) /\
        Admits("getMessagesMobile", 404) /\
        <<"getMessagesMobile", "noParticipant">> \in Overlooked
    BY <2>1 DEF Said, Undocumented, Admits, CallsMissing, Overlooked
  <2>4. Fair("getMessagesMobile", R, FindProject) /\
        Fair("getMessagesMobile", R, Check("noParticipant", "none")) /\
        Fair("getMessagesMobile", R, FindMember) /\
        Fair("getMessagesMobile", R, Check("badNumber", "Error")) /\
        Fair("getMessagesMobile", R, Ask("unknown", "Error", "Error")) /\
        Fair("getMessagesMobile", R, Check("notMine", "ChatAccessDeniedError")) /\
        Fair("getMessagesMobile", R, Check("badPage", "Error")) /\
        Fair("getMessagesMobile", R, Read("Error"))
    BY <2>1, <2>3, Statements, ChatStatements, Untold DEF InOneChat, Messaging
  <2> QED
    BY <2>1, <2>2, <2>3, <2>4 DEF Honest, AllFair, R, Ask, FindMember
<1>13. Honest("createMessageMobile", CreateMessageMobile)
  <2> DEFINE R == CreateMessageMobile
  <2>1. R.wraps = "nothing" /\ R.ok = 201 /\ R.documented = {201, 400, 404}
    BY DEF CreateMessageMobile, Serves
  <2>2. ASSUME NEW i \in DOMAIN R.does
        PROVE  R.does[i] \in
          {FindProject, Check("noParticipant", "none"), FindMember,
           Check("badNumber", Ask("unknown", "Error", "Error").broken),
           Ask("unknown", "Error", "Error"), Check("notMine", "ChatAccessDeniedError"),
           Check("closed", "ChatInactiveError"), ValidContent, NotSpam,
           Conflict("Error", "Error"), Conflict("P2025", "Error"), Read("Error")}
    BY DEF CreateMessageMobile, Serves, AnyMember, SendMessage, FindChat, Numbered
  <2> HIDE DEF R
  <2>3. Said("createMessageMobile", R, 201) /\ Said("createMessageMobile", R, 404) /\
        Admits("createMessageMobile", 404) /\
        <<"createMessageMobile", "noParticipant">> \in Overlooked /\
        "createMessageMobile" \in Covers \cap Messaging
    BY <2>1 DEF Said, Undocumented, Admits, CallsMissing, Covers, Messaging, Overlooked
  <2>4. Fair("createMessageMobile", R, FindProject) /\
        Fair("createMessageMobile", R, Check("noParticipant", "none")) /\
        Fair("createMessageMobile", R, FindMember) /\
        Fair("createMessageMobile", R, Check("badNumber", "Error")) /\
        Fair("createMessageMobile", R, Ask("unknown", "Error", "Error")) /\
        Fair("createMessageMobile", R, Check("notMine", "ChatAccessDeniedError")) /\
        Fair("createMessageMobile", R, Check("closed", "ChatInactiveError")) /\
        Fair("createMessageMobile", R, ValidContent) /\
        Fair("createMessageMobile", R, NotSpam) /\
        Fair("createMessageMobile", R, Conflict("Error", "Error")) /\
        Fair("createMessageMobile", R, Conflict("P2025", "Error")) /\
        Fair("createMessageMobile", R, Read("Error"))
    BY <2>1, <2>3, Statements, ChatStatements, Untold DEF InOneChat, Messaging
  <2> QED
    BY <2>1, <2>2, <2>3, <2>4 DEF Honest, AllFair, R, Ask, FindMember
<1> QED
  BY <1>1, <1>2, <1>3, <1>4, <1>5, <1>6, <1>7, <1>8, <1>9, <1>10, <1>11, <1>12, <1>13

LEMMA DeviceRows ==
    /\ Honest("registerMobile", RegisterMobile)
    /\ Honest("unregister", Unregister)
    /\ Honest("adminTest", AdminTest)
    /\ Honest("getOverview", GetOverview)
    /\ Honest("getNewParticipants", GetNewParticipants)
    /\ Honest("getParticipantsActivity", GetParticipantsActivity)
    /\ Honest("getChatStatistics", GetChatStatistics)
<1>1. Honest("registerMobile", RegisterMobile)
  BY Statuses, Told, Plain DEF Honest, AllFair, Fair, Said, Caught, Serves, Ask, Check,
     Conflict, Read, RegisterMobile, Refusing, FindProject, FindMember
<1>2. Honest("unregister", Unregister)
  BY Statuses, Told, Plain DEF Honest, AllFair, Fair, Said, Caught, Serves, Ask, Check,
     Conflict, Read, Unregister, Refusing
<1>3. Honest("adminTest", AdminTest)
  BY Statuses, Told, Plain DEF Honest, AllFair, Fair, Said, Caught, Serves, Ask, Check,
     Conflict, Read, AdminTest, Unvalidated
<1>4. ASSUME NEW n \in {"getOverview", "getNewParticipants", "getParticipantsActivity", "getChatStatistics"}
      PROVE  /\ Honest(n, Analytics)
             /\ Honest(n, Refusing(Analytics, {"optional"}))
  <2>1. Admits(n, 404) /\ <<n, 403>> \in Undocumented /\ <<n, 404>> \in Undocumented
    BY DEF Admits, CallsMissing, Undocumented
  <2>2. ASSUME NEW i \in DOMAIN Analytics.does
        PROVE  Analytics.does[i] \in
          {Check("badNumber", FindProject.broken), FindProject, Check("notMine", "ForbiddenException"),
           Read("Error")}
    BY DEF Analytics, Serves, Numbered
  <2>3. /\ Analytics.wraps = "nothing" /\ Analytics.ok = 200 /\ Analytics.documented = {200}
        /\ Refusing(Analytics, {"optional"}).does = Analytics.does
        /\ Refusing(Analytics, {"optional"}).wraps = "nothing"
        /\ Refusing(Analytics, {"optional"}).ok = 200
        /\ Refusing(Analytics, {"optional"}).documented = {200}
    BY DEF Analytics, Serves, Refusing
  <2>4. ASSUME NEW R, R.wraps = "nothing", R.ok = 200, R.documented = {200}, R.does = Analytics.does
        PROVE  Honest(n, R)
    <3>1. Said(n, R, 200) /\ Said(n, R, 403) /\ Said(n, R, 404)
      BY <2>1, <2>4 DEF Said
    <3>2. Fair(n, R, FindProject) /\ Fair(n, R, Check("notMine", "ForbiddenException"))
          /\ Fair(n, R, Read("Error"))
      BY <2>1, <2>4, <3>1, Statements
    <3>3. Fair(n, R, Check("badNumber", FindProject.broken))
      BY <2>4, <3>1, Statuses, Told, Plain DEF Fair, Caught, Check, Ask, FindProject
    <3> HIDE DEF Fair, Check, Read, FindProject
    <3> QED
      BY <2>2, <2>4, <3>1, <3>2, <3>3 DEF Honest, AllFair
  <2> QED
    BY <2>3, <2>4
<1>5. /\ Honest("getOverview", GetOverview) /\ Honest("getNewParticipants", GetNewParticipants)
      /\ Honest("getParticipantsActivity", GetParticipantsActivity)
      /\ Honest("getChatStatistics", GetChatStatistics)
  BY <1>4 DEF GetOverview, GetNewParticipants, GetParticipantsActivity, GetChatStatistics
<1> QED
  BY <1>1, <1>2, <1>3, <1>5

LEMMA TableIsHonest == Api = Table => HonestTable
<1> SUFFICES ASSUME Api = Table, NEW n \in Endpoint PROVE Honest(n, Api[n])
  BY DEF HonestTable
<1>1. n \in DOMAIN Table /\ Api[n] = Table[n]
  BY DEF Endpoint
<1>2. \A x \in DOMAIN Table : Honest(x, Table[x])
  BY AuthRows, ProjectRows, ParticipantRows, UserRows, ChatRows, DeviceRows DEF Table
<1> QED
  BY <1>1, <1>2

-----------------------------------------------------------------------------
(* The properties of the answers                                           *)

LEMMA StatusIsError == \A e \in Error : StatusOf(e) \in 400 .. 599
<1> SUFFICES ASSUME NEW e \in Error PROVE StatusOf(e) \in 400 .. 599
  OBVIOUS
<1>1. e \in DOMAIN AuthStatus => AuthStatus[e] \in 400 .. 599
  BY DEF AuthStatus
<1>2. e \in DOMAIN ProjectStatus => ProjectStatus[e] \in 400 .. 599
  BY DEF ProjectStatus
<1>3. e \in DOMAIN UserStatus => UserStatus[e] \in 400 .. 599
  BY DEF UserStatus
<1>4. e \in DOMAIN NestStatus => NestStatus[e] \in 400 .. 599
  BY DEF NestStatus
<1> QED
  BY <1>1, <1>2, <1>3, <1>4 DEF StatusOf

\* The error of an answer is a guard's or a pipe's, or that of a statement
\* which the table has been asked about.
LEMMA Origin ==
    ASSUME IInv, HonestTable, NEW e, Filtered(e)
    PROVE  \/ ByGate(e)
           \/ /\ Said(endpoint, My, StatusOf(e))
              /\ \/ raced
                 \/ broke /\ Admits(endpoint, StatusOf(e))
                 \/ \E f \in wrong : Owned(endpoint, f, StatusOf(e))
<1> SUFFICES ASSUME ~ByGate(e)
             PROVE  /\ Said(endpoint, My, StatusOf(e))
                    /\ \/ raced
                       \/ broke /\ Admits(endpoint, StatusOf(e))
                       \/ \E f \in wrong : Owned(endpoint, f, StatusOf(e))
  OBVIOUS
<1>1. My.wraps # "all" /\ Through
  BY DEF Filtered
<1>2. PICK d \in Error : ByHandler(d) /\ e = Caught(My.wraps, d)
  BY DEF Filtered
<1>3. PICK i \in DOMAIN My.does :
         \/ d = My.does[i].says /\ d # "none" /\ My.does[i].asks \in wrong
         \/ d = My.does[i].says /\ My.does[i].asks = "conflict" /\ raced
         \/ d = My.does[i].broken /\ d \in Error /\ broke
  BY <1>2 DEF ByHandler
<1>4. Fair(endpoint, My, My.does[i])
  <2>1. My.refuses # Variant
    BY <1>1 DEF Through, IInv, TypeOK
  <2> QED
    BY <1>3, <2>1 DEF HonestTable, Honest, AllFair, My, IInv, TypeOK
<1>5. d # "none" /\ wrong \subseteq Fault
  BY Plain DEF IInv, TypeOK
<1> QED
  BY <1>1, <1>2, <1>3, <1>4, <1>5 DEF Fair

\* A success means that the handler got to its end, or that its catch clause
\* swallows everything.
LEMMA Success ==
    ASSUME IInv, Course, HonestTable, stage = "done", status < 300
    PROVE  /\ broke => endpoint \in Covers
           /\ \A f \in wrong : \/ <<endpoint, f>> \in Overlooked
                               \/ broke /\ f = "spam" /\ endpoint \in Messaging
<1>1. Honest(endpoint, My)
  BY DEF HonestTable, My, IInv, TypeOK
<1>2. ~Filtered(error) \/ status # StatusOf(error)
  <2>1. ASSUME Filtered(error) PROVE StatusOf(error) \in 400 .. 599
    <3>1. error \in Error
      BY <2>1, NamedErrors, CaughtIsError DEF Filtered, ByGate, Caught
    <3> QED
      BY <3>1, StatusIsError
  <2> QED
    BY <2>1
<1>3. Through /\ (My.wraps = "all" \/ (Run /\ at = Len(My.does) + 1))
  BY <1>2 DEF Course
<1>4. \A i \in DOMAIN My.does : Fair(endpoint, My, My.does[i])
  <2>1. My.refuses # Variant
    BY <1>3 DEF Through, IInv, TypeOK
  <2> QED
    BY <1>1, <2>1 DEF Honest, AllFair
<1>5. ASSUME Run, at = Len(My.does) + 1 PROVE \A i \in DOMAIN My.does : i \in 1 .. at - 1
  <2>1. DOMAIN My.does = 1 .. Len(My.does) /\ Len(My.does) \in Nat
    BY MyTypes DEF IInv, TypeOK
  <2> QED
    BY <1>5, <2>1
<1>6. ASSUME NEW f \in wrong
      PROVE  <<endpoint, f>> \in Overlooked \/ (broke /\ f = "spam" /\ endpoint \in Messaging)
  <2>1. f \in Meets(endpoint) /\ f \in Fault
    BY <1>6 DEF Course, IInv, TypeOK
  <2>2. PICK i \in DOMAIN My.does : My.does[i].asks = f
    BY <1>3, <1>6, <2>1 DEF Meets, My, Through, Guarded
  <2>3. CASE My.wraps = "all"
    BY <1>4, <2>1, <2>2, <2>3 DEF Fair
  <2>4. CASE My.wraps # "all"
    <3>1. My.does[i].says = "none" \/ (My.does[i].broken = "none" /\ broke)
      BY <1>3, <1>5, <1>6, <2>2, <2>4 DEF Run
    <3> QED
      BY <1>4, <2>1, <2>2, <3>1 DEF Fair
  <2> QED
    BY <2>3, <2>4
<1>7. broke => endpoint \in Covers
  <2>1. CASE My.wraps = "all"
    BY <1>1, <2>1 DEF Honest
  <2>2. CASE Run
    BY <1>4, <2>2 DEF Run, Fair
  <2> QED
    BY <1>3, <2>1, <2>2
<1> QED
  BY <1>6, <1>7

\* What a guard or a pipe throws, by its status.
LEMMA GateStatus ==
    ASSUME NEW e, ByGate(e)
    PROVE  \/ StatusOf(e) = 401 /\ wrong \cap TokenFault # {}
           \/ StatusOf(e) = 403 /\ "notAdmin" \in wrong
           \/ StatusOf(e) = 400
              /\ (variant \in My.refuses \/ (My.validates /\ "malformed" \in wrong))
           \/ StatusOf(e) = 500 /\ broke
<1>1. StatusOf("UnauthorizedException") = 401 /\ StatusOf("InvalidJwtTokenError") = 401
  BY StatusTable DEF AuthStatus, NestStatus
<1> QED
  BY <1>1, Statuses DEF ByGate

LEMMA Tellings ==
    /\ \A f \in TokenFault : f \in Tells[401]
    /\ "notAdmin" \in Tells[403] /\ "malformed" \in Tells[400]
    /\ 500 \notin DOMAIN Tells /\ \A x \in DOMAIN Tells : x < 500
BY DEF Tells

\* Where an answer of 400 or more comes from.
LEMMA Refusal ==
    ASSUME IInv, Course, HonestTable, stage = "done"
    PROVE  \/ status \in {200, 201, 204}
           \/ status = StatusOf(error) /\ Filtered(error)
<1>1. My.ok \in {200, 201, 204}
  BY MyTypes DEF IInv, TypeOK
<1> QED
  BY <1>1 DEF Course

LEMMA RefusedFor == IInv /\ Course /\ HonestTable => RefusedForAReason
<1> SUFFICES ASSUME IInv, Course, HonestTable, stage = "done", status \in 400 .. 499
             PROVE  \/ Tells[status] \cap wrong # {}
                    \/ raced
                    \/ status = 400 /\ variant \in My.refuses
                    \/ broke /\ status = 404 /\ endpoint \in CallsMissing
                    \/ broke /\ status = 403 /\ endpoint \in CallsForbidden
  BY DEF RefusedForAReason
<1>1. status = StatusOf(error) /\ Filtered(error)
  BY Refusal
<1>2. CASE ByGate(error)
  <2>1. status # 500
    OBVIOUS
  <2> QED
    BY <1>1, <1>2, <2>1, GateStatus, Tellings
<1>3. CASE broke /\ Admits(endpoint, StatusOf(error))
  BY <1>1, <1>3 DEF Admits
<1>4. CASE \E f \in wrong : Owned(endpoint, f, StatusOf(error))
  BY <1>1, <1>4 DEF Owned
<1> QED
  BY <1>1, <1>2, <1>3, <1>4, Origin

LEMMA Told500 == IInv /\ Course /\ HonestTable => FailureTold
<1> SUFFICES ASSUME IInv, Course, HonestTable, stage = "done" PROVE FailureTold
  BY DEF FailureTold
<1>1. ASSUME status >= 500
      PROVE  broke \/ raced \/ \E f \in wrong : <<endpoint, f>> \in Unspoken
  <2>1. status = StatusOf(error) /\ Filtered(error)
    BY <1>1, Refusal
  <2>2. CASE ByGate(error)
    BY <1>1, <2>1, <2>2, GateStatus
  <2>3. CASE \E f \in wrong : Owned(endpoint, f, StatusOf(error))
    <3>1. PICK f \in wrong : Owned(endpoint, f, status)
      BY <2>1, <2>3
    <3>2. status \notin DOMAIN Tells
      BY <1>1, Tellings DEF IInv, TypeOK
    <3> QED
      BY <3>1, <3>2 DEF Owned
  <2> QED
    BY <2>1, <2>2, <2>3, Origin
<1>2. ASSUME status < 300
      PROVE  /\ broke => endpoint \in Covers
             /\ \A f \in wrong : \/ <<endpoint, f>> \in Overlooked
                                 \/ broke /\ f = "spam" /\ endpoint \in Messaging
  BY <1>2, Success
<1> QED
  BY <1>1, <1>2 DEF FailureTold

LEMMA Documented == IInv /\ Course /\ HonestTable => AnsweredAsDocumented
<1> SUFFICES ASSUME IInv, Course, HonestTable, stage = "done",
                    status \notin My.documented \cup {500}
             PROVE  \/ status = 401 /\ wrong \cap TokenFault # {}
                    \/ status = 403 /\ "notAdmin" \in wrong
                    \/ status = 400
                       /\ ((My.validates /\ "malformed" \in wrong) \/ variant \in My.refuses)
                    \/ <<endpoint, status>> \in Undocumented
  BY DEF AnsweredAsDocumented
<1>1. CASE status = My.ok
  <2>1. Honest(endpoint, My)
    BY DEF HonestTable, My, IInv, TypeOK
  <2> QED
    BY <1>1, <2>1 DEF Honest, Said
<1>2. CASE status = StatusOf(error) /\ Filtered(error)
  <2>1. ByGate(error) \/ Said(endpoint, My, status)
    BY <1>2, Origin
  <2> QED
    BY <1>2, <2>1, GateStatus DEF Said
<1> QED
  BY <1>1, <1>2 DEF Course

LEMMA CourseInvariant == Spec => [](IInv /\ Course)
<1>1. Init => IInv /\ Course
  BY InitIInv, InitCourse
<1>2. IInv /\ Course /\ [Next]_vars => IInv' /\ Course'
  BY NextIInv, NextCourse
<1> QED
  BY <1>1, <1>2, PTL DEF Spec

(* A refusal names what the caller got wrong, unless another request came  *)
(* in between, a pipe refuses what is documented, or the endpoint is known *)
(* to call a failing database a missing or denied project: of the handlers *)
(* of the controllers, whatever is asked and fails and in whatever order.  *)
THEOREM RefusalsHaveReasons == Api = Table => (Spec => []RefusedForAReason)
<1> SUFFICES ASSUME Api = Table PROVE Spec => []RefusedForAReason
  OBVIOUS
<1>1. IInv /\ Course => RefusedForAReason
  BY TableIsHonest, RefusedFor
<1> QED
  BY <1>1, CourseInvariant, PTL

(* A server error means that a service failed or another request came in   *)
(* between, but for the listed faults that no filter knows.  A success     *)
(* means that nothing failed, but at the listed endpoints that answer as   *)
(* if a query had worked, and that nothing was wrong but what is listed as *)
(* overlooked (the unknown address of a reset, the sends of a broadcast, a *)
(* badly formed address to register, a mobile request that names nobody)   *)
(* or spam whose check failed.  The lists are the whole of it.             *)
THEOREM FailuresAreTold == Api = Table => (Spec => []FailureTold)
<1> SUFFICES ASSUME Api = Table PROVE Spec => []FailureTold
  OBVIOUS
<1>1. IInv /\ Course => FailureTold
  BY TableIsHonest, Told500
<1> QED
  BY <1>1, CourseInvariant, PTL

(* The handlers answer what their decorators document, and else only the   *)
(* listed statuses; the guards and the pipes answer 401, 403 and 400.      *)
THEOREM AnswersAreDocumented == Api = Table => (Spec => []AnsweredAsDocumented)
<1> SUFFICES ASSUME Api = Table PROVE Spec => []AnsweredAsDocumented
  OBVIOUS
<1>1. IInv /\ Course => AnsweredAsDocumented
  BY TableIsHonest, Documented
<1> QED
  BY <1>1, CourseInvariant, PTL

(* What the three need of a table, of these endpoints or others, is a      *)
(* condition on each statement by itself: which class it throws for which  *)
(* fault, and for a failure.  No order of statements matters.              *)
THEOREM HonestTablesAnswerHonestly ==
    HonestTable => (Spec => [](RefusedForAReason /\ FailureTold /\ AnsweredAsDocumented))
<1> SUFFICES ASSUME HonestTable
             PROVE  Spec => [](RefusedForAReason /\ FailureTold /\ AnsweredAsDocumented)
  OBVIOUS
<1>1. IInv /\ Course => RefusedForAReason /\ FailureTold /\ AnsweredAsDocumented
  BY RefusedFor, Told500, Documented
<1> QED
  BY <1>1, CourseInvariant, PTL

=============================================================================
