------------------------------- MODULE Errors -------------------------------
(***************************************************************************)
(* What becomes of a request on its way through Nest: the guards, the      *)
(* pipes, the statements of the handler, the catch clause of the service   *)
(* and the exception filters, each with the errors it throws, passes on,   *)
(* replaces or swallows.  Api is the table of the endpoints.               *)
(*                                                                         *)
(* A statement of a handler looks for something wrong with the request     *)
(* (asks) and throws says if it is so; if the database, the mail or the    *)
(* push service fails it throws broken.  "none" means that the handler     *)
(* goes on as if nothing were wrong, "never" that nothing can break.       *)
(***************************************************************************)
EXTENDS Integers, Sequences

CONSTANT Api

\* What the caller got wrong; "conflict" is another request's doing.  A
\* "malformed" request is one that a pipe knows to be.  Others no pipe looks
\* at: numbers or pages that the database does not take, missing columns of
\* a registration or a badly formed e-mail address in it, a missing participant
\* in a query.  A missing unique id of a project is one that is not known.
TokenFault == {"noToken", "goneUser"}
Fault == TokenFault \cup
    {"notAdmin", "malformed", "badNumber", "badPage", "badEmail", "noEmail", "noPassword", "noName",
     "noParticipant", "badName", "badUniqueId", "weakPassword", "badPassword", "badToken", "unknown",
     "unknownPerson", "notMine", "taken", "emailTaken", "ownsProjects", "closed", "badContent", "spam"}

Variant == {"plain", "optional"}   \* without, or with, what is documented as optional

\* AuthExceptionFilter: the class' code decides.
AuthStatus ==
    [InvalidCredentialsError |-> 401, AuthUserNotFoundError |-> 404, InvalidRefreshTokenError |-> 401,
     WeakPasswordError |-> 400, InvalidResetTokenError |-> 400, EmailNotFoundError |-> 404,
     EmailAlreadyExistsError |-> 409, InvalidJwtTokenError |-> 401, GeneralAuthError |-> 500]

\* ProjectExceptionFilter: the class carries its status.
ProjectStatus ==
    [ProjectNotFoundError |-> 404, ProjectAlreadyExistsError |-> 409, ProjectAccessDeniedError |-> 403,
     InvalidProjectNameError |-> 400, InvalidProjectUniqueIdError |-> 400,
     ProjectCreationError |-> 500, ProjectUpdateError |-> 500, ProjectDeletionError |-> 500]

\* UserExceptionFilter: the classes are Nest's exceptions.
UserStatus ==
    [UserNotFoundError |-> 404, UserAlreadyExistsError |-> 409, UserOperationFailedError |-> 500,
     PasswordChangeTokenInvalidError |-> 400]

\* Nest's own exceptions.
NestStatus ==
    [UnauthorizedException |-> 401, ForbiddenException |-> 403, BadRequestException |-> 400,
     NotFoundException |-> 404]

\* Errors of the chat module have no filter.
ChatError == {"ChatAccessDeniedError", "ChatInactiveError", "InvalidMessageContentError", "MessageSpamError"}

\* "Error" is any other, "P2002" and "P2025" the database's: a unique index
\* refuses, the row is not there.
Error == DOMAIN AuthStatus \cup DOMAIN ProjectStatus \cup DOMAIN UserStatus \cup DOMAIN NestStatus
         \cup ChatError \cup {"Error", "P2002", "P2025"}

Statement == [asks : Fault \cup {"nothing", "conflict"}, says : Error \cup {"none"},
              broken : Error \cup {"none", "never"}]

Endpoint == DOMAIN Api

ASSUME ApiAssumption ==
    \A e \in Endpoint :
        /\ Api[e].needs \in {"nobody", "user", "admin"}
        /\ Api[e].validates \in BOOLEAN      \* some pipe knows the shape of what it gets
        /\ Api[e].refuses \subseteq Variant  \* what is documented and its pipes refuse
        /\ Api[e].does \in Seq(Statement)
        /\ \A i \in DOMAIN Api[e].does : Api[e].does[i].asks = "conflict" => Api[e].does[i].says # "none"
        /\ Api[e].wraps \in {"nothing", "auth", "user", "all"}   \* its catch clause
        /\ Api[e].ok \in {200, 201, 204}
        /\ Api[e].documented \subseteq 200 .. 599

VARIABLES
    endpoint, wrong, variant,  \* what the client asks of which endpoint
    stage,
    at,      \* the statement that is next
    error,   \* what has been thrown
    status,  \* what is answered, 0 before
    broke,   \* history: a service failed
    raced    \* history: another request came in between

request == <<endpoint, wrong, variant>>
vars == <<request, stage, at, error, status, broke, raced>>

My == Api[endpoint]

TypeOK ==
    /\ endpoint \in Endpoint /\ wrong \subseteq Fault /\ variant \in Variant
    /\ stage \in {"guard", "role", "pipe", "work", "catch", "filter", "done"}
    /\ at \in 1 .. Len(My.does) + 1
    /\ error \in Error \cup {"none"}
    /\ status \in 0 .. 599 /\ (status = 0 <=> stage # "done")
    /\ broke \in BOOLEAN /\ raced \in BOOLEAN

\* What can be wrong with a request to e.
Meets(e) ==
    (IF Api[e].needs = "nobody" THEN {} ELSE TokenFault)
    \cup (IF Api[e].needs = "admin" THEN {"notAdmin"} ELSE {})
    \cup (IF Api[e].validates THEN {"malformed"} ELSE {})
    \cup ({Api[e].does[i].asks : i \in DOMAIN Api[e].does} \cap Fault)

Init ==
    /\ endpoint \in Endpoint
    /\ wrong \in SUBSET Meets(endpoint)
    /\ variant \in Variant
    /\ stage = "guard" /\ at = 1
    /\ error = "none" /\ status = 0 /\ broke = FALSE /\ raced = FALSE

Goes(from, to) ==
    stage = from /\ stage' = to /\ UNCHANGED <<request, at, error, status, broke, raced>>

\* An error e of the guards and pipes goes to the filters, one of the
\* handler to the catch clause first.
Throws(from, e) ==
    /\ stage = from
    /\ stage' = IF from = "work" THEN "catch" ELSE "filter"
    /\ error' = e
    /\ UNCHANGED <<request, at, status>>

-----------------------------------------------------------------------------
\* JwtAuthGuard, AuthGuard('jwt') and JwtStrategy.validate
Authenticate ==
    \/ My.needs = "nobody" /\ Goes("guard", "pipe")
    \/ /\ My.needs # "nobody" /\ "noToken" \in wrong
       /\ Throws("guard", "UnauthorizedException") /\ UNCHANGED <<broke, raced>>
    \/ /\ My.needs # "nobody" /\ "noToken" \notin wrong /\ "goneUser" \in wrong
       /\ Throws("guard", "InvalidJwtTokenError") /\ UNCHANGED <<broke, raced>>
    \/ /\ My.needs # "nobody" /\ "noToken" \notin wrong
       /\ Throws("guard", "Error") /\ broke' = TRUE /\ UNCHANGED raced
    \/ My.needs # "nobody" /\ wrong \cap TokenFault = {} /\ Goes("guard", "role")

\* RolesGuard
Authorize ==
    \/ My.needs = "user" /\ Goes("role", "pipe")
    \/ My.needs = "admin" /\ "notAdmin" \notin wrong /\ Goes("role", "pipe")
    \/ /\ My.needs = "admin" /\ "notAdmin" \in wrong
       /\ Throws("role", "ForbiddenException") /\ UNCHANGED <<broke, raced>>

\* The ValidationPipe of main.ts lets nothing through that the DTO's
\* decorators do not name; ParseIntPipe wants digits.
Validate ==
    LET refused == variant \in My.refuses \/ (My.validates /\ "malformed" \in wrong) IN
    \/ refused /\ Throws("pipe", "BadRequestException") /\ UNCHANGED <<broke, raced>>
    \/ ~refused /\ Goes("pipe", "work")

Passes == at' = at + 1 /\ UNCHANGED <<request, stage, error, status>>

Work ==
    /\ stage = "work" /\ at <= Len(My.does)
    /\ LET s == My.does[at] IN
       \/ (s.asks \notin wrong \/ s.says = "none") /\ Passes /\ UNCHANGED <<broke, raced>>
       \/ /\ s.asks \in wrong /\ s.says # "none"
          /\ Throws("work", s.says) /\ UNCHANGED <<broke, raced>>
       \/ s.asks = "conflict" /\ Throws("work", s.says) /\ raced' = TRUE /\ UNCHANGED broke
       \/ s.broken = "none" /\ Passes /\ broke' = TRUE /\ UNCHANGED raced
       \/ s.broken \in Error /\ Throws("work", s.broken) /\ broke' = TRUE /\ UNCHANGED raced

Answer ==
    /\ stage = "work" /\ at = Len(My.does) + 1
    /\ stage' = "done" /\ status' = My.ok
    /\ UNCHANGED <<request, at, error, broke, raced>>

\* Mutation: the list of classes to rethrow lacks one.
MutUserStrategy(e) ==
    CASE e = "UserNotFoundError" -> e
      [] e = "P2025" -> "UserNotFoundError"
      [] OTHER -> "UserOperationFailedError"

\* DefaultUserErrorStrategy: what it does not know is wrapped.
UserStrategy(e) ==
    CASE e \in {"UserNotFoundError", "UserAlreadyExistsError", "UserOperationFailedError"} -> e
      [] e = "P2002" -> "UserAlreadyExistsError"
      [] e = "P2025" -> "UserNotFoundError"
      [] OTHER -> "UserOperationFailedError"

\* login
AuthCatch(e) == IF e \in DOMAIN AuthStatus THEN e ELSE "GeneralAuthError"

\* The error handlers of auth, project and chat log and return; their
\* callers throw the same error on.  requestReset answers as if all were well.
Catch ==
    /\ stage = "catch"
    /\ IF My.wraps = "all"
       THEN stage' = "done" /\ status' = My.ok /\ UNCHANGED error
       ELSE /\ stage' = "filter" /\ UNCHANGED status
            /\ error' = CASE My.wraps = "auth" -> AuthCatch(error)
                          [] My.wraps = "user" -> UserStrategy(error)
                          [] OTHER -> error
    /\ UNCHANGED <<request, at, broke, raced>>

\* Mutation: an error without a code of its own has no status.
MutStatusOf(e) ==
    CASE e \in DOMAIN AuthStatus -> AuthStatus[e]
      [] e \in DOMAIN ProjectStatus -> ProjectStatus[e]
      [] e \in DOMAIN UserStatus -> UserStatus[e]
      [] e \in DOMAIN NestStatus -> NestStatus[e]
      [] OTHER -> 0

StatusOf(e) ==
    CASE e \in DOMAIN AuthStatus -> AuthStatus[e]
      [] e \in DOMAIN ProjectStatus -> ProjectStatus[e]
      [] e \in DOMAIN UserStatus -> UserStatus[e]
      [] e \in DOMAIN NestStatus -> NestStatus[e]
      [] OTHER -> 500

Filter ==
    /\ stage = "filter"
    /\ stage' = "done" /\ status' = StatusOf(error)
    /\ UNCHANGED <<request, at, error, broke, raced>>

Next == Authenticate \/ Authorize \/ Validate \/ Work \/ Answer \/ Catch \/ Filter

Spec == Init /\ [][Next]_vars

=============================================================================
