----------------------------- MODULE Endpoints -----------------------------
(***************************************************************************)
(* The endpoints of the API and what their handlers do, statement by       *)
(* statement, as far as errors go: the table that Errors runs.  An         *)
(* endpoint says what it needs, the statuses its decorators document, the  *)
(* status of success and its statements.                                   *)
(***************************************************************************)
EXTENDS Errors

Ask(fault, e, broken) == [asks |-> fault, says |-> e, broken |-> broken]
Check(fault, e)       == Ask(fault, e, "never")
Conflict(e, broken)   == Ask("conflict", e, broken)
Read(broken)          == Ask("nothing", "none", broken)

\* A statement given a number from the path or the query: no pipe asks whether
\* the column can hold it (in 32 bits), and Number() may make it NaN.
Numbered(s) == <<Check("badNumber", s.broken), s>>

\* A page of rows: the database refuses offsets below 0 and numbers too large.
Page == <<Check("badPage", "Error"), Read("Error")>>

\* What is the same for most.
Serves(needs, ok, documented, does) ==
    [needs |-> needs, validates |-> TRUE, refuses |-> {}, does |-> does, wraps |-> "nothing",
     ok |-> ok, documented |-> documented]
Unvalidated(e)     == [e EXCEPT !.validates = FALSE]
Refusing(e, V)     == [e EXCEPT !.refuses = V]
Wrapped(e, w)      == [e EXCEPT !.wraps = w]

-----------------------------------------------------------------------------
(* Authentication                                                          *)

\* generateTokens and updateRefreshToken
WriteToken == Conflict("P2025", "Error")

\* validatePassword and isPasswordCompromised
Strong == Check("weakPassword", "WeakPasswordError")

Login == Wrapped(Serves("nobody", 200, {200, 400, 401},
    <<Ask("unknown", "AuthUserNotFoundError", "Error"), Check("badPassword", "InvalidCredentialsError"),
      WriteToken>>), "auth")

\* Mutation: an unknown refresh token is an unknown user.
MutRefresh == Serves("nobody", 200, {200, 400, 401},
    <<Ask("badToken", "AuthUserNotFoundError", "Error"), WriteToken>>)

Refresh == Serves("nobody", 200, {200, 400, 401},
    <<Ask("badToken", "InvalidRefreshTokenError", "Error"), WriteToken>>)

Logout == Unvalidated(Serves("user", 200, {200, 401}, <<WriteToken>>))

RequestReset == Wrapped(Serves("nobody", 200, {200, 400},
    <<Ask("unknown", "EmailNotFoundError", "Error"), Read("Error")>>), "all")

ResetPassword == Serves("nobody", 200, {200, 400, 404},
    <<Strong, Check("badToken", "InvalidResetTokenError"), Ask("unknown", "AuthUserNotFoundError", "Error"),
      Conflict("P2025", "Error")>>)

\* The body's type is not a class: no pipe looks into it.  What is missing
\* is missed by the statement that wants it, the look for the e-mail address,
\* the check of the password or the insert, after which the row is read again.
Register == Unvalidated(Serves("nobody", 201, {201, 400},
    <<Check("badEmail", "none"), Check("noEmail", "Error"), Ask("taken", "EmailAlreadyExistsError", "Error"),
      Check("noPassword", "Error"), Strong, Check("noName", "Error"), Conflict("P2002", "Error"),
      Conflict("Error", "Error"), WriteToken, Read("none")>>))

-----------------------------------------------------------------------------
(* Projects                                                                *)

\* findProjectById and findProjectByUniqueId call any failure ProjectNotFoundError.
FindProject == Ask("unknown", "ProjectNotFoundError", "ProjectNotFoundError")

OwnProject == Check("notMine", "ProjectAccessDeniedError")
ValidName  == Check("badName", "InvalidProjectNameError")
ValidUid   == Check("badUniqueId", "InvalidProjectUniqueIdError")

CreateProject == Serves("admin", 201, {201, 400, 401, 403, 409},
    <<ValidName, Ask("taken", "ProjectAlreadyExistsError", "ProjectCreationError"),
      Conflict("ProjectCreationError", "ProjectCreationError")>>)

GetProjectById == Serves("admin", 200, {200, 401, 403, 404}, Numbered(FindProject) \o <<OwnProject>>)

GetProjectByUniqueId == Unvalidated(Serves("admin", 200, {200, 401, 403, 404}, <<FindProject, OwnProject>>))

\* The count is 0 when it fails.
GetUserProjects == Serves("admin", 200, {200, 401, 403}, <<Read("ProjectNotFoundError"), Read("none")>>)

\* UpdateProjectDto documents both columns as optional and requires both.
UpdateProject == Refusing(Serves("admin", 200, {200, 400, 401, 403, 404, 409},
    Numbered(FindProject) \o <<OwnProject, ValidName, Conflict("ProjectNotFoundError", "ProjectUpdateError"),
      Ask("taken", "ProjectAlreadyExistsError", "ProjectUpdateError"),
      Conflict("ProjectUpdateError", "ProjectUpdateError")>>), {"optional"})

DeleteProject == Serves("admin", 204, {204, 401, 403, 404},
    Numbered(FindProject) \o <<OwnProject, Conflict("ProjectNotFoundError", "ProjectDeletionError"),
      Conflict("ProjectDeletionError", "ProjectDeletionError")>>)

\* isUniqueIdExists answers no when its query fails.
CheckUniqueIdAvailability == Unvalidated(Serves("admin", 200, {200, 400, 401, 403}, <<ValidUid, Read("none")>>))

-----------------------------------------------------------------------------
(* Participants                                                            *)

\* verifyProjectOwnership calls whatever happens ForbiddenException.
VerifyOwner == Numbered(Ask("unknown", "ForbiddenException", "ForbiddenException"))
    \o <<Check("notMine", "ForbiddenException")>>
VerifyOwnerAgain == <<Conflict("ForbiddenException", "ForbiddenException"), Check("notMine", "ForbiddenException")>>

\* Mutation: a failing database is called a missing person.
MutFindMember == Ask("unknownPerson", "NotFoundException", "NotFoundException")

FindMember == Ask("unknownPerson", "NotFoundException", "Error")

\* isParticipantIdAvailable, then the two statements of createParticipant.
Enrol == <<Ask("taken", "BadRequestException", "Error"), Ask("emailTaken", "P2002", "Error"), Conflict("P2002", "Error")>>

CreateParticipant == Serves("user", 201, {201, 400, 401}, <<FindProject>> \o VerifyOwnerAgain \o Enrol)

CreateParticipantMobile == Serves("nobody", 201, {201, 400}, <<FindProject>> \o Enrol)

GetProjectParticipants == Serves("user", 200, {200, 401}, VerifyOwner \o Page)

GetParticipantById == Serves("user", 200, {200, 401, 404}, Numbered(FindMember) \o VerifyOwnerAgain)

DeleteParticipant == Serves("user", 204, {204, 401, 404},
    Numbered(FindMember) \o VerifyOwnerAgain \o <<Conflict("P2025", "Error")>>)

-----------------------------------------------------------------------------
(* Users.  The id is whatever Number() makes of the path.                  *)

Users(ok, documented, does) == Wrapped(Serves("admin", ok, documented, does), "user")

FindUser == Numbered(Ask("unknown", "UserNotFoundError", "Error"))

GetAllUsers == Users(200, {200}, Page)

GetUserById == Unvalidated(Users(200, {200, 404}, FindUser))

UpdateUserByAdmin == Users(200, {200, 404},
    FindUser \o <<Ask("taken", "UserAlreadyExistsError", "Error"), Conflict("P2002", "Error"), Conflict("P2025", "never")>>)

DeleteUser == Unvalidated(Users(200, {204, 404},
    FindUser \o <<Check("ownsProjects", "Error"), Conflict("P2025", "Error")>>))

\* The second look at the token is the row's; then two writes and an e-mail.
ConfirmPasswordChange == Wrapped(Serves("nobody", 201, {200, 400},
    <<Ask("badToken", "PasswordChangeTokenInvalidError", "Error"), Conflict("P2025", "Error"),
      Conflict("P2025", "Error"), Read("Error")>>), "user")

-----------------------------------------------------------------------------
(* Chats                                                                   *)

\* A missing chat is a plain Error.
FindChat == Numbered(Ask("unknown", "Error", "Error")) \o <<Check("notMine", "ChatAccessDeniedError")>>

\* The foreign keys and the unique index decide about the insert.
OpenChat == <<Read("Error"), Ask("unknown", "Error", "Error"), Conflict("P2002", "never"), Read("Error")>>

\* checkSpamProtection lets the message pass when its query fails.
NotSpam == Ask("spam", "MessageSpamError", "none")

ValidContent == Check("badContent", "InvalidMessageContentError")

SendMessage == FindChat \o
    <<Check("closed", "ChatInactiveError"), ValidContent, NotSpam,
      Conflict("Error", "Error"), Conflict("P2025", "Error"), Read("Error")>>

\* isActive is transformed to a boolean before @IsBooleanString looks at it.
GetChats == Refusing(Serves("user", 200, {200, 401}, <<Check("badNumber", "Error")>> \o Page), {"optional"})

GetProjectChats == Serves("user", 200, {200, 401}, <<Check("badNumber", "Error")>> \o Page)

GetChatById == Serves("user", 200, {200, 401, 403, 404}, FindChat \o <<Read("Error")>>)

CreateOrGetChat == Serves("user", 201, {200, 401}, <<Check("badNumber", "Error")>> \o OpenChat)

GetMessages == Serves("user", 200, {200, 401, 403, 404}, FindChat \o Page)

CreateMessage == Serves("user", 201, {201, 400, 401, 403, 404}, SendMessage)

\* What goes wrong with one participant, in createMessage, is logged.
SendBroadcast == Serves("admin", 201, {201}, VerifyOwner \o
    <<Read("Error"), Check("closed", "none"), Check("badContent", "none"), Ask("spam", "none", "none")>>)

MarkChatAsRead == Serves("user", 200, {200, 401, 403, 404}, FindChat \o <<Conflict("P2025", "Error")>>)

DeactivateChat == Serves("user", 200, {200, 401, 403, 404}, FindChat \o <<Conflict("P2025", "Error")>>)

\* GET chat/status is taken for GET chat/:chatId.
CurrentUserOnlineStatus == Refusing(Serves("user", 200, {200, 401}, <<Read("Error")>>), Variant)

CreateOrGetChatMobile == Unvalidated(Serves("nobody", 201, {200, 400},
    <<FindProject, Conflict("ProjectNotFoundError", "ProjectNotFoundError"), FindMember>> \o OpenChat))

\* Prisma leaves out a filter that is undefined: asked for nobody, findFirst
\* finds anybody of the project, and the request is served as theirs.
AnyMember == <<FindProject, Check("noParticipant", "none"), FindMember>>

GetMessagesMobile == Serves("nobody", 200, {200, 404}, AnyMember \o FindChat \o Page)

CreateMessageMobile == Serves("nobody", 201, {201, 400, 404}, AnyMember \o SendMessage)

-----------------------------------------------------------------------------
(* Devices and analytics                                                   *)

\* No property of the two bodies has a validator: the pipe refuses them all.
RegisterMobile == Refusing(Serves("nobody", 200, {200, 400, 404},
    <<FindProject, FindMember, Conflict("Error", "Error")>>), Variant)

Unregister == Refusing(Serves("nobody", 200, {200}, <<Read("Error")>>), Variant)

AdminTest == Unvalidated(Serves("admin", 200, {200, 401}, <<Read("Error"), Read("Error")>>))

Analytics == Serves("admin", 200, {200},
    Numbered(FindProject) \o <<Check("notMine", "ForbiddenException"), Read("Error")>>)

GetOverview == Analytics

\* Two DTOs look at one query, and each refuses what only the other names.
GetNewParticipants == Refusing(Analytics, {"optional"})

GetParticipantsActivity == Analytics

GetChatStatistics == Analytics

-----------------------------------------------------------------------------
Table ==
    [login |-> Login, refresh |-> Refresh, logout |-> Logout, requestReset |-> RequestReset,
     resetPassword |-> ResetPassword, register |-> Register,
     createProject |-> CreateProject, getProjectById |-> GetProjectById,
     getProjectByUniqueId |-> GetProjectByUniqueId, getUserProjects |-> GetUserProjects,
     updateProject |-> UpdateProject, deleteProject |-> DeleteProject,
     checkUniqueIdAvailability |-> CheckUniqueIdAvailability,
     createParticipant |-> CreateParticipant, createParticipantMobile |-> CreateParticipantMobile,
     getProjectParticipants |-> GetProjectParticipants, getParticipantById |-> GetParticipantById,
     deleteParticipant |-> DeleteParticipant,
     getAllUsers |-> GetAllUsers, getUserById |-> GetUserById, updateUserByAdmin |-> UpdateUserByAdmin,
     deleteUser |-> DeleteUser, confirmPasswordChange |-> ConfirmPasswordChange,
     getChats |-> GetChats, getProjectChats |-> GetProjectChats, getChatById |-> GetChatById,
     createOrGetChat |-> CreateOrGetChat, getMessages |-> GetMessages, createMessage |-> CreateMessage,
     sendBroadcast |-> SendBroadcast, markChatAsRead |-> MarkChatAsRead, deactivateChat |-> DeactivateChat,
     getCurrentUserOnlineStatus |-> CurrentUserOnlineStatus,
     createOrGetChatMobile |-> CreateOrGetChatMobile, getMessagesMobile |-> GetMessagesMobile,
     createMessageMobile |-> CreateMessageMobile,
     registerMobile |-> RegisterMobile, unregister |-> Unregister, adminTest |-> AdminTest,
     getOverview |-> GetOverview, getNewParticipants |-> GetNewParticipants,
     getParticipantsActivity |-> GetParticipantsActivity, getChatStatistics |-> GetChatStatistics]

-----------------------------------------------------------------------------
(* Properties                                                              *)

\* The faults a status tells the caller of.
Tells ==
    [s \in {400, 401, 403, 404, 409} |->
        CASE s = 400 -> {"malformed", "badName", "badUniqueId", "weakPassword", "badToken", "taken"}
          [] s = 401 -> TokenFault \cup {"badPassword", "badToken"}
          [] s = 403 -> {"notAdmin", "notMine", "unknown", "badNumber"}
          [] s = 404 -> {"unknown", "unknownPerson", "badNumber"}
          [] s = 409 -> {"taken"}]

Messaging == {"createMessage", "createMessageMobile"}
InOneChat == Messaging \cup {"getChatById", "getMessages", "getMessagesMobile", "markChatAsRead", "deactivateChat"}

\* Faults of the caller that are answered 500: chat errors have no filter,
\* the users' strategy wraps what it does not know, the rest is left to the
\* database.
Unspoken ==
    InOneChat \X {"badNumber", "unknown", "notMine", "closed", "badContent", "spam"}
    \cup {"createOrGetChat", "createOrGetChatMobile"} \X {"unknown"}
    \cup {"getUserById", "updateUserByAdmin", "deleteUser"} \X {"badNumber", "ownsProjects"}
    \cup {"getChats", "getProjectChats", "createOrGetChat", "getParticipantById", "deleteParticipant"}
         \X {"badNumber"}
    \cup {"getChats", "getProjectChats", "getMessages", "getMessagesMobile", "getProjectParticipants",
           "getAllUsers"} \X {"badPage"}
    \cup {"createParticipant", "createParticipantMobile"} \X {"emailTaken"}
    \cup {"register"} \X {"noEmail", "noPassword", "noName"}
    \cup {<<"confirmPasswordChange", "badToken">>}

\* Faults of the caller that no answer tells of: a reset of a password tells
\* nobody anything, a broadcast logs the sends that are refused, and the rest
\* nobody looks for.
Overlooked ==
    {<<"requestReset", "unknown">>, <<"register", "badEmail">>}
    \cup {"sendBroadcast"} \X {"closed", "badContent", "spam"}
    \cup {"getMessagesMobile", "createMessageMobile"} \X {"noParticipant"}

\* Endpoints that call a failing database a missing project or a denied one.
CallsMissing ==
    {"getProjectById", "getProjectByUniqueId", "getUserProjects", "updateProject", "deleteProject",
     "createOrGetChatMobile", "getMessagesMobile", "createMessageMobile", "createParticipantMobile",
     "createParticipant", "getOverview", "getNewParticipants", "getParticipantsActivity", "getChatStatistics"}
CallsForbidden ==
    {"createParticipant", "getProjectParticipants", "getParticipantById", "deleteParticipant", "sendBroadcast"}

\* Endpoints that answer as if nothing had failed.
Covers == {"requestReset", "register", "getUserProjects", "checkUniqueIdAvailability", "sendBroadcast"} \cup Messaging

(* A refusal names what the caller got wrong, unless another request came  *)
(* in between, a pipe refuses what the API documents, or the endpoint is   *)
(* one of those that call a failing database a missing or denied project.  *)
RefusedForAReason ==
    stage = "done" /\ status \in 400 .. 499 =>
        \/ Tells[status] \cap wrong # {}
        \/ raced
        \/ status = 400 /\ variant \in My.refuses
        \/ broke /\ status = 404 /\ endpoint \in CallsMissing
        \/ broke /\ status = 403 /\ endpoint \in CallsForbidden

(* A server error means that a service failed or another request came in   *)
(* between, but for the faults of the caller that no filter knows.  A      *)
(* success means that nothing failed, but at the endpoints that answer as  *)
(* if a query, or the mail, had worked; and that nothing was wrong with    *)
(* the request but what is listed as overlooked, or spam whose check       *)
(* failed.                                                                 *)
FailureTold ==
    stage = "done" =>
        /\ status >= 500 => broke \/ raced \/ \E f \in wrong : <<endpoint, f>> \in Unspoken
        /\ status < 300 =>
              /\ broke => endpoint \in Covers
              /\ \A f \in wrong : \/ <<endpoint, f>> \in Overlooked
                                  \/ broke /\ f = "spam" /\ endpoint \in Messaging

\* What handlers answer and their decorators do not say.
Undocumented ==
    LET statistics == {"getOverview", "getNewParticipants", "getParticipantsActivity", "getChatStatistics"} IN
    {"confirmPasswordChange", "createOrGetChat", "createOrGetChatMobile"} \X {201}
    \cup {"deleteUser"} \X {200}
    \cup ({"createParticipant", "getProjectParticipants", "getParticipantById", "deleteParticipant",
           "sendBroadcast"} \cup statistics) \X {403}
    \cup ({"login", "confirmPasswordChange", "createOrGetChatMobile", "createParticipant",
           "createParticipantMobile", "getUserProjects"} \cup statistics) \X {404}
    \cup {"register", "updateUserByAdmin"} \X {409}

(* An answer is one its decorators document, or a server error, or a guard *)
(* or a pipe gives it; the handlers give no other but the listed ones.     *)
AnsweredAsDocumented ==
    stage = "done" /\ status \notin My.documented \cup {500} =>
        \/ status = 401 /\ wrong \cap TokenFault # {}
        \/ status = 403 /\ "notAdmin" \in wrong
        \/ status = 400 /\ ((My.validates /\ "malformed" \in wrong) \/ variant \in My.refuses)
        \/ <<endpoint, status>> \in Undocumented

=============================================================================
