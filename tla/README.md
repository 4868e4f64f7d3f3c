# A formal model of the chat CRM back end

The program is a NestJS server: one Node process, a PostgreSQL database reached
through Prisma, socket.io clients in the `/chat` namespace, HTTP controllers and
Firebase pushes. Administrators own projects and talk to the participants of
their projects, one chat per pair and project.

Everything hard about it comes from one fact: **a handler runs alone until it
awaits, and then any other handler may run**. Each Prisma call is one atomic
statement; there is no transaction anywhere in the code, so what one handler
read can be stale when it acts on it, and a handler that fails half way leaves
its first statements in the database. The modules below take exactly that as
their grain: one action per statement, with the synchronous code up to the next
`await` folded into it.

## Inventory

| Part | State it keeps | Operations | Hard about it |
|---|---|---|---|
| Presence (`chat.gateway.ts`, `online-status.service.ts`) | `connectedUsers` in memory, `User.isOnline` in the database | connect (token or mobile handshake), disconnect, reset at start | two records of one fact, written by handlers that interleave; several sockets per user; restarts |
| Conversation (`chat.service.ts`, chat and message repositories) | rows of `Chat` and `Message`, `spamTimeouts` in memory | send, mark as read, deactivate | check then act over several awaits; partial failure; order of broadcasts |
| Chat directory (`getOrCreateChat`, `createChat`) | rows of `Chat` per project, admin, participant | find or create | creation race against the unique index; deactivated chats are found for ever |
| Rooms and delivery (`join*`, `leave*`, emits) | socket.io rooms `chat_<id>`, `user_<id>` | join, leave, emit to room or to all, lists of chats, pages of messages | membership checked once, never revoked; a leave overtakes a join; lists of 20 and paging by offset over a column that moves |
| Broadcast (`sendBroadcastMessage`) | none of its own | one send per participant | meets the spam limit; errors swallowed |
| Projects, participants | rows of `Project`, `ProjectParticipant`, `User` | create, read, update, delete, list, count | look and write in two statements, races decided by the indexes; users shared by projects; cascades |
| Sessions (`auth.service.ts`) | `User.refreshToken`, `password` | login, refresh, logout, register, reset | read-then-write token rotation |
| Password change (`user.service.ts`) | attempt counters in memory, `passwordChangeToken` | initiate, confirm | limit checked before and counted after awaits |
| Devices and push (`notifications/`) | rows of `DeviceToken` | register, unregister, send, deactivate invalid | a token registered again while a push is in flight; deactivations that outlive their push |
| Controllers, guards, pipes, catch clauses, filters | none | refuse, throw, replace, swallow, answer | an error passes five places that may change it; pipes that refuse what is documented |
| Analytics, validation of text, e-mail | none | read, check, format | nothing concurrent |

How they meet: Conversation reads `isOnline`, which Presence writes, to decide
about a push; Broadcast calls the chat directory and then Conversation's send;
deleting a project or a user removes chats, messages and memberships by foreign
key; every handler that changes something emits to rooms.

What makes each correct: Presence shows a user online exactly while they are
connected, up to listed exceptions; Conversation stores what it confirms, never
lets a confirmed step be undone by one begun later, and limits the rate;
the directory gives a pair one chat; a client in a room, or with a page of
messages, misses nothing it was told it would get; an enrolment or a change of a
project is refused for a reason and leaves nothing behind; a registered device
gets the pushes of its user and of nobody else; sessions give one valid refresh
token; the password limit holds; every request is answered, with the status its
fault deserves. `PROJECT.json`
lists the hazards line by line.

## Modules

### Presence

`Presence.tla` models `ChatGateway.afterInit`, `handleConnection`,
`handleMobileConnection`, `handleDisconnect` and the two statements of
`OnlineStatusService`.

* `link` is the transport, `conn[s]` and `disc[s]` say which await the
  connection and disconnection handlers of socket `s` have reached.
* `Connect` runs the handler to its first database statement. The JWT check of
  a back-office client awaits, but does no I/O, so nothing comes between; a
  mobile client waits for `getParticipantUserId` first (`lookup`).
* `SetOnline`, `SetOffline`, `MarkAllUsersOffline` are the moments at which the
  database executes the statement, with a failing variant each. Prisma has a
  pool of connections, so statements in flight take effect in any order.
* `Disconnected` is what happens when a socket closes, whoever closes it: it
  leaves its rooms and `handleDisconnect` runs to its first await.
  `client.disconnect()` on a closed socket and `client.join` on one do nothing.
* `Restart` kills the process with all it had in flight; rows remain. A statement
  in flight at that moment has been executed or is lost.
* `overtook` and `resetLate` are history: which "online" landed after the
  "offline" that should have followed it, and whom the reset came too late for.

### Conversation

`Conversation.tla` models `ChatService.createMessage`, `markChatAsRead`,
`deactivateChat` with their repository calls, `MessageSpamStrategy`, and the
handlers (socket and HTTP) that call them and broadcast. `pc[r]` is the await
that request `r` has reached:

    send:   find -> spam -> insert -> touch [-> push] -> reply -> done
    read:   find -> mark -> zero -> reply -> done
    close:  find -> close -> reply -> done

and `failed` from each, `lost` at a crash. A message is the request that
stored it. `Fail` stands for every refusal and every throwing statement; the
spam query's own failure is caught in the code, hence `SendCheckSkipped`.
`Delete` is the cascade from a project or a user, `PresenceFlips` any write of
`isOnline`, `AgeOut` the oldest message leaving the 60-second window.
History: `began[r]` are the requests answered before `r` began, which is how
"earlier" and "later" are said of concurrent requests; `counted[r]` the messages
`r`'s spam check saw; `peerSeen[r]` the values the recipient's `isOnline` had
during `r`. No statement sets `Chat.unreadCount` to anything but 0, so the
column is no variable. `updatedAt` is not modelled: it orders lists only.

A statement that the database executes and whose answer is lost is not
modelled: `Fail` leaves the rows alone.

`ConversationPromise.tla` is the abstract specification: a request is let through
in one step, stores, reads or closes in one more, and is then told so, or is given
up at any moment. It cannot be less than two steps, since a message that was let
through is stored even if its chat has been closed meanwhile. `Conversation`
instantiates it (`Promise`) with `Phase`, which groups the awaits of `pc` by what
has been done before them: of the statements of a request two are visible, the
look at the chat and the write, and so are the answer and the end.

### ChatDirectory

`ChatDirectory.tla` models `createOrGetChat` (back office) and
`createOrGetChatMobile` with `ChatService.getOrCreateChat` and the repository's
`createChat`. `pc[r]` is the statement that request `r` waits for:

    office:  find -> map -> done
    mobile:  project -> again -> person -> find -> map -> done
    either, when the chat is not there:  find -> recheck [-> insert] -> map

`key[r]` is `<<projectId, adminId, participantId>>`, the table's unique key. A
back-office request may name any project and any participant, and the logged-in
user is the administrator; a mobile one gets the project's owner. A chat is the
request that inserted it, so `found[r] = r` says that `r` created what it
answers with. `InsertChat` is guarded by the foreign keys and the unique index
as the database is; when they refuse, the statement throws (`Fail`).
`Claim` and `Release` pass the unique id that the phones are configured with
between projects (`updateProject`), `Enrol` and `Remove` are memberships,
`DeleteProject` and `DeleteUser` cascade. The owner of a project cannot be
deleted: `Project.createdBy` has no cascade. A user deleted and enrolled again
is another element of `Person`, as it is another row.
History: `began[r]` are the chats created before `r` began, `enrolled[r]` the
memberships that existed at some time while `r` looked its participant up, and
`moved` the requests during whose lookups the unique id changed hands. A crash
needs no action: a request that never goes on has been lost, and the module
keeps nothing in memory.

`ChatPromise.tla` is the abstract specification: a table of keys in which
`GetOrCreate` finds the chat of a key or makes it, in one step, and a key that
`Vanish`es never comes back. `ChatDirectory` instantiates it (`Promise`): a
request has been given a chat once it has found or inserted one, so the statement
that finds or inserts is the abstract step and every other one a stutter, except
for deletions.

### Sessions

`Sessions.tla` models one account: the columns `password`, `refreshToken` and
`passwordChangeToken` of a row of `User`, and the requests that read and write
them, of `AuthService` (register, login, refresh, logout, reset) and
`UserService` (initiate and confirm a password change). `pc[r]` is the statement
that request `r` waits for:

    login, refresh:  find -> sign -> write -> reply -> done
    register:        find -> create -> sign -> write -> reply -> done
    logout:          write -> reply -> done
    reset:           find -> write -> reply -> done
    initiate:        find -> sign -> write -> reply -> done
    confirm:         find -> write -> revoke -> reply -> done

* A signed token is a pair: what it says (the user for a refresh token, the new
  password for a change) and the second it was signed in, since `iat` has no
  finer grain and the payload nothing random. Two refresh tokens of one second
  are equal, which the code's comparison with the column cannot tell apart.
* Passwords are values and a hash matches its password. The user's rows read
  before the password is compared (`getUserEmail`) hold nothing that changes
  here and are part of the lookup.
* `BeginInitiate` and `Refuse` are `checkPasswordChangeRateLimit`, which runs
  before the first await. `dayPast` says that `lastAttempt` is more than 24
  hours ago; `WrongPassword` is `incrementPasswordChangeAttempts`.
* `Restart` loses the attempts and the requests in flight, not the row.
* `Fail` is a refused lookup, a throwing statement or a failing e-mail of a
  password change (`register` catches its e-mail's failure). The expiry of the
  e-mailed tokens is such a failure; `refreshTokens` verifies no expiry, it only
  looks the token up.
* `initiatePasswordChange` and `confirmPasswordChange` are modelled as the
  service offers them; no controller calls the first yet. An administrator's
  password update (`updateUserByAdmin`) is the same two statements as a reset.
* History: `began[r]` are the requests answered before `r` began, `wrote[r]` the
  columns `r` has written, `missed` the wrong passwords since the counter was
  last cleared or reset, `counted[r]` what `missed` was when `r` passed the check.

`SessionsPromise.tla` is the abstract specification of all seven operations at
once: a request is let in by one look at the account, writes each of its own
columns once, and is told so after the last, or is given up at any moment with
some of them written. `Sessions` instantiates it (`Promise`): `Arrive` is a begin,
`LetIn` a lookup that finds its user, `Write` one of the seven writing statements,
`Tell` an answer, `GiveUp` a failure, a wrong password or a restart; signing and
the clock are stutters. It cannot say less: a registration writes the account and
its first token in two statements, a confirmation the password and the revocation
in two, and a request that was let in writes whatever was written meanwhile.

What the code does not promise, and the properties do not say: a refresh token
works until another one replaces it in the row, so a reset of the password ends
no session; and of two refreshes with one token both are answered, with only the
later writer's token working.

### Rooms

`Rooms.tla` models every event of `ChatGateway` that joins or leaves a room or
is told to one, the HTTP endpoints that tell all clients, the lists of chats, the
pages of messages and `sendBroadcastMessage`. A request is made by a client; a
client has one socket (`up`), `room[k]` are the chats whose room it is in, and
`heard[k]` what it has received. `pc[r]` is what request `r` waits for:

    join, update, mark as read:  auth -> find -> count [-> push] -> done
    join all, join a project's:  auth -> list -> count -> done
    leave, typing, mobile join:  auth -> done
    send, create:                auth -> find -> insert -> touch -> push -> done
    broadcast:                   auth -> participants -> next
                                 -> (find -> insert -> touch -> push -> next)* -> done
    messages:                    auth -> find -> page -> count -> done
    list of chats:               auth -> list -> list -> ... -> done

* `handleLeaveChat` looks at nothing but the token while `handleJoinChat` awaits
  the chat as well, so a leave can be answered before a join sent earlier. The
  mobile handlers of both look at no chat at all.
* `place[c]` is the position of a chat in the order of `updatedAt`; `Bump` is
  every statement that moves it (a message, a read, a deactivation, a creation).
* `SendBroadcast` goes on when one participant's statement throws (`Skip`), as
  the `catch` inside the loop does; the controller then tells every client.
* `ChatClosed` and `ChatDeleted` are the deactivation and the cascades; neither
  takes anybody out of a room. `Disconnect` is the closing of a socket.
* What Conversation has in detail is here one of the reasons for `Fail`: the spam
  check, the length of the message, the push.
* History: `began[r]` are the requests answered before `r` began, `past[r]` the
  rows of `Chat` then, `steady` the requests whose client has left no room since,
  `bumped` and `shrunk` what moved in or left the lists while `r` read them.

### Enrollment

`Enrollment.tla` models `ProjectService` and `ProjectParticipantService` over
their repositories and `UserService.deleteUser`:

    create a project:      check -> write -> done
    update, delete one:    find -> again [-> check] -> write -> done
    list projects:         reads -> rows or count -> done      (Promise.all)
    enrol a participant:   project [-> owner] -> free -> upsert -> join -> done
    read, remove one:      find -> owner [-> remove] -> done
    count participants:    owner -> tally -> done
    delete a user:         find -> erase -> done

* Each look and each write is a statement of its own; where the unique index or a
  foreign key refuses, the action ends in `Conflicts`. `project.repository.ts`
  turns that into a server error, so the loser of a race hears 500 and the one
  who came later 409.
* A project's number is never used again. Rows of `User` and `ProjectParticipant`
  have numbers too (`ids`), since a client names the row it has seen and another
  one may have taken its place.
* `UpsertUser` writes the names of a user all projects share before
  `CreateParticipant` joins it to the project; a refusal in between leaves them.
* `Excuse` is what a throwing statement makes the client hear: the repositories
  turn some of them into "missing" or "denied". `broken` remembers the requests.
* A *fact* is a used unique id, a project, a user, an e-mail address or a
  membership. History: `held[r]` are the facts when `r` began, `met[r]` those that
  have changed since, and so "was so at some moment of the request" can be said.

### Devices

`Devices.tla` extends `Enrollment` with the rows of `DeviceToken` (`holder`,
`active`) and the calls that register and unregister tokens and push:

    register:    project -> person -> upsert -> done
    unregister:  update -> done
    push:        tokens -> send -> ... -> send [-> silence] -> done

`SendChunk` is one chunk of `sendToTokens`, of which FCM delivers some, calls
some invalid and fails the others; `Silence` deactivates one of the invalid. These
run in parallel, the first to throw ends the push (`SilenceFails`) and the others
go on, so `dying[d]` can outlive the answer. `Cascade` rides on every step of
`Enrollment`: the tokens of a deleted user go with the row. The handlers are
modelled as if requests reached them; at present the pipe lets none through
(`refuses` of their rows in `Endpoints`).

### Errors and Endpoints

`Errors.tla` follows one request through Nest: `Authenticate`, `Authorize`,
`Validate`, `Work` (one statement of the handler), `Catch` (the service's catch
clause), `Filter` and `Answer`. `wrong` is the set of the caller's faults,
`broke` and `raced` are history: a service failed, another request came in
between. `Endpoints.tla` is the table it runs, one definition per endpoint: what
it needs, whether a pipe knows its body, what its pipes refuse although it is
documented, its statements with the error each throws, its catch clause, and the
statuses of its decorators.

* What a pipe recognises as malformed is refused before the handler. What no pipe
  looks at is a fault of its own, met by the statement that stumbles over it:
  numbers and pages that are no good to the database (`Numbered`, `Page`), what a
  registration lacks.
* `Tells` says which faults a status tells of, and three lists hold everything
  else: `Unspoken` the faults answered 500, `Overlooked` those a success may hide,
  `Covers` the endpoints that answer as if a failed query, or the mail, had worked.
* `Overlooked` has five entries: a reset for an unknown address (on purpose), the
  sends of a broadcast that are refused one by one, a badly formed e-mail address
  in a registration, whose body type is not a class, although
  `auth.controller.ts:317` documents `format: 'email'`, and the two mobile message
  endpoints without the required `participantId`: Prisma leaves out a filter that
  is undefined, so `findFirst` takes any participant of the project and the
  request is served as theirs.
* `refuses` lists what is documented and refused by a pipe. `main.ts` refuses every
  property no decorator names, and the two DTOs of the device endpoints have no
  decorators, so no phone can register or unregister although
  `notifications.controller.ts:59` calls the request valid. A partial update of a
  project, `isActive` of `GET chat`, the parameters of the new-participants
  statistics and `GET chat/status` fare likewise.

## Runs

| Run | Expected | Instance | Question |
|---|---|---|---|
| `presence` | pass | two tabs of one user, one phone of another | registry, the reasons for being shown online or offline, settling offline |
| `presence_multitab` | violation | same | does a user with two tabs open stay online while one of them is? No: both are open and done, one closes, and its "offline" hides the other |
| `presence_ghost` | violation | same | is a closed socket unregistered? Not one that closed during the lookup |
| `conversation` | pass | one chat, two requests, any operation by either member or an outsider, `SpamLimit` 1 | what each of the three operations promises, and that they are as good as two steps each (`KeepsPromise`) |
| `conversation_timeout` | violation | three sends by one user | does the 20-second timeout stop anything? No |
| `chat_directory` | pass | two requests, two projects of one owner, one more administrator, one participant | one chat per key, what `isNewChat` is worth, chats live as long as their parents, mobile chats only with members, and all of it as good as one step (`KeepsPromise`) |
| `chat_directory_new` | violation | same | was a chat called new created by the request? Not when the re-check has found another's |
| `sessions` | pass | one account, three requests of any kind, two passwords, two seconds, `MaxTries` 1 | what was replaced is refused, what was confirmed stays, the limit of wrong passwords, and that they are as good as one look and one write of each column (`KeepsPromise`) |
| `sessions_daily` | violation | same, `MaxTries` 2 | is a user refused only after that many wrong passwords a day? On the day after a miss, one earlier |
| `rooms` | pass | a browser of the administrator, a phone of the participant, two chats, eleven plans of up to four requests, one chat mortal, the browser may disconnect, `PageSize` 1 | who is in which room, what a client may miss, what is heard of closed chats |
| `enrollment` | pass | three projects, two administrators, two participants, an e-mail address, any two of nine requests after an enrolment and eleven plans more; and four plans of device calls beside enrolment and deletion, `Chunk` 1 | reasons of answers, traces of refusals, totals; tokens after registrations, pushes and deletions |
| `errors` | pass | every endpoint, every set of its faults, every statement failing or raced | which status for which reason |

**Bounds.** A socket connects once, a request is made once: the sets `Socket`
and `Request` bound the state spaces, and in `Rooms`, `Enrollment` and `Devices`
also `Plan`, which says what the requests ask.

* `presence`: two tabs of one user are the smallest case in which one handler
  undoes what the other did; the phone brings the lookup.
* `conversation`: all properties relate a request to one other request (the
  message and the deactivation, the message and the reader, two messages), so two
  requests show each case; with `SpamLimit` 1, the code's 30 scaled down, two
  messages exceed the limit.
* `chat_directory`: a race has two sides, a unique id passes between two
  projects, the second administrator makes two keys of one project, and each row
  a key refers to is deleted.
* `sessions`: the third request is the earlier one whose token or password the
  other two fight over; two seconds give different tokens and one second equal
  ones; two wrong passwords exceed `MaxTries` 1, the code's 3 scaled down (2 in the
  violation: a day that starts at 1 must leave one miss to be made).
* `rooms`: each plan is a scenario that one of the properties is about, and TLC
  interleaves its requests freely with the closing of the socket and of the chat.
  A list of `PageSize` 1, the code's 20 scaled down, is full with one chat, so two
  chats make two pages and leave one beyond a list. `Mortal` and `Drops` name
  the chat and the client of which these things happen; the others differ in
  nothing.
* `enrollment`: after one enrolment, two requests race in every combination of
  nine kinds, which covers each pair of a check and a write that disturbs it; the
  plans of three and four add the cases where two writes disturb one check. With
  `Chunk` 1, the code's 500 scaled down, two tokens make two chunks. Calls of
  phones run beside enrolment and deletion only: nothing else of `Enrollment` is
  visible to them.
* `chat_directory_new`: the same two requests.
* `errors`: nothing is scaled down; every set of the faults an endpoint can meet
  and every combination of failures.

The bounds of `Plan` are the model's and no assumption of the theorems, which
hold for every plan. `chat_directory`, `chat_directory_new`, `sessions`, `rooms`,
`enrollment` and `errors` run without the deadlock check: when all requests are
answered nothing is left to do.

**Fairness.** Only `presence` has a liveness property. Weak fairness is on the
database answering each statement (with success or failure) and the event loop
resuming each handler: Node never drops a resolved promise and Prisma bounds
each query. Nothing is assumed of clients or crashes. `Restart` forgets
statements in flight, and the reset it issues is itself fair. In the other modules
a request may stop anywhere for ever, which is also what a crash does to it.

**What the violations say.** The five `violation` runs quote a line of the
repository each; `PROJECT.json` gives the reading. The most visible is
`presence_multitab`: `handleDisconnect` clears `isOnline` without asking
`isUserOnline`. `ConnectedUserShownOnline` is temporal (once both tabs are open,
done and shown online, always as long as one is up), so that its counterexample
is a tab that closes beside one that stays, and no failed connection.
`chat_directory_new` is what `chat_directory` has to leave open: a chat called new
did not exist when the request began (`NewMeansRecent`), but two requests may both
be told that one chat is new.

## Proofs

`tlapm` proves, for every value of the constants and from the assumption each
module states on them only (`...Assumption`, evaluated by TLC in the runs):

* `PresenceProofs`: `TypeOK`, `RegistryTracksSockets`, `OnlineForAReason`,
  `OfflineForAReason`. Their conjunction with `Lifecycle` is inductive.
  `Lifecycle` is needed because none of the four says that a socket that never
  connected has no handler, or that one still up has no disconnection handler.
* `ConversationProofs`: `TypeOK`, the five safety properties of the run, the
  refinement `KeepsPromise` and `ClosedForGood`, an action property: no step makes
  a closed or deleted chat active again. The inductive invariant `IInv` has one
  part per property (`ReceiptsHold` has two) and `Flow`, which says
  what being at an await implies (the operation, membership, being stored, and
  that everything in `began[r]` has been answered, hence is frozen).
  * `Closing` adds that the chat of a deactivation about to be confirmed is
    not active, and is stable because nothing reactivates a chat; it covers
    requests already past the check, which will store their message later.
  * `Receipt` starts at the update of the rows, before the confirmation.
  * `Counting` carries the argument for the rate limit: if among a set of
    messages each two are related by one having counted the other, the newest
    has counted all the rest, and it was let through because it counted fewer
    than `SpamLimit`. So the set has at most `SpamLimit` elements, and more
    recent messages than that contain two that did not see each other.
  * `Pushing` ties the decision to one of the values `peerSeen` holds.
  * `BroadcastFollowsLog` is inductive once `Flow` says that a message being
    stored or broadcast is not in anybody's `began`.
  * `ConversationKeepsPromise` maps the admissions to `LetThrough`, the insert, the
    update of the rows and the deactivation to `Store`, `Read` and `Close`, the
    answers to `Tell`, every failure to `GiveUp` of one request and a crash to
    `GiveUp` of all, a deletion to `Vanish`, and every other step to a stutter.
    `Flow` is what it needs of the invariant: that who waits to insert is sending.
* `ChatDirectoryProofs`: `TypeOK`, the four safety properties of the run and the
  refinement `KeepsPromise`. The heart is `Creation`: a chat that was ever
  created is the row of its key as long as the rows it refers to exist, and two
  are never created for one key. It holds because deleted parents do not come
  back: after an insert the row can go only with a parent, and then the foreign
  keys refuse every later insert for that key. `Novelty` carries the first look
  forward: once `r` has found nothing, none of the chats it began with can be in
  its way while its parents live. `Lookup` carries `holder` from one lookup to
  the next while the unique id stays. `DirectoryKeepsPromise` maps a look that
  finds the chat and an insert to `GetOrCreate` for the request's key, a
  deletion to `Vanish` for the keys it takes, and every other step to a stutter.
* `SessionsProofs`: `TypeOK`, the three safety properties of the run and the
  refinement `KeepsPromise`. Three facts about a step carry most of it: `Kept` (what a request has presented and
  written stays), `RowWritten` (a column keeps its value or takes that of a
  request that is not answered yet) and `LetIn` (who gets past the lookup has
  presented what the column held). With them `Fresh` is inductive: no column's
  value is that of a request answered before another of its writers began. It is
  stronger than `ConfirmedStays`, which speaks of answered writers only, and it
  is what a lookup needs when it is let in, so `SupersededRefused` follows at
  that step. `Trying` is the argument of `Counting` for wrong passwords.
  `SessionsKeepPromise` needs two more parts: `Exactly` says which columns a
  request has written at each statement (`Flow` bounds them only where the others
  need it), `Asking` that what it presents and writes belongs to its operation.
* `ErrorsProofs`: `TypeOK` and the three properties of the run `errors`. `TypeOK`,
  and that nothing but a fault, a failure, a race or a pipe that knows less than
  is documented keeps a request from its success (`FaultlessServed`), hold for
  every table of endpoints; inductive with `Thrown`: an error on its way has a
  cause. The others are about the statuses, so they need to know what a table says:
  * `HonestTable` is that condition, on each row and each of its statements by
    itself: which error is thrown for which fault, and for a failing service. It is
    all that `RefusedForAReason`, `FailureTold` and `AnsweredAsDocumented` need
    (`HonestTablesAnswerHonestly`).
  * `TableIsHonest` proves it of the table of `Endpoints`, controller by
    controller (`AuthRows` to `DeviceRows`). A change of one endpoint has one row
    to be proved again.
  * `Course` is the invariant they share. It follows an error from where it was
    thrown (`ByGate`, `ByHandler`) through the catch clause (`Caught`) to the
    filter: an error is of a class its row owns, for the fault or failure it has.
* `EnrollmentProofs`: `TypeOK`, which holds the unique indexes and foreign keys,
  `AnsweredForAReason`, `RefusedLeavesNoTrace` and `TotalFits`. It assumes what
  `EnrollmentAssumption` says: there are finitely many projects (the ids are 32
  bits wide; `TotalFits` compares cardinalities), and only enrolments come from a
  phone. The invariant adds to the four properties:
  * `Control`, which says what a request that waits for a statement is asking;
  * `Numbers`: no number of a row is used twice;
  * `Track`, the reason why histories of facts work: a fact outside `met[r]` is
    now what it was when `r` began, so a change by any statement must be in
    `met` of all requests in progress;
  * `Knows`: what a request has checked still holds or is in `met[r]`. A statement
    that finds otherwise has its reason there;
  * `Names` and `Lists`, which carry the traces of a refusal and the two parallel
    reads from the statements to the answer.
* `RoomsProofs`: `TypeOK` and the five safety properties of the run. It assumes
  that there are finitely many chats, since pages are counted. `IInv` carries
  `RoomForAReason` and `ClosedRoomHearsOnly`, with `Control` as above, `Closed` (a
  chat closed when a request began is closed), `Checked` (what a request has seen
  of the chat it works on, and of those in its list, bounds what that chat was when
  the request began) and `Begun` (only answered requests are in `began`, none that
  is idle has been heard of). `MInv`, inductive beside it, carries the others:
  * `Positions`: in a finite set in an order, positions are taken without a gap.
    It needs no induction: an injection of a finite set into as many numbers is
    onto. So a page that leaves something out is full, and an empty page is the end.
  * `Logged`: each message is in the log once, its chat was not closed when its
    sender began, and a broadcast serves each participant once.
  * `Staying`: a client that left no room is in those it was told of; so what is
    told from then on it hears.
  * `Listed` and `SentLater`: why a chat is not in a list, at the time of the list
    and for everyone who sends later.
  * `CaughtUp` is `NothingMissed` from the moment the page is read; `NewerKept`
    says that what is hidden by newer messages stays hidden.
  * `Paging`: a chat not yet found is not before the next page. A row that moves to
    the front only pushes it back (`BelowKept`).
* `DevicesProofs`: `TypesOK`, `RegisteredStays`, `PushedOnlyToRegistered` and
  `InvalidSilenced` under every step of `Enrollment` and of the phones. To the
  invariant of `EnrollmentProofs` it adds:
  * `Stages`: what a call asks and has by the statement it waits for, and that the
    calls in `before` are over; so only calls in progress can disturb a fact;
  * `Taken`: an active token was registered for its holder since it was last taken
    away; a push that reads it then inherits the reason;
  * `Stays` and `Silenced`: `RegisteredStays` and `InvalidSilenced` from the moment
    deactivations can happen, not only once the push has been answered.

  That a deleted user's row never comes back (`CascadeKeeps`) rests on `Numbers`.

Only model-checked: the liveness property `AbsentUserSettlesOffline` (fairness and
ENABLED are outside the prover's reach) and the violations. Every other property
of a passing run is a theorem.

## Plan

What is left, in order:

1. Liveness of requests in `Conversation` under the fairness of `Presence`.
2. Pure operators: analytics sums and chunks of 500 against a reference
   definition.

## Not modelled

* The aggregates of the analytics are queries of the database with no state of
  their own; who may ask for them and what a failure answers is in `Endpoints`.
* The rules on the text of messages and passwords are pure functions of strings;
  that a text is refused, and with which status, is in `Endpoints`.
* E-mail is output: a template and a call whose failure is one of the reasons for
  `Fail`. Bootstrap is wiring, except for the pipe in `Errors`. The generated
  Prisma client is generated code; the schema's keys, indexes and cascades are
  guards and effects of the modules that use the tables.
* Profile fields of users and projects no property tells apart.
* A statement the database executes and whose answer is lost.
* Tokens, passwords and signatures are not inspected, only whether a check passes.
  Times are not numbers: a window or an expiry is an action that may happen.
