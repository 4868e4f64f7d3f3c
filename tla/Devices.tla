------------------------------- MODULE Devices -------------------------------
(***************************************************************************)
(* Device tokens and pushes beside the enrolment of the participants they  *)
(* belong to: NotificationsController, PushNotificationsService and their  *)
(* repository and provider.  A phone registers its token for a participant *)
(* of a project and unregisters it; a push reads the active tokens of a    *)
(* user, hands them to FCM in chunks and deactivates those FCM calls       *)
(* invalid.  A token is one row whoever registers it (DeviceToken.token is *)
(* unique), and it goes with its user.                                     *)
(*                                                                         *)
(* A call is a request of this module.  It may stop for ever, as when the  *)
(* process dies.                                                           *)
(***************************************************************************)
EXTENDS Enrollment

CONSTANTS
    Call,
    Token,
    CallPlan,   \* bound: what the calls ask
    Chunk       \* tokens handed to FCM at once: 500 in the code

CallOperation == {"register", "unregister", "push", "none"}

ASSUME DevicesAssumption ==
    /\ CallPlan \subseteq [Call -> [op : CallOperation, token : Token, person : Person, uid : Uid]]
    /\ Chunk \in Nat \ {0}

VARIABLES
    holder,   \* the User row of each token's DeviceToken row, 0 without one
    active,   \* tokens whose row has isActive
    call,     \* what each call asks, an element of CallPlan
    cpc,      \* the statement or answer a call waits for
    found,    \* register: the project found
    user,     \* the User row a call registers for or pushes to
    unsent,   \* push: tokens read and not yet handed to FCM
    batch,    \* push: tokens read
    sent,     \* push: tokens FCM delivered to
    invalid,  \* push: tokens FCM called invalid
    dying,    \* push: tokens whose deactivation is under way
    before    \* history: the calls over when the call began

devices == <<holder, active>>
calls   == <<call, found, user, unsent, batch, sent, invalid, dying, before>>
deviceVars == <<devices, calls, cpc>>

CallAwaiting == {"project", "person", "upsert", "update", "tokens", "send", "silence"}

DeviceTypeOK ==
    /\ holder \in [Token -> Nat]
    /\ \A t \in Token : holder[t] # 0 => \E x \in Person : account[x] = holder[t]
    /\ active \subseteq {t \in Token : holder[t] # 0}
    /\ call \in CallPlan
    /\ cpc \in [Call -> {"idle", "done", "failed"} \cup CallAwaiting]
    /\ found \in [Call -> Project] /\ user \in [Call -> Nat]
    /\ unsent \in [Call -> SUBSET Token] /\ batch \in [Call -> SUBSET Token]
    /\ \A d \in Call : sent[d] \cup invalid[d] \subseteq batch[d] \ unsent[d]
    /\ \A d \in Call : dying[d] \subseteq invalid[d] /\ sent[d] \cap invalid[d] = {}
    /\ before \in [Call -> SUBSET Call]

TypesOK == TypeOK /\ DeviceTypeOK

-----------------------------------------------------------------------------
Asked(d)    == call[d].op
Answered(d) == cpc[d] \in {"done", "failed"}
\* Deactivations may outlive the answer of their push.
Over(d)     == Answered(d) /\ dying[d] = {}

CallGoes(d, from, to) == cpc[d] = from /\ cpc' = [cpc EXCEPT ![d] = to]

Exists(n) == n # 0 /\ \E x \in Person : account[x] = n

DeviceInit ==
    /\ Init
    /\ holder = [t \in Token |-> 0] /\ active = {}
    /\ call \in CallPlan
    /\ cpc = [d \in Call |-> "idle"]
    /\ found \in [Call -> live] /\ \A c, d \in Call : found[c] = found[d]
    /\ user = [d \in Call |-> 0]
    /\ unsent = [d \in Call |-> {}] /\ batch = [d \in Call |-> {}]
    /\ sent = [d \in Call |-> {}] /\ invalid = [d \in Call |-> {}]
    /\ dying = [d \in Call |-> {}]
    /\ before = [d \in Call |-> {}]

\* A push is for a user there is: the other member of a chat.
BeginCall(d) ==
    /\ \/ /\ Asked(d) = "register" /\ CallGoes(d, "idle", "project")
          /\ UNCHANGED user
       \/ /\ Asked(d) = "unregister" /\ CallGoes(d, "idle", "update")
          /\ UNCHANGED user
       \/ /\ Asked(d) = "push" /\ CallGoes(d, "idle", "tokens")
          /\ account[call[d].person] # 0
          /\ user' = [user EXCEPT ![d] = account[call[d].person]]
    /\ before' = [before EXCEPT ![d] = {c \in Call : Over(c)}]
    /\ UNCHANGED <<devices, call, found, unsent, batch, sent, invalid, dying>>

\* A statement throws, or Firebase cannot be initialised.  Only the
\* deactivations run on by themselves (SilenceFails).
FailCall(d) ==
    /\ cpc[d] \in CallAwaiting \ {"silence"}
    /\ cpc' = [cpc EXCEPT ![d] = "failed"]
    /\ UNCHANGED <<devices, calls>>

-----------------------------------------------------------------------------
(* Registering                                                             *)

\* getProjectByUniqueIdPublic
RegisterFor(d) ==
    /\ \/ CallGoes(d, "project", "failed") /\ Named(call[d].uid) = {} /\ UNCHANGED found
       \/ /\ CallGoes(d, "project", "person")
          /\ \E p \in Named(call[d].uid) : found' = [found EXCEPT ![d] = p]
    /\ UNCHANGED <<devices, call, user, unsent, batch, sent, invalid, dying, before>>

\* findParticipantByParticipantId
RegisterWhom(d) ==
    LET x == call[d].person IN
    /\ \/ CallGoes(d, "person", "failed") /\ member[<<found[d], x>>] = 0 /\ UNCHANGED user
       \/ /\ CallGoes(d, "person", "upsert") /\ member[<<found[d], x>>] # 0
          /\ user' = [user EXCEPT ![d] = account[x]]
    /\ UNCHANGED <<devices, call, found, unsent, batch, sent, invalid, dying, before>>

\* Mutation: an existing row keeps its state.
MutRegisterToken(d) ==
    LET t == call[d].token IN
    /\ CallGoes(d, "upsert", "done") /\ Exists(user[d])
    /\ holder' = [holder EXCEPT ![t] = user[d]]
    /\ active' = IF holder[t] = 0 THEN active \cup {t} ELSE active
    /\ UNCHANGED calls

\* registerOrUpdateDevice takes the token over from whoever held it.
RegisterToken(d) ==
    LET t == call[d].token IN
    /\ CallGoes(d, "upsert", "done") /\ Exists(user[d])
    /\ holder' = [holder EXCEPT ![t] = user[d]]
    /\ active' = active \cup {t}
    /\ UNCHANGED calls

\* The foreign key: the user was deleted meanwhile.
RegisterTokenFails(d) ==
    /\ CallGoes(d, "upsert", "failed") /\ ~Exists(user[d])
    /\ UNCHANGED <<devices, calls>>

\* deactivateToken, whether there is a row or not.
Unregister(d) ==
    /\ CallGoes(d, "update", "done")
    /\ active' = active \ {call[d].token}
    /\ UNCHANGED <<holder, calls>>

-----------------------------------------------------------------------------
(* Pushing                                                                 *)

\* Mutation: inactive tokens are read as well.
MutReadTokens(d) ==
    LET tokens == {t \in Token : holder[t] = user[d]} IN
    /\ CallGoes(d, "tokens", IF tokens = {} THEN "done" ELSE "send")
    /\ unsent' = [unsent EXCEPT ![d] = tokens] /\ batch' = [batch EXCEPT ![d] = tokens]
    /\ UNCHANGED <<devices, call, found, user, sent, invalid, dying, before>>

\* getActiveTokensByUserId
ReadTokens(d) ==
    LET tokens == {t \in active : holder[t] = user[d]} IN
    /\ CallGoes(d, "tokens", IF tokens = {} THEN "done" ELSE "send")
    /\ unsent' = [unsent EXCEPT ![d] = tokens] /\ batch' = [batch EXCEPT ![d] = tokens]
    /\ UNCHANGED <<devices, call, found, user, sent, invalid, dying, before>>

\* FCM takes a chunk and says of each token that it was delivered to, is
\* invalid or failed; of a chunk that throws all have failed.
SendChunk(d) ==
    /\ cpc[d] = "send"
    /\ \E S \in SUBSET unsent[d] :
          /\ Cardinality(S) = Chunk \/ (S = unsent[d] /\ Cardinality(S) < Chunk)
          /\ unsent' = [unsent EXCEPT ![d] = @ \ S]
          /\ \E bad \in SUBSET S :
                /\ invalid' = [invalid EXCEPT ![d] = @ \cup bad]
                /\ \E good \in SUBSET (S \ bad) : sent' = [sent EXCEPT ![d] = @ \cup good]
    /\ dying' = [dying EXCEPT ![d] = IF unsent'[d] = {} THEN invalid'[d] ELSE {}]
    /\ cpc' = [cpc EXCEPT ![d] = IF unsent'[d] # {} THEN "send"
                                 ELSE IF invalid'[d] = {} THEN "done" ELSE "silence"]
    /\ UNCHANGED <<devices, call, found, user, batch, before>>

\* Mutation: only the tokens still held by the user are deactivated, the
\* first one only.
MutSilence(d, t) ==
    /\ t \in dying[d] /\ cpc[d] = "silence"
    /\ active' = active \ {t}
    /\ dying' = [dying EXCEPT ![d] = {}]
    /\ cpc' = [cpc EXCEPT ![d] = "done"]
    /\ UNCHANGED <<holder, call, found, user, unsent, batch, sent, invalid, before>>

\* deactivateToken of one invalid token, whoever holds it by now; the call
\* is answered after the last one.
Silence(d, t) ==
    /\ t \in dying[d]
    /\ active' = active \ {t}
    /\ dying' = [dying EXCEPT ![d] = @ \ {t}]
    /\ cpc' = IF cpc[d] = "silence" /\ dying'[d] = {} THEN [cpc EXCEPT ![d] = "done"] ELSE cpc
    /\ UNCHANGED <<holder, call, found, user, unsent, batch, sent, invalid, before>>

\* The first deactivation to throw answers the call (Promise.all); the
\* others run on.
SilenceFails(d, t) ==
    /\ t \in dying[d]
    /\ dying' = [dying EXCEPT ![d] = @ \ {t}]
    /\ cpc' = [cpc EXCEPT ![d] = "failed"]
    /\ UNCHANGED <<devices, call, found, user, unsent, batch, sent, invalid, before>>

-----------------------------------------------------------------------------
\* Mutation: the tokens of a deleted user stay.
MutCascade == UNCHANGED devices

\* The tokens of a deleted user go with the row.
Cascade ==
    /\ holder' = [t \in Token |->
          IF \E x \in Person : account'[x] = holder[t] THEN holder[t] ELSE 0]
    /\ active' = {t \in active : holder'[t] # 0}

CallStep(d) ==
    \/ BeginCall(d) \/ FailCall(d)
    \/ RegisterFor(d) \/ RegisterWhom(d) \/ RegisterToken(d) \/ RegisterTokenFails(d)
    \/ Unregister(d) \/ ReadTokens(d) \/ SendChunk(d)
    \/ \E t \in Token : Silence(d, t) \/ SilenceFails(d, t)

EnrollmentStep == Next /\ Cascade /\ UNCHANGED <<calls, cpc>>

DeviceNext ==
    \/ EnrollmentStep
    \/ \E d \in Call : CallStep(d) /\ UNCHANGED vars

DeviceSpec == DeviceInit /\ [][DeviceNext]_<<vars, deviceVars>>

-----------------------------------------------------------------------------
(* Properties                                                              *)

Registered(c, t) == Asked(c) = "register" /\ call[c].token = t /\ cpc[c] = "done"

(* Once a registration has been answered the token is active and its       *)
(* user's, until its user is deleted or a call that was not over before    *)
(* the registration began registers or unregisters the token or is told    *)
(* by FCM that it is invalid.  A push that read the token earlier may do   *)
(* that to a token that has just been registered again, for whoever has    *)
(* it by then (deactivateToken), even after the push itself has been       *)
(* answered.                                                               *)
RegisteredStays ==
    \A c \in Call : Asked(c) = "register" /\ cpc[c] = "done" =>
        LET t == call[c].token IN
        \/ t \in active /\ holder[t] = user[c]
        \/ ~Exists(user[c])
        \/ \E d \in Call \ (before[c] \cup {c}) :
              \/ Registered(d, t)
              \/ Asked(d) = "unregister" /\ call[d].token = t /\ cpc[d] = "done"
              \/ t \in invalid[d] \ dying[d]

\* A call that was answered took the token from the user n.
TakenAway(c, t, n) ==
    \/ Asked(c) = "unregister" /\ call[c].token = t /\ cpc[c] = "done"
    \/ Registered(c, t) /\ user[c] # n

(* A push reads no token that was unregistered, or registered for another  *)
(* user, by a call answered before the push began, unless a registration   *)
(* for its own user overlapped or followed that call.                      *)
PushedOnlyToRegistered ==
    \A d \in Call : \A t \in batch[d], c \in before[d] :
        TakenAway(c, t, user[d]) =>
            \E b \in Call \ before[c] : Registered(b, t) /\ user[b] = user[d]

(* A token a successful push was told is invalid is active no more, unless *)
(* it has been registered again since before the push ended, or while a    *)
(* deactivation of the push was under way.                                 *)
InvalidSilenced ==
    \A d \in Call : cpc[d] = "done" =>
        \A t \in invalid[d] \cap active :
            \E c \in Call \ before[d] : Registered(c, t)

=============================================================================
