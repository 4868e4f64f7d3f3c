----------------------------- MODULE Sessions ------------------------------
(* One account: its password, its refresh token and its pending password   *)
(* change, three columns of one row of User, and the requests that read    *)
(* and write them: AuthService's register, login, refreshTokens, logout    *)
(* and resetPassword, UserService's initiatePasswordChange and             *)
(* confirmPasswordChange.                                                  *)
(*                                                                         *)
(* pc[r] names the statement request r waits for; each is atomic and any   *)
(* other handler may run between two.  A signed token is determined by     *)
(* what it says and the second it was signed in, so two refresh tokens of  *)
(* one second are the same token.                                          *)
(***************************************************************************)
EXTENDS Naturals, FiniteSets

CONSTANTS
    Request,
    Password,
    Null,        \* an empty column
    MaxSecond,   \* bound: the clock stops here
    MaxTries     \* wrong passwords a day (3 in the code)

ASSUME SessionsAssumption ==
    /\ MaxSecond \in Nat /\ MaxTries \in Nat \ {0}
    /\ Null \notin Password \cup (Password \X Nat) \cup ({Null} \X Nat)

Second == 0 .. MaxSecond
Field  == {"password", "token", "change"}

\* What a signed token says, and when it was signed.
RefreshToken == {Null} \X Second
ChangeToken  == Password \X Second

VARIABLES
    row,      \* the row; no account while the password is Null
    clock,    \* in seconds
    tries,    \* passwordChangeAttempts' count, 0 for no entry
    dayPast,  \* whether its lastAttempt is more than 24 hours ago
    op,
    given,    \* the password or token a request presents
    new,      \* the password it asks for
    second,   \* when it signed its token
    pc,
    began,    \* history: the requests that had been answered when r began
    wrote,    \* history: the columns r has written
    missed,   \* history: the wrong passwords since tries was last reset
    counted   \* history: missed when r passed the limit

store   == <<row, clock>>
limit   == <<tries, dayPast, missed, counted>>
request == <<op, given, new, began>>
vars    == <<store, limit, request, second, pc, wrote>>

Op == {"register", "login", "refresh", "logout", "reset", "initiate", "confirm"}

\* The operations whose answer carries a refresh token.
Minting == {"register", "login", "refresh"}

Waiting == {"find", "create", "sign", "write", "revoke", "reply"}

TypeOK ==
    /\ row \in [password : Password \cup {Null}, token : RefreshToken \cup {Null},
                change : ChangeToken \cup {Null}]
    /\ clock \in Second
    /\ tries \in Nat /\ dayPast \in BOOLEAN
    /\ op \in [Request -> Op]
    /\ given \in [Request -> {Null} \cup Password \cup RefreshToken \cup ChangeToken]
    /\ new \in [Request -> Password \cup {Null}]
    /\ second \in [Request -> Second]
    /\ pc \in [Request -> {"idle", "done", "failed"} \cup Waiting]
    /\ began \in [Request -> SUBSET Request]
    /\ wrote \in [Request -> SUBSET Field]
    /\ missed \subseteq Request
    /\ counted \in [Request -> SUBSET Request]

Init ==
    /\ \/ /\ row \in [password : Password, token : {<<Null, 0>>, Null}, change : {Null}]
          /\ clock = 0
       \/ /\ row = [f \in Field |-> Null]
          /\ clock \in Second \cap {1}
    /\ tries = 0 /\ dayPast = FALSE
    /\ op = [r \in Request |-> "logout"]
    /\ given = [r \in Request |-> Null]
    /\ new = [r \in Request |-> Null]
    /\ second = [r \in Request |-> 0]
    /\ pc = [r \in Request |-> "idle"]
    /\ began = [r \in Request |-> {}]
    /\ wrote = [r \in Request |-> {}]
    /\ missed = {}
    /\ counted = [r \in Request |-> {}]

Goes(r, from, to) == pc[r] = from /\ pc' = [pc EXCEPT ![r] = to]

Writes(r, fields) == wrote' = [wrote EXCEPT ![r] = @ \cup fields]

-----------------------------------------------------------------------------
(* Requests arrive                                                         *)

\* A request for o that presents x and asks for password p.
Asks(r, o, x, p) ==
    /\ op' = [op EXCEPT ![r] = o]
    /\ given' = [given EXCEPT ![r] = x]
    /\ new' = [new EXCEPT ![r] = p]
    /\ began' = [began EXCEPT ![r] = {q \in Request : pc[q] = "done"}]
    /\ UNCHANGED <<store, second, wrote>>

\* <<Null, 0>> is the token of before; the others were answered.
BeginRefresh(r) ==
    /\ Goes(r, "idle", "find")
    /\ \E t \in {0} \cup {second[q] : q \in {m \in Request : pc[m] = "done" /\ op[m] \in Minting}} :
          Asks(r, "refresh", <<Null, t>>, Null)
    /\ UNCHANGED limit

BeginLogin(r) ==
    /\ Goes(r, "idle", "find")
    /\ \E p \in Password : Asks(r, "login", p, Null)
    /\ UNCHANGED limit

\* Behind the JWT guard, which has found the user.
BeginLogout(r) ==
    /\ row.password # Null
    /\ Goes(r, "idle", "write")
    /\ Asks(r, "logout", Null, Null)
    /\ UNCHANGED limit

\* register needs no account, resetPassword the token of an e-mail.
BeginUnasked(r) ==
    /\ Goes(r, "idle", "find")
    /\ \E o \in {"register", "reset"}, p \in Password : Asks(r, o, Null, p)
    /\ UNCHANGED limit

\* The token is in the e-mail that follows the statement.
BeginConfirm(r) ==
    /\ Goes(r, "idle", "find")
    /\ \E q \in Request :
          /\ op[q] = "initiate" /\ "change" \in wrote[q]
          /\ Asks(r, "confirm", <<new[q], second[q]>>, new[q])
    /\ UNCHANGED limit

\* Mutation: one wrong password too many.
MutUnderLimit == tries = 0 \/ dayPast \/ tries <= MaxTries

UnderLimit == tries = 0 \/ dayPast \/ tries < MaxTries

\* initiatePasswordChange passes checkPasswordChangeRateLimit: an entry older
\* than a day is replaced by one that counts an attempt.
BeginInitiate(r) ==
    /\ UnderLimit
    /\ Goes(r, "idle", "find")
    /\ \E x, p \in Password : Asks(r, "initiate", x, p)
    /\ tries' = IF tries > 0 /\ dayPast THEN 1 ELSE tries
    /\ missed' = IF tries > 0 /\ dayPast THEN {} ELSE missed
    /\ counted' = [counted EXCEPT ![r] = missed']
    /\ dayPast' = FALSE

Refuse(r) ==
    /\ ~UnderLimit
    /\ Goes(r, "idle", "failed")
    /\ \E x, p \in Password : Asks(r, "initiate", x, p)
    /\ UNCHANGED limit

-----------------------------------------------------------------------------
(* What they look up                                                       *)

FindByPassword(r) ==
    /\ op[r] \in {"login", "initiate"} /\ row.password = given[r]
    /\ Goes(r, "find", "sign")
    /\ UNCHANGED <<store, limit, request, second, wrote>>

\* initiatePasswordChange counts the wrong password.
WrongPassword(r) ==
    /\ op[r] = "initiate" /\ row.password # given[r]
    /\ Goes(r, "find", "failed")
    /\ tries' = tries + 1
    /\ dayPast' = FALSE
    /\ missed' = missed \cup {r}
    /\ UNCHANGED <<store, counted, request, second, wrote>>

FindByRefreshToken(r) ==
    /\ op[r] = "refresh" /\ row.token = given[r]
    /\ Goes(r, "find", "sign")
    /\ UNCHANGED <<store, limit, request, second, wrote>>

\* Mutation: the signature of the token is enough.
MutFindBySignature(r) ==
    /\ op[r] = "confirm" /\ row.password # Null
    /\ Goes(r, "find", "write")
    /\ UNCHANGED <<store, limit, request, second, wrote>>

FindByChangeToken(r) ==
    /\ op[r] = "confirm" /\ row.change = given[r]
    /\ Goes(r, "find", "write")
    /\ UNCHANGED <<store, limit, request, second, wrote>>

FindUser(r) ==
    /\ op[r] = "reset" /\ row.password # Null
    /\ Goes(r, "find", "write")
    /\ UNCHANGED <<store, limit, request, second, wrote>>

EmailFree(r) ==
    /\ op[r] = "register" /\ row.password = Null
    /\ Goes(r, "find", "create")
    /\ UNCHANGED <<store, limit, request, second, wrote>>

-----------------------------------------------------------------------------
(* What they write                                                         *)

\* The unique index on the e-mail address decides.
CreateUser(r) ==
    /\ row.password = Null
    /\ Goes(r, "create", "sign")
    /\ row' = [row EXCEPT !.password = new[r]]
    /\ Writes(r, {"password"})
    /\ UNCHANGED <<clock, limit, request, second>>

\* Mutation: the time of the token is in milliseconds.
MutSignMillis(r) ==
    /\ Goes(r, "sign", "write")
    /\ second' = [second EXCEPT ![r] = clock * 1000]
    /\ UNCHANGED <<store, limit, request, wrote>>

\* generateTokens and generatePasswordChangeToken.
Sign(r) ==
    /\ Goes(r, "sign", "write")
    /\ second' = [second EXCEPT ![r] = clock]
    /\ UNCHANGED <<store, limit, request, wrote>>

WriteToken(r) ==
    /\ op[r] \in Minting
    /\ Goes(r, "write", "reply")
    /\ row' = [row EXCEPT !.token = <<Null, second[r]>>]
    /\ Writes(r, {"token"})
    /\ UNCHANGED <<clock, limit, request, second>>

\* Mutation: logout leaves the token in the row.
MutKeepToken(r) ==
    /\ op[r] = "logout"
    /\ Goes(r, "write", "reply")
    /\ UNCHANGED <<store, limit, request, second, wrote>>

ClearToken(r) ==
    /\ op[r] = "logout"
    /\ Goes(r, "write", "reply")
    /\ row' = [row EXCEPT !.token = Null]
    /\ Writes(r, {"token"})
    /\ UNCHANGED <<clock, limit, request, second>>

\* resetPassword touches neither token.
ResetPassword(r) ==
    /\ op[r] = "reset"
    /\ Goes(r, "write", "reply")
    /\ row' = [row EXCEPT !.password = new[r]]
    /\ Writes(r, {"password"})
    /\ UNCHANGED <<clock, limit, request, second>>

WriteChange(r) ==
    /\ op[r] = "initiate"
    /\ Goes(r, "write", "reply")
    /\ row' = [row EXCEPT !.change = <<new[r], second[r]>>]
    /\ Writes(r, {"change"})
    /\ UNCHANGED <<clock, limit, request, second>>

\* updatePassword clears the column whatever it holds by now.
ChangePassword(r) ==
    /\ op[r] = "confirm"
    /\ Goes(r, "write", "revoke")
    /\ row' = [row EXCEPT !.password = new[r], !.change = Null]
    /\ Writes(r, {"password", "change"})
    /\ UNCHANGED <<clock, limit, request, second>>

\* Mutation: the refresh tokens are not revoked.
MutNoRevoke(r) ==
    /\ Goes(r, "revoke", "reply")
    /\ UNCHANGED <<store, limit, request, second, wrote>>

\* invalidateAllRefreshTokens
Revoke(r) ==
    /\ Goes(r, "revoke", "reply")
    /\ row' = [row EXCEPT !.token = Null]
    /\ Writes(r, {"token"})
    /\ UNCHANGED <<clock, limit, request, second>>

\* The last e-mail, if there is one, has been sent.
Reply(r) ==
    /\ op[r] # "confirm"
    /\ Goes(r, "reply", "done")
    /\ UNCHANGED <<store, limit, request, second, wrote>>

\* confirmPasswordChange forgets the wrong passwords.
ReplyConfirmed(r) ==
    /\ op[r] = "confirm"
    /\ Goes(r, "reply", "done")
    /\ tries' = 0 /\ dayPast' = FALSE /\ missed' = {}
    /\ UNCHANGED <<store, counted, request, second, wrote>>

\* A lookup that finds nothing, a statement that throws, or the e-mail of a
\* password change; register's may fail.
Fail(r) ==
    /\ pc[r] \in Waiting
    /\ pc[r] = "reply" => op[r] \in {"initiate", "confirm"}
    /\ pc' = [pc EXCEPT ![r] = "failed"]
    /\ UNCHANGED <<store, limit, request, second, wrote>>

-----------------------------------------------------------------------------
(* The world around                                                        *)

Tick ==
    /\ clock < MaxSecond
    /\ clock' = clock + 1
    /\ UNCHANGED <<row, limit, request, second, pc, wrote>>

DayPasses ==
    /\ tries > 0 /\ ~dayPast
    /\ dayPast' = TRUE
    /\ UNCHANGED <<store, tries, missed, counted, request, second, pc, wrote>>

\* The attempts are in memory.
Restart ==
    /\ tries' = 0 /\ dayPast' = FALSE /\ missed' = {}
    /\ pc' = [r \in Request |-> IF pc[r] \in Waiting THEN "failed" ELSE pc[r]]
    /\ UNCHANGED <<store, counted, request, second, wrote>>

Step(r) ==
    \/ BeginRefresh(r) \/ BeginLogin(r) \/ BeginLogout(r) \/ BeginUnasked(r)
    \/ BeginConfirm(r) \/ BeginInitiate(r) \/ Refuse(r)
    \/ FindByPassword(r) \/ WrongPassword(r) \/ FindByRefreshToken(r)
    \/ FindByChangeToken(r) \/ FindUser(r) \/ EmailFree(r)
    \/ CreateUser(r) \/ Sign(r) \/ WriteToken(r) \/ ClearToken(r)
    \/ ResetPassword(r) \/ WriteChange(r) \/ ChangePassword(r) \/ Revoke(r)
    \/ Reply(r) \/ ReplyConfirmed(r) \/ Fail(r)

Next == (\E r \in Request : Step(r)) \/ Tick \/ DayPasses \/ Restart

Spec == Init /\ [][Next]_vars

-----------------------------------------------------------------------------
(* Properties                                                              *)

\* The columns that a confirmed operation has written, and the one by which
\* an operation finds its user.
Promised ==
    [register |-> {"password", "token"}, login |-> {"token"}, refresh |-> {"token"},
     logout |-> {"token"}, reset |-> {"password"}, initiate |-> {"change"},
     confirm |-> {"password", "change", "token"}]

Key == [login |-> "password", initiate |-> "password", refresh |-> "token",
        confirm |-> "change"]

\* What r writes into column f.
Value(r, f) ==
    CASE f = "password" -> new[r]
      [] f = "token"    -> IF op[r] \in Minting THEN <<Null, second[r]>> ELSE Null
      [] f = "change"   -> IF op[r] = "initiate" THEN <<new[r], second[r]>> ELSE Null

\* Column f held x at some time since r began, or may have.
WrittenSince(r, f, x) ==
    \E m \in Request : f \in wrote[m] /\ m \notin began[r] /\ Value(m, f) = x

(* What was replaced is refused: a request that began after another was    *)
(* confirmed is not let in with a password or a token of before it, unless *)
(* a request that overlapped the other, or was later, wrote it again.      *)
SupersededRefused ==
    \A q \in Request :
        op[q] \in DOMAIN Key /\ pc[q] \in {"sign", "write", "revoke", "reply", "done"} =>
            \A r \in began[q] :
                Key[op[q]] \in Promised[op[r]] => WrittenSince(r, Key[op[q]], given[q])

(* What was confirmed stays: a column that a confirmed request has written *)
(* holds its value or that of a request that overlapped it or came later.  *)
(* So a logout or a password change is undone by no earlier request that   *)
(* had been answered, and no confirmed write is lost without a writer.     *)
ConfirmedStays ==
    \A r \in Request : pc[r] = "done" =>
        \A f \in Promised[op[r]] : WrittenSince(r, f, row[f])

(* More wrong passwords since the last reset of the counter than a day     *)
(* allows are those of requests that had passed checkPasswordChange-       *)
(* RateLimit before the other was counted.                                 *)
TriesExcessOverlaps ==
    Cardinality(missed) > MaxTries =>
        \E m1, m2 \in missed : m1 # m2 /\ m1 \notin counted[m2] /\ m2 \notin counted[m1]

-----------------------------------------------------------------------------
(* The abstract specification                                              *)

Asked == [r \in Request |-> [op |-> op[r], given |-> given[r], new |-> new[r]]]

PhaseAt(at) ==
    CASE at = "idle"                -> "new"
      [] at = "find"                -> "asked"
      [] at \in Waiting \ {"find"}  -> "let"
      [] at = "done"                -> "told"
      [] at = "failed"              -> "over"

Phase == [r \in Request |-> PhaseAt(pc[r])]

Promise == INSTANCE SessionsPromise WITH asked <- Asked, phase <- Phase, done <- wrote

(* The statements of the seven operations, in whatever order requests get  *)
(* theirs in, do what the steps of SessionsPromise do: who is let in has   *)
(* presented what the account held, nobody writes a column twice or one of *)
(* another operation, and an answer comes after all that it promises.      *)
KeepsPromise == Promise!Spec

-----------------------------------------------------------------------------
(* What the documentation says and the code does not do                    *)

(* "3 attempts per day" (user.service.ts:209, src/user/README.md:9): who   *)
(* is refused has missed as often since the day began.                     *)
RefusedAfterMaxTries ==
    [][\A r \in Request : Refuse(r) => Cardinality(missed) >= MaxTries]_vars

=============================================================================
