-------------------------- MODULE SessionsPromise --------------------------
(***************************************************************************)
(* What AuthService and UserService promise about an account, a password   *)
(* and two tokens that anybody may be given.  Seven operations are of one  *)
(* form: a request is let in if the account is as the operation needs it,  *)
(* which is looked at once; then it writes its own columns, each of them   *)
(* once, though not all at a time; and it is told so when it has written   *)
(* them all.  It may be given up at any moment, with some of them written. *)
(***************************************************************************)
CONSTANTS
    Request, Password,
    Null,          \* an empty column
    RefreshToken,
    Second         \* when a token to change the password may have been made

VARIABLES
    row,     \* the account: password, token and change
    asked,   \* what each request asks
    phase,   \* how far it is
    done     \* the columns it has written

promise == <<row, asked, phase, done>>

Column == {"password", "token", "change"}

\* Who changes the password to p with a token has been sent it for p.
Ask ==
    [op : {"register", "reset"}, given : {Null}, new : Password]
    \cup [op : {"login"}, given : Password, new : {Null}]
    \cup [op : {"refresh"}, given : RefreshToken, new : {Null}]
    \cup [op : {"logout"}, given : {Null}, new : {Null}]
    \cup [op : {"initiate"}, given : Password, new : Password]
    \cup {[op |-> "confirm", given |-> <<p, s>>, new |-> p] : p \in Password, s \in Second}

\* The columns of each operation, and the one that what is given must match.
Columns ==
    [register |-> {"password", "token"}, login |-> {"token"}, refresh |-> {"token"},
     logout |-> {"token"}, reset |-> {"password"}, initiate |-> {"change"},
     confirm |-> {"password", "change", "token"}]

Match == [login |-> "password", initiate |-> "password", refresh |-> "token",
          confirm |-> "change"]

\* What a may write into column f.
Worth(a, f) ==
    CASE f = "password" -> {a.new}
      [] f = "token"    -> IF a.op \in {"register", "login", "refresh"} THEN RefreshToken ELSE {Null}
      [] f = "change"   -> IF a.op = "initiate" THEN {a.new} \X Second ELSE {Null}

Init ==
    /\ row \in [password : Password, token : RefreshToken \cup {Null}, change : {Null}]
               \cup [password : {Null}, token : {Null}, change : {Null}]
    /\ asked \in [Request -> Ask]
    /\ phase = [r \in Request |-> "new"]
    /\ done = [r \in Request |-> {}]

Moves(r, from, to) == phase[r] = from /\ phase' = [phase EXCEPT ![r] = to]

\* A logout is let in where it arrives, by the guard of its endpoint, and a
\* change of the password may be turned away there.
Arrive(r) ==
    /\ phase[r] = "new"
    /\ \E a \in Ask : asked' = [asked EXCEPT ![r] = a]
    /\ \/ Moves(r, "new", "asked") /\ asked'[r].op # "logout"
       \/ Moves(r, "new", "let") /\ asked'[r].op = "logout" /\ row.password # Null
       \/ Moves(r, "new", "over") /\ asked'[r].op = "initiate"
    /\ UNCHANGED <<row, done>>

LetIn(r) ==
    /\ Moves(r, "asked", "let")
    /\ asked[r].op \in DOMAIN Match => row[Match[asked[r].op]] = asked[r].given
    /\ asked[r].op = "register" => row.password = Null
    /\ asked[r].op = "reset" => row.password # Null
    /\ UNCHANGED <<row, asked, done>>

\* An account is made once.
Write(r, F) ==
    /\ phase[r] = "let"
    /\ F \subseteq Columns[asked[r].op] \ done[r]
    /\ asked[r].op = "register" /\ "password" \in F => row.password = Null
    /\ row' = [f \in Column |-> IF f \in F THEN row'[f] ELSE row[f]]
    /\ \A f \in F : row'[f] \in Worth(asked[r], f)
    /\ done' = [done EXCEPT ![r] = @ \cup F]
    /\ UNCHANGED <<asked, phase>>

Tell(r) ==
    /\ Moves(r, "let", "told")
    /\ done[r] = Columns[asked[r].op]
    /\ UNCHANGED <<row, asked, done>>

GiveUp(R) ==
    /\ phase' = [r \in Request |-> IF r \in R /\ phase[r] \in {"asked", "let"} THEN "over" ELSE phase[r]]
    /\ UNCHANGED <<row, asked, done>>

Next ==
    \/ \E r \in Request : Arrive(r) \/ LetIn(r) \/ Tell(r)
    \/ \E r \in Request, F \in SUBSET Column : Write(r, F)
    \/ \E R \in SUBSET Request : GiveUp(R)

Spec == Init /\ [][Next]_promise

=============================================================================
