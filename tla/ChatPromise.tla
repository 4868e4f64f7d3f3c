---------------------------- MODULE ChatPromise ----------------------------
(***************************************************************************)
(* What getOrCreateChat promises, as if it were one step: whoever asks for *)
(* the chat of a key is given the one there is, or makes it.  A chat stays *)
(* until its key has gone with the project or a user, and then there is    *)
(* never another one.                                                      *)
(***************************************************************************)
CONSTANTS
    Key,      \* project, administrator and participant
    Request,  \* each names the chat it makes
    None      \* no chat

VARIABLES
    row,    \* the chat of each key
    gone,   \* keys without a project or a user
    given   \* <<r, k, c>>: request r asked for the chat of k and was given c

promise == <<row, gone, given>>

Init ==
    /\ row = [k \in Key |-> None]
    /\ gone = {}
    /\ given = {}

GetOrCreate(r, k) ==
    /\ \A g \in given : g[1] # r
    /\ \/ row[k] # None /\ UNCHANGED row
       \/ row[k] = None /\ k \notin gone /\ row' = [row EXCEPT ![k] = r]
    /\ given' = given \cup {<<r, k, row'[k]>>}
    /\ UNCHANGED gone

Vanish(S) ==
    /\ gone' = gone \cup S
    /\ row' = [k \in Key |-> IF k \in S THEN None ELSE row[k]]
    /\ UNCHANGED given

Next ==
    \/ \E r \in Request, k \in Key : GetOrCreate(r, k)
    \/ \E S \in SUBSET Key : Vanish(S)

Spec == Init /\ [][Next]_promise

=============================================================================
