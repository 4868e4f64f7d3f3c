------------------------ MODULE ConversationPromise ------------------------
(***************************************************************************)
(* What ChatService promises about a chat.  A request is let through in    *)
(* one step, does what it was asked in one more, and is then told so; or   *)
(* it is given up, before or after it has done it.  Between the two steps  *)
(* anybody may act: a message of a request that was let through may be     *)
(* stored in a chat that has been closed meanwhile.  No chat opens again.  *)
(***************************************************************************)
EXTENDS Sequences, Functions

CONSTANTS
    Request, Chat,
    Ask,                 \* an operation, by a user, on a chat
    Admin, Participant   \* the two members of each chat

VARIABLES
    state,  \* of each chat: "active", "inactive" or "gone"
    box,    \* the messages in the order they were stored
    seen,   \* those that have been read
    asked,  \* what each request asks
    phase,  \* how far it is
    told    \* the messages in the order they were broadcast

promise == <<state, box, seen, asked, phase, told>>

InFlight == {"asked", "let", "did"}

Init ==
    /\ state \in [Chat -> {"active", "inactive"}]
    /\ box = <<>> /\ seen = {} /\ told = <<>>
    /\ asked \in [Request -> Ask]
    /\ phase = [r \in Request |-> "new"]

Moves(r, from, to) == phase[r] = from /\ phase' = [phase EXCEPT ![r] = to]

Arrive(r) ==
    /\ Moves(r, "new", "asked")
    /\ \E a \in Ask : asked' = [asked EXCEPT ![r] = a]
    /\ UNCHANGED <<state, box, seen, told>>

\* Members only, and nothing is sent to a chat that is closed.
LetThrough(r) ==
    /\ Moves(r, "asked", "let")
    /\ asked[r].user \in {Admin[asked[r].chat], Participant[asked[r].chat]}
    /\ state[asked[r].chat] # "gone"
    /\ asked[r].op = "send" => state[asked[r].chat] = "active"
    /\ UNCHANGED <<state, box, seen, asked, told>>

Store(r) ==
    /\ Moves(r, "let", "did")
    /\ asked[r].op = "send" /\ state[asked[r].chat] # "gone"
    /\ box' = Append(box, r)
    /\ UNCHANGED <<state, seen, asked, told>>

\* All the messages of the chat, but the reader's own.
Read(r) ==
    /\ Moves(r, "let", "did")
    /\ asked[r].op = "read"
    /\ seen' = seen \cup {m \in Range(box) :
                            /\ asked[m].chat = asked[r].chat /\ asked[m].user # asked[r].user
                            /\ state[asked[r].chat] # "gone"}
    /\ UNCHANGED <<state, box, asked, told>>

Close(r) ==
    /\ Moves(r, "let", "did")
    /\ asked[r].op = "close" /\ state[asked[r].chat] # "gone"
    /\ state' = [state EXCEPT ![asked[r].chat] = "inactive"]
    /\ UNCHANGED <<box, seen, asked, told>>

Tell(r) ==
    /\ Moves(r, "did", "told")
    /\ told' = IF asked[r].op = "send" THEN Append(told, r) ELSE told
    /\ UNCHANGED <<state, box, seen, asked>>

\* An error does not say whether the request has done what it was asked.
GiveUp(R) ==
    /\ phase' = [r \in Request |-> IF r \in R /\ phase[r] \in InFlight THEN "over" ELSE phase[r]]
    /\ UNCHANGED <<state, box, seen, asked, told>>

Vanish(c) ==
    /\ state' = [state EXCEPT ![c] = "gone"]
    /\ UNCHANGED <<box, seen, asked, phase, told>>

Next ==
    \/ \E r \in Request :
          Arrive(r) \/ LetThrough(r) \/ Store(r) \/ Read(r) \/ Close(r) \/ Tell(r)
    \/ \E R \in SUBSET Request : GiveUp(R)
    \/ \E c \in Chat : Vanish(c)

Spec == Init /\ [][Next]_promise

=============================================================================
