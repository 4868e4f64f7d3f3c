-------------------------- MODULE MC_Conversation --------------------------
(* Instances of Conversation: one chat between an administrator and a      *)
(* participant (member), and in the first a user who belongs to neither    *)
(* side of it.                                                             *)
EXTENDS Conversation, TLC

MC_Admin       == [c \in Chat |-> "admin"]
MC_Participant == [c \in Chat |-> "member"]

AskOf(op, u) == [op |-> op, user |-> u, chat |-> "c1"]

MC_Any  == {AskOf(op, u) : op \in {"send", "read", "close"}, u \in User}
MC_Few  == {AskOf("send", "admin"), AskOf("read", "member"), AskOf("close", "member")}
MC_Send == {AskOf("send", "admin")}

Symmetry == Permutations(Request)

=============================================================================
