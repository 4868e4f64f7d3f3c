--------------------------- MODULE MC_ChatDirectory ---------------------------
(* Instances of ChatDirectory: two projects of one administrator, so that  *)
(* a unique id can pass from one to the other, another administrator, and  *)
(* requests that race.                                                     *)
EXTENDS ChatDirectory, TLC

OneOwner == [p \in Project |-> "owner"]

Symmetry == Permutations(Request) \cup Permutations(Project)

=============================================================================
