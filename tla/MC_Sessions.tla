---------------------------- MODULE MC_Sessions ----------------------------
(* Instances of Sessions: three requests of any kind, two passwords.       *)
EXTENDS Sessions, TLC

Symmetry == Permutations(Request) \cup Permutations(Password)

=============================================================================
