---------------------------- MODULE MC_Presence ----------------------------
(* Instances of Presence: two browser tabs of u1, and one mobile           *)
(* connection of u2.                                                       *)
EXTENDS Presence

MC_Owner == [s \in Socket |-> IF s = "phone2" THEN "u2" ELSE "u1"]

=============================================================================
