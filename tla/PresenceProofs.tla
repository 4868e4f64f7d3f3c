--------------------------- MODULE PresenceProofs ---------------------------
(* Proofs about Presence for every set of users and sockets.               *)
EXTENDS Presence, TLAPS

IInv == TypeOK /\ Lifecycle /\ RegistryTracksSockets /\ OnlineForAReason /\ OfflineForAReason

-----------------------------------------------------------------------------
(* Type correctness                                                        *)

LEMMA InitTypeOK == Init => TypeOK
BY DEF Init, TypeOK

LEMMA NextTypeOK == TypeOK /\ [Next]_vars => TypeOK'
<1> SUFFICES ASSUME TypeOK, [Next]_vars PROVE TypeOK'
  OBVIOUS
<1> USE SocketAssumption DEF TypeOK
<1>1. ASSUME NEW s \in Socket, Connect(s) PROVE TypeOK'
  BY <1>1 DEF Connect
<1>2. ASSUME NEW s \in Socket, Refuse(s) PROVE TypeOK'
  BY <1>2 DEF Refuse
<1>3. ASSUME NEW s \in Socket, ParticipantFound(s) PROVE TypeOK'
  BY <1>3 DEF ParticipantFound
<1>4. ASSUME NEW s \in Socket, ParticipantMissing(s) PROVE TypeOK'
  BY <1>4 DEF ParticipantMissing, Kick, Disconnected
<1>5. ASSUME NEW s \in Socket, SetOnline(s) PROVE TypeOK'
  BY <1>5 DEF SetOnline
<1>6. ASSUME NEW s \in Socket, SetOnlineFails(s) PROVE TypeOK'
  BY <1>6 DEF SetOnlineFails, Kick, Disconnected
<1>7. ASSUME NEW s \in Socket, FinishConnect(s) PROVE TypeOK'
  BY <1>7 DEF FinishConnect
<1>8. ASSUME NEW s \in Socket, Disconnect(s) PROVE TypeOK'
  BY <1>8 DEF Disconnect, Disconnected
<1>9. ASSUME NEW s \in Socket, SetOffline(s) PROVE TypeOK'
  BY <1>9 DEF SetOffline
<1>10. ASSUME NEW s \in Socket, SetOfflineFails(s) PROVE TypeOK'
  BY <1>10 DEF SetOfflineFails
<1>11. CASE MarkAllUsersOffline
  BY <1>11 DEF MarkAllUsersOffline
<1>12. CASE MarkAllUsersOfflineFails
  BY <1>12 DEF MarkAllUsersOfflineFails
<1>13. CASE Restart
  BY <1>13 DEF Restart
<1>14. CASE UNCHANGED vars
  BY <1>14 DEF vars
<1> QED
  BY <1>1, <1>2, <1>3, <1>4, <1>5, <1>6, <1>7, <1>8, <1>9, <1>10, <1>11, <1>12, <1>13, <1>14 DEF Next

(* Every variable of Presence keeps to its type in every behaviour.        *)
THEOREM TypeCorrect == Spec => []TypeOK
<1>1. QED
  BY InitTypeOK, NextTypeOK, PTL DEF Spec

-----------------------------------------------------------------------------
(* The inductive invariant                                                 *)

LEMMA InitIInv == Init => IInv
<1> SUFFICES ASSUME Init PROVE IInv
  OBVIOUS
<1>1. TypeOK
  BY InitTypeOK
<1>2. Lifecycle
  BY DEF Init, Lifecycle
<1>3. RegistryTracksSockets
  BY SocketAssumption DEF Init, RegistryTracksSockets
<1>4. OnlineForAReason
  BY DEF Init, OnlineForAReason
<1>5. OfflineForAReason
  BY DEF Init, OfflineForAReason, Connected
<1> QED
  BY <1>1, <1>2, <1>3, <1>4, <1>5 DEF IInv

LEMMA NextLifecycle == TypeOK /\ Lifecycle /\ [Next]_vars => Lifecycle'
<1> SUFFICES ASSUME TypeOK, Lifecycle, [Next]_vars PROVE Lifecycle'
  OBVIOUS
<1> USE SocketAssumption DEF TypeOK, Lifecycle
<1>1. ASSUME NEW s \in Socket, Connect(s) PROVE Lifecycle'
  BY <1>1 DEF Connect
<1>2. ASSUME NEW s \in Socket, Refuse(s) PROVE Lifecycle'
  BY <1>2 DEF Refuse
<1>3. ASSUME NEW s \in Socket, ParticipantFound(s) PROVE Lifecycle'
  BY <1>3 DEF ParticipantFound
<1>4. ASSUME NEW s \in Socket, ParticipantMissing(s) PROVE Lifecycle'
  BY <1>4 DEF ParticipantMissing, Kick, Disconnected
<1>5. ASSUME NEW s \in Socket, SetOnline(s) PROVE Lifecycle'
  BY <1>5 DEF SetOnline
<1>6. ASSUME NEW s \in Socket, SetOnlineFails(s) PROVE Lifecycle'
  BY <1>6 DEF SetOnlineFails, Kick, Disconnected
<1>7. ASSUME NEW s \in Socket, FinishConnect(s) PROVE Lifecycle'
  BY <1>7 DEF FinishConnect
<1>8. ASSUME NEW s \in Socket, Disconnect(s) PROVE Lifecycle'
  BY <1>8 DEF Disconnect, Disconnected
<1>9. ASSUME NEW s \in Socket, SetOffline(s) PROVE Lifecycle'
  BY <1>9 DEF SetOffline
<1>10. ASSUME NEW s \in Socket, SetOfflineFails(s) PROVE Lifecycle'
  BY <1>10 DEF SetOfflineFails
<1>11. CASE MarkAllUsersOffline
  BY <1>11 DEF MarkAllUsersOffline
<1>12. CASE MarkAllUsersOfflineFails
  BY <1>12 DEF MarkAllUsersOfflineFails
<1>13. CASE Restart
  BY <1>13 DEF Restart
<1>14. CASE UNCHANGED vars
  BY <1>14 DEF vars
<1> QED
  BY <1>1, <1>2, <1>3, <1>4, <1>5, <1>6, <1>7, <1>8, <1>9, <1>10, <1>11, <1>12, <1>13, <1>14 DEF Next

LEMMA NextRegistry == TypeOK /\ Lifecycle /\ RegistryTracksSockets /\ [Next]_vars => RegistryTracksSockets'
<1> SUFFICES ASSUME TypeOK, Lifecycle, RegistryTracksSockets, [Next]_vars PROVE RegistryTracksSockets'
  OBVIOUS
<1> USE SocketAssumption DEF TypeOK, Lifecycle, RegistryTracksSockets
<1>1. ASSUME NEW s \in Socket, Connect(s) PROVE RegistryTracksSockets'
  BY <1>1 DEF Connect
<1>2. ASSUME NEW s \in Socket, Refuse(s) PROVE RegistryTracksSockets'
  BY <1>2 DEF Refuse
<1>3. ASSUME NEW s \in Socket, ParticipantFound(s) PROVE RegistryTracksSockets'
  BY <1>3 DEF ParticipantFound
<1>4. ASSUME NEW s \in Socket, ParticipantMissing(s) PROVE RegistryTracksSockets'
  BY <1>4 DEF ParticipantMissing, Kick, Disconnected
<1>5. ASSUME NEW s \in Socket, SetOnline(s) PROVE RegistryTracksSockets'
  BY <1>5 DEF SetOnline
<1>6. ASSUME NEW s \in Socket, SetOnlineFails(s) PROVE RegistryTracksSockets'
  BY <1>6 DEF SetOnlineFails, Kick, Disconnected
<1>7. ASSUME NEW s \in Socket, FinishConnect(s) PROVE RegistryTracksSockets'
  BY <1>7 DEF FinishConnect
<1>8. ASSUME NEW s \in Socket, Disconnect(s) PROVE RegistryTracksSockets'
  BY <1>8 DEF Disconnect, Disconnected
<1>9. ASSUME NEW s \in Socket, SetOffline(s) PROVE RegistryTracksSockets'
  BY <1>9 DEF SetOffline
<1>10. ASSUME NEW s \in Socket, SetOfflineFails(s) PROVE RegistryTracksSockets'
  BY <1>10 DEF SetOfflineFails
<1>11. CASE MarkAllUsersOffline
  BY <1>11 DEF MarkAllUsersOffline
<1>12. CASE MarkAllUsersOfflineFails
  BY <1>12 DEF MarkAllUsersOfflineFails
<1>13. CASE Restart
  BY <1>13 DEF Restart
<1>14. CASE UNCHANGED vars
  BY <1>14 DEF vars
<1> QED
  BY <1>1, <1>2, <1>3, <1>4, <1>5, <1>6, <1>7, <1>8, <1>9, <1>10, <1>11, <1>12, <1>13, <1>14 DEF Next

LEMMA NextOnline == TypeOK /\ Lifecycle /\ OnlineForAReason /\ [Next]_vars => OnlineForAReason'
<1> SUFFICES ASSUME TypeOK, Lifecycle, OnlineForAReason, [Next]_vars PROVE OnlineForAReason'
  OBVIOUS
<1> USE SocketAssumption DEF TypeOK, Lifecycle, OnlineForAReason, SocketsOf, Connected
<1>1. ASSUME NEW s \in Socket, Connect(s) PROVE OnlineForAReason'
  BY <1>1 DEF Connect
<1>2. ASSUME NEW s \in Socket, Refuse(s) PROVE OnlineForAReason'
  BY <1>2 DEF Refuse
<1>3. ASSUME NEW s \in Socket, ParticipantFound(s) PROVE OnlineForAReason'
  BY <1>3 DEF ParticipantFound
<1>4. ASSUME NEW s \in Socket, ParticipantMissing(s) PROVE OnlineForAReason'
  BY <1>4 DEF ParticipantMissing, Kick, Disconnected
<1>5. ASSUME NEW s \in Socket, SetOnline(s) PROVE OnlineForAReason'
  BY <1>5 DEF SetOnline
<1>6. ASSUME NEW s \in Socket, SetOnlineFails(s) PROVE OnlineForAReason'
  BY <1>6 DEF SetOnlineFails, Kick, Disconnected
<1>7. ASSUME NEW s \in Socket, FinishConnect(s) PROVE OnlineForAReason'
  BY <1>7 DEF FinishConnect
<1>8. ASSUME NEW s \in Socket, Disconnect(s) PROVE OnlineForAReason'
  BY <1>8 DEF Disconnect, Disconnected
<1>9. ASSUME NEW s \in Socket, SetOffline(s) PROVE OnlineForAReason'
  BY <1>9 DEF SetOffline
<1>10. ASSUME NEW s \in Socket, SetOfflineFails(s) PROVE OnlineForAReason'
  BY <1>10 DEF SetOfflineFails
<1>11. CASE MarkAllUsersOffline
  BY <1>11 DEF MarkAllUsersOffline
<1>12. CASE MarkAllUsersOfflineFails
  BY <1>12 DEF MarkAllUsersOfflineFails
<1>13. CASE Restart
  BY <1>13 DEF Restart
<1>14. CASE UNCHANGED vars
  BY <1>14 DEF vars
<1> QED
  BY <1>1, <1>2, <1>3, <1>4, <1>5, <1>6, <1>7, <1>8, <1>9, <1>10, <1>11, <1>12, <1>13, <1>14 DEF Next

LEMMA NextOffline == TypeOK /\ Lifecycle /\ OfflineForAReason /\ [Next]_vars => OfflineForAReason'
<1> SUFFICES ASSUME TypeOK, Lifecycle, OfflineForAReason, [Next]_vars PROVE OfflineForAReason'
  OBVIOUS
<1> USE SocketAssumption DEF TypeOK, Lifecycle, OfflineForAReason, SocketsOf, Connected
<1>1. ASSUME NEW s \in Socket, Connect(s) PROVE OfflineForAReason'
  BY <1>1 DEF Connect
<1>2. ASSUME NEW s \in Socket, Refuse(s) PROVE OfflineForAReason'
  BY <1>2 DEF Refuse
<1>3. ASSUME NEW s \in Socket, ParticipantFound(s) PROVE OfflineForAReason'
  BY <1>3 DEF ParticipantFound
<1>4. ASSUME NEW s \in Socket, ParticipantMissing(s) PROVE OfflineForAReason'
  BY <1>4 DEF ParticipantMissing, Kick, Disconnected
<1>5. ASSUME NEW s \in Socket, SetOnline(s) PROVE OfflineForAReason'
  BY <1>5 DEF SetOnline
<1>6. ASSUME NEW s \in Socket, SetOnlineFails(s) PROVE OfflineForAReason'
  BY <1>6 DEF SetOnlineFails, Kick, Disconnected
<1>7. ASSUME NEW s \in Socket, FinishConnect(s) PROVE OfflineForAReason'
  BY <1>7 DEF FinishConnect
<1>8. ASSUME NEW s \in Socket, Disconnect(s) PROVE OfflineForAReason'
  BY <1>8 DEF Disconnect, Disconnected
<1>9. ASSUME NEW s \in Socket, SetOffline(s) PROVE OfflineForAReason'
  BY <1>9 DEF SetOffline
<1>10. ASSUME NEW s \in Socket, SetOfflineFails(s) PROVE OfflineForAReason'
  BY <1>10 DEF SetOfflineFails
<1>11. CASE MarkAllUsersOffline
  BY <1>11 DEF MarkAllUsersOffline
<1>12. CASE MarkAllUsersOfflineFails
  BY <1>12 DEF MarkAllUsersOfflineFails
<1>13. CASE Restart
  BY <1>13 DEF Restart
<1>14. CASE UNCHANGED vars
  BY <1>14 DEF vars
<1> QED
  BY <1>1, <1>2, <1>3, <1>4, <1>5, <1>6, <1>7, <1>8, <1>9, <1>10, <1>11, <1>12, <1>13, <1>14 DEF Next

LEMMA InductiveInvariant == Spec => []IInv
<1>1. IInv /\ [Next]_vars => IInv'
  BY NextTypeOK, NextLifecycle, NextRegistry, NextOnline, NextOffline DEF IInv
<1> QED
  BY InitIInv, <1>1, PTL DEF Spec

-----------------------------------------------------------------------------
(* The properties of Presence                                              *)

(* connectedUsers and the transports agree for every socket, whatever the  *)
(* interleaving of connection and disconnection handlers and restarts.     *)
THEOREM RegistryCorrect == Spec => []RegistryTracksSockets
<1>1. IInv => RegistryTracksSockets
  BY DEF IInv
<1> QED
  BY InductiveInvariant, <1>1, PTL

(* After boot's reset a user is shown online only for one of the reasons   *)
(* OnlineForAReason names.                                                 *)
THEOREM OnlineOnlyForAReason == Spec => []OnlineForAReason
<1>1. IInv => OnlineForAReason
  BY DEF IInv
<1> QED
  BY InductiveInvariant, <1>1, PTL

(* A connected user is shown offline only because another of the user's    *)
(* sockets went away or boot's reset landed late.                          *)
THEOREM OfflineOnlyForAReason == Spec => []OfflineForAReason
<1>1. IInv => OfflineForAReason
  BY DEF IInv
<1> QED
  BY InductiveInvariant, <1>1, PTL

=============================================================================
