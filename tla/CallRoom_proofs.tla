--------------------------- MODULE CallRoom_proofs ---------------------------
(***************************************************************************)
(* What holds of a call room and its recap scheduler for every meeting:    *)
(* any number of people, tabs, Room objects, racing creations, recap runs  *)
(* and restarts.                                                           *)
(***************************************************************************)
EXTENDS CallRoom, FiniteSetTheorems, TLAPS

\* createRouter answers with an object nobody connected holds.
LEMMA FreshRoom ==
    ASSUME FreeRooms # {}
    PROVE  LET r == CHOOSE x \in FreeRooms : TRUE
           IN  /\ r \in RoomIds
               /\ r # live
               /\ \A t \in Sockets : sock[t] = "up" => mine[t] # r
BY DEF FreeRooms, InUse

\* Every variable keeps its type: in particular no wait for createRouter is
\* settled twice, so creating stays a natural number.
LEMMA TypeStep == TypeOK /\ [Next]_vars => TypeOK'
<1> SUFFICES ASSUME TypeOK, [Next]_vars PROVE TypeOK'
  OBVIOUS
<1> USE CallAssumption, TimerAssumption DEF TypeOK, TimerTypeOK, Stages
<1>1. ASSUME NEW s \in Sockets, JoinFindsNone(s) PROVE TypeOK'
  BY <1>1 DEF JoinFindsNone, roomVars, timerVars
<1>2. ASSUME NEW s \in Sockets, JoinFindsRoom(s) PROVE TypeOK'
  <2>1. Alive(peers[live]) \subseteq Sockets /\ live \in RoomIds /\ UserOf[s] \in Users
    BY <1>2 DEF JoinFindsRoom, Alive
  <2>2. /\ UNCHANGED <<live, locked, kicked, timerVars, sock, creating, doomed, restarts>>
        /\ client' \in [Sockets -> {"in", "out"}]
    BY <1>2 DEF JoinFindsRoom
  <2>3. CASE Refused(live, UserOf[s])
    BY <1>2, <2>1, <2>2, <2>3 DEF JoinFindsRoom, timerVars
  <2>4. CASE ~Refused(live, UserOf[s])
    <3>1. /\ peers' = [peers EXCEPT ![live] = Alive(peers[live]) \union {s}]
          /\ session' = [session EXCEPT ![live] = session[live] \union {UserOf[s]}]
          /\ mine' = [mine EXCEPT ![s] = live]
          /\ peerSet' = [peerSet EXCEPT ![s] = TRUE]
      BY <1>2, <2>4 DEF JoinFindsRoom
    <3>2. /\ peers' \in [RoomIds -> SUBSET Sockets]
          /\ session' \in [RoomIds -> SUBSET Users]
      BY <2>1, <3>1
    <3>3. mine' \in [Sockets -> RoomIds \union {NoRoom}] /\ peerSet' \in [Sockets -> BOOLEAN]
      BY <2>1, <3>1
    <3> QED BY <2>2, <3>2, <3>3 DEF timerVars
  <2> QED BY <2>3, <2>4
<1>3. ASSUME NEW s \in Sockets, RoomCreated(s) PROVE TypeOK'
  BY <1>3, FreshRoom DEF RoomCreated, NewRoom, CancelScheduledRecap, MarkCallStarted
<1>4. ASSUME NEW s \in Sockets, CreationFails(s) PROVE TypeOK'
  BY <1>4 DEF CreationFails, roomVars, timerVars
<1>5. ASSUME NEW s \in Sockets, ExitRoom(s)
      PROVE  /\ TimerTypeOK'
             /\ live' \in RoomIds \union {NoRoom}
             /\ peers' \in [RoomIds -> SUBSET Sockets]
             /\ session' \in [RoomIds -> SUBSET Users]
             /\ locked' \in [RoomIds -> BOOLEAN]
             /\ kicked' \in [RoomIds -> SUBSET Users]
             /\ mine' \in [Sockets -> RoomIds \union {NoRoom}]
             /\ peerSet' \in [Sockets -> BOOLEAN]
  <2>1. CASE InRoom(s)
    <3>1. mine[s] \in RoomIds /\ RemovePeer(s)
      BY <1>5, <2>1 DEF ExitRoom, InRoom
    <3>2. session[mine[s]] \in SUBSET Users /\ peers[mine[s]] \ {s} \in SUBSET Sockets
      BY <3>1
    <3>3. mine' = [mine EXCEPT ![s] = NoRoom] /\ peerSet' = [peerSet EXCEPT ![s] = FALSE]
      BY <1>5, <2>1 DEF ExitRoom
    <3>4. /\ peers' = [peers EXCEPT ![mine[s]] = peers[mine[s]] \ {s}]
          /\ UNCHANGED <<session, locked, kicked, started, run>>
          /\ \/ UNCHANGED <<live, pending, spinner>>
             \/ live' = NoRoom /\ pending' = session[mine[s]] /\ spinner' = TRUE
      BY <3>1 DEF RemovePeer, ScheduleRecap
    <3> QED BY <3>1, <3>2, <3>3, <3>4
  <2>2. CASE ~InRoom(s)
    BY <1>5, <2>2 DEF ExitRoom, roomVars, timerVars
  <2> QED BY <2>1, <2>2
<1>6. ASSUME NEW s \in Sockets, Leave(s) PROVE TypeOK'
  BY <1>5, <1>6 DEF Leave
<1>7. ASSUME NEW s \in Sockets, Disconnect(s), doomed' \in SUBSET Sockets PROVE TypeOK'
  BY <1>5, <1>7 DEF Disconnect
<1>8. ASSUME NEW s \in Sockets, SocketLost(s) PROVE TypeOK'
  BY <1>7, <1>8 DEF SocketLost
<1>9. ASSUME NEW s \in Sockets, Connect(s) PROVE TypeOK'
  BY <1>9 DEF Connect, roomVars, timerVars
<1>10. ASSUME NEW s \in Sockets, NEW value \in BOOLEAN, Lock(s, value) PROVE TypeOK'
  BY <1>10 DEF Lock, sockVars, timerVars
<1>11. ASSUME NEW s \in Sockets, NEW target \in Sockets, Kick(s, target) PROVE TypeOK'
  BY <1>11 DEF Kick, InRoom, timerVars
<1>12. ASSUME NEW s \in Sockets, KickFires(s) PROVE TypeOK'
  BY <1>7, <1>12 DEF KickFires, roomVars, timerVars
<1>13. CASE GraceEnds
  BY <1>13 DEF GraceEnds, TimerFires, StartRun, roomVars, sockVars
<1>14. ASSUME NEW k \in Runs, RunProgress(k) PROVE TypeOK'
  BY <1>14 DEF RunProgress, RunSaves, RunEnds, roomVars, sockVars
<1>15. CASE FieldRecording
  BY <1>15 DEF FieldRecording, FieldStart, FieldFinish, MarkCallStarted, StartRun, roomVars, sockVars
<1>16. CASE Restart
  BY <1>16 DEF Restart
<1>17. CASE UNCHANGED vars
  BY <1>17 DEF vars, roomVars, sockVars, timerVars
<1> QED
  BY <1>1, <1>2, <1>3, <1>4, <1>6, <1>8, <1>9, <1>10, <1>11, <1>12, <1>13, <1>14,
     <1>15, <1>16, <1>17 DEF Next

THEOREM TypeCorrect == Spec => []TypeOK
<1>1. Init => TypeOK
  <2>1. TimerInit => TimerTypeOK
    BY DEF TimerInit, TimerTypeOK, Stages
  <2> QED BY <2>1 DEF Init, TypeOK
<1> QED
  BY <1>1, TypeStep, PTL DEF Spec
-----------------------------------------------------------------------------
\* The three invariants hold of every step for reasons of their own; each is
\* inductive once the types are known.

\* A room enters the map only together with a cancelled timer, and a timer is
\* armed only together with the map's entry being deleted.
LEMMA TimerStep == NoTimerWhileRoomOpen /\ [Next]_vars => NoTimerWhileRoomOpen'
<1> SUFFICES ASSUME NoTimerWhileRoomOpen, [Next]_vars PROVE NoTimerWhileRoomOpen'
  OBVIOUS
<1> USE DEF NoTimerWhileRoomOpen
<1>1. ASSUME NEW s \in Sockets, RoomCreated(s) PROVE NoTimerWhileRoomOpen'
  BY <1>1 DEF RoomCreated, CancelScheduledRecap
<1>2. ASSUME NEW s \in Sockets, ExitRoom(s) PROVE NoTimerWhileRoomOpen'
  BY <1>2 DEF ExitRoom, RemovePeer, roomVars, timerVars
<1>3. ASSUME NEW s \in Sockets, Leave(s) \/ SocketLost(s) PROVE NoTimerWhileRoomOpen'
  BY <1>2, <1>3 DEF Leave, SocketLost, Disconnect
<1>4. ASSUME NEW s \in Sockets, KickFires(s) PROVE NoTimerWhileRoomOpen'
  BY <1>2, <1>4 DEF KickFires, Disconnect, roomVars, timerVars
<1>5. ASSUME NEW s \in Sockets, JoinFindsNone(s) \/ JoinFindsRoom(s) \/ CreationFails(s) \/ Connect(s)
      PROVE  NoTimerWhileRoomOpen'
  BY <1>5 DEF JoinFindsNone, JoinFindsRoom, CreationFails, Connect, roomVars, timerVars
<1>6. ASSUME NEW s \in Sockets, NEW value \in BOOLEAN, Lock(s, value) PROVE NoTimerWhileRoomOpen'
  BY <1>6 DEF Lock, timerVars
<1>7. ASSUME NEW s \in Sockets, NEW target \in Sockets, Kick(s, target) PROVE NoTimerWhileRoomOpen'
  BY <1>7 DEF Kick, timerVars
<1>8. CASE GraceEnds
  BY <1>8 DEF GraceEnds, TimerFires
<1>9. ASSUME NEW k \in Runs, RunProgress(k) PROVE NoTimerWhileRoomOpen'
  BY <1>9 DEF RunProgress, RunSaves, RunEnds, roomVars
<1>10. CASE FieldRecording
  BY <1>10 DEF FieldRecording, FieldStart, FieldFinish, roomVars
<1>11. CASE Restart
  BY <1>11 DEF Restart
<1>12. CASE UNCHANGED vars
  BY <1>12 DEF vars, roomVars, timerVars
<1> QED
  BY <1>1, <1>3, <1>4, <1>5, <1>6, <1>7, <1>8, <1>9, <1>10, <1>11, <1>12 DEF Next

\* Joining a room and creating one put the peer and its user in together.
LEMMA SessionStep == TypeOK /\ SessionCoversPeers /\ [Next]_vars => SessionCoversPeers'
<1> SUFFICES ASSUME TypeOK, SessionCoversPeers, [Next]_vars,
                    NEW r \in RoomIds, NEW p \in peers'[r]
             PROVE  UserOf[p] \in session'[r]
  BY DEF SessionCoversPeers
<1> USE DEF TypeOK, SessionCoversPeers
<1>1. ASSUME NEW s \in Sockets, RoomCreated(s) PROVE UserOf[p] \in session'[r]
  <2> DEFINE new == CHOOSE x \in FreeRooms : TRUE
  <2>1. /\ new \in RoomIds
        /\ peers' = [peers EXCEPT ![new] = {s}]
        /\ session' = [session EXCEPT ![new] = {UserOf[s]}]
    BY <1>1, FreshRoom DEF RoomCreated, NewRoom
  <2> HIDE DEF new
  <2> QED BY <2>1
<1>2. ASSUME NEW s \in Sockets, JoinFindsRoom(s) PROVE UserOf[p] \in session'[r]
  <2>1. live \in RoomIds /\ Alive(peers[live]) \subseteq peers[live]
    BY <1>2 DEF JoinFindsRoom, Alive
  <2>2. CASE Refused(live, UserOf[s])
    BY <1>2, <2>1, <2>2 DEF JoinFindsRoom
  <2>3. CASE ~Refused(live, UserOf[s])
    <3>1. /\ peers' = [peers EXCEPT ![live] = Alive(peers[live]) \union {s}]
          /\ session' = [session EXCEPT ![live] = session[live] \union {UserOf[s]}]
      BY <1>2, <2>3 DEF JoinFindsRoom
    <3> QED BY <2>1, <3>1
  <2> QED BY <2>2, <2>3
<1>3. ASSUME NEW s \in Sockets, ExitRoom(s) PROVE UserOf[p] \in session'[r]
  <2>1. CASE InRoom(s)
    BY <1>3, <2>1 DEF ExitRoom, InRoom, RemovePeer
  <2>2. CASE ~InRoom(s)
    BY <1>3, <2>2 DEF ExitRoom, roomVars
  <2> QED BY <2>1, <2>2
<1>4. ASSUME NEW s \in Sockets, Leave(s) \/ SocketLost(s) PROVE UserOf[p] \in session'[r]
  BY <1>3, <1>4 DEF Leave, SocketLost, Disconnect
<1>5. ASSUME NEW s \in Sockets, KickFires(s) PROVE UserOf[p] \in session'[r]
  BY <1>3, <1>5 DEF KickFires, Disconnect, roomVars
<1>6. ASSUME NEW s \in Sockets, JoinFindsNone(s) \/ CreationFails(s) \/ Connect(s)
      PROVE  UserOf[p] \in session'[r]
  BY <1>6 DEF JoinFindsNone, CreationFails, Connect, roomVars
<1>7. ASSUME NEW s \in Sockets, NEW value \in BOOLEAN, Lock(s, value)
      PROVE  UserOf[p] \in session'[r]
  BY <1>7 DEF Lock
<1>8. ASSUME NEW s \in Sockets, NEW target \in Sockets, Kick(s, target)
      PROVE  UserOf[p] \in session'[r]
  BY <1>8 DEF Kick
<1>9. CASE GraceEnds \/ FieldRecording \/ \E k \in Runs : RunProgress(k)
  BY <1>9 DEF GraceEnds, FieldRecording, RunProgress, roomVars
<1>10. CASE Restart
  BY <1>10 DEF Restart
<1>11. CASE UNCHANGED vars
  BY <1>11 DEF vars, roomVars
<1> QED
  BY <1>1, <1>2, <1>4, <1>5, <1>6, <1>7, <1>8, <1>9, <1>10, <1>11 DEF Next

\* The sweep keeps the connected, a new object is held by nobody connected,
\* and whoever exits drops the handle.
LEMMA HandleStep == TypeOK /\ HandleIsListed /\ [Next]_vars => HandleIsListed'
<1> SUFFICES ASSUME TypeOK, HandleIsListed, [Next]_vars,
                    NEW t \in Sockets, sock'[t] = "up", mine'[t] # NoRoom
             PROVE  peerSet'[t] /\ t \in peers'[mine'[t]]
  BY DEF HandleIsListed
<1> DEFINE Listed == peerSet'[t] /\ t \in peers'[mine'[t]]
<1> USE DEF TypeOK, HandleIsListed
<1>1. ASSUME NEW s \in Sockets, RoomCreated(s) PROVE Listed
  <2> DEFINE new == CHOOSE x \in FreeRooms : TRUE
  <2>1. /\ new \in RoomIds
        /\ \A u \in Sockets : sock[u] = "up" => mine[u] # new
        /\ peers' = [peers EXCEPT ![new] = {s}]
        /\ mine' = [mine EXCEPT ![s] = new]
        /\ peerSet' = [peerSet EXCEPT ![s] = TRUE]
        /\ sock' = sock
    BY <1>1, FreshRoom DEF RoomCreated, NewRoom
  <2> HIDE DEF new
  <2> QED BY <2>1
<1>2. ASSUME NEW s \in Sockets, JoinFindsRoom(s) PROVE Listed
  <2>1. live \in RoomIds /\ sock' = sock /\ (t \in peers[live] => t \in Alive(peers[live]))
    BY <1>2 DEF JoinFindsRoom, Alive
  <2>2. CASE Refused(live, UserOf[s])
    <3>1. /\ peers' = [peers EXCEPT ![live] = Alive(peers[live])]
          /\ mine' = [mine EXCEPT ![s] = NoRoom]
          /\ peerSet' = peerSet
      BY <1>2, <2>2 DEF JoinFindsRoom
    <3> QED BY <2>1, <3>1
  <2>3. CASE ~Refused(live, UserOf[s])
    <3>1. /\ peers' = [peers EXCEPT ![live] = Alive(peers[live]) \union {s}]
          /\ mine' = [mine EXCEPT ![s] = live]
          /\ peerSet' = [peerSet EXCEPT ![s] = TRUE]
      BY <1>2, <2>3 DEF JoinFindsRoom
    <3> QED BY <2>1, <3>1
  <2> QED BY <2>2, <2>3
<1>3. ASSUME NEW s \in Sockets, ExitRoom(s), sock[t] = "up", t # s \/ InRoom(s) PROVE Listed
  <2>1. CASE InRoom(s)
    <3>1. /\ peers' = [peers EXCEPT ![mine[s]] = peers[mine[s]] \ {s}]
          /\ mine' = [mine EXCEPT ![s] = NoRoom]
          /\ peerSet' = [peerSet EXCEPT ![s] = FALSE]
      BY <1>3, <2>1 DEF ExitRoom, RemovePeer
    <3>2. t # s
      BY <3>1
    <3>3. mine'[t] = mine[t] /\ peerSet'[t] = peerSet[t]
      BY <3>1, <3>2
    <3>4. peerSet[t] /\ t \in peers[mine[t]] /\ mine[t] \in RoomIds
      BY <1>3, <3>3
    <3> QED BY <3>1, <3>2, <3>3, <3>4
  <2>2. CASE ~InRoom(s)
    BY <1>3, <2>2 DEF ExitRoom, roomVars
  <2> QED BY <2>1, <2>2
<1>4. ASSUME NEW s \in Sockets, Leave(s) PROVE Listed
  <2>1. ExitRoom(s) /\ sock' = sock /\ sock[s] = "up"
    BY <1>4 DEF Leave
  <2>2. CASE t = s /\ ~InRoom(s)
    BY <2>1, <2>2 DEF ExitRoom, InRoom
  <2> QED BY <1>3, <2>1, <2>2
<1>5. ASSUME NEW s \in Sockets, Disconnect(s) PROVE Listed
  <2>1. t # s /\ sock[t] = "up" /\ ExitRoom(s)
    BY <1>5 DEF Disconnect
  <2> QED BY <1>3, <2>1
<1>6. ASSUME NEW s \in Sockets, SocketLost(s) PROVE Listed
  BY <1>5, <1>6 DEF SocketLost
<1>7. ASSUME NEW s \in Sockets, KickFires(s) PROVE Listed
  BY <1>5, <1>7 DEF KickFires, roomVars
<1>8. ASSUME NEW s \in Sockets, Connect(s) PROVE Listed
  BY <1>8 DEF Connect, roomVars
<1>9. ASSUME NEW s \in Sockets, JoinFindsNone(s) \/ CreationFails(s) PROVE Listed
  BY <1>9 DEF JoinFindsNone, CreationFails, roomVars
<1>10. ASSUME NEW s \in Sockets, NEW value \in BOOLEAN, Lock(s, value) PROVE Listed
  BY <1>10 DEF Lock, sockVars
<1>11. ASSUME NEW s \in Sockets, NEW target \in Sockets, Kick(s, target) PROVE Listed
  BY <1>11 DEF Kick
<1>12. CASE GraceEnds \/ FieldRecording \/ \E k \in Runs : RunProgress(k)
  BY <1>12 DEF GraceEnds, FieldRecording, RunProgress, roomVars, sockVars
<1>13. CASE Restart
  BY <1>13 DEF Restart
<1>14. CASE UNCHANGED vars
  BY <1>14 DEF vars, roomVars, sockVars
<1> QED
  BY <1>1, <1>2, <1>4, <1>6, <1>7, <1>8, <1>9, <1>10, <1>11, <1>12, <1>13, <1>14 DEF Next

-----------------------------------------------------------------------------
\* While the map holds a room no recap timer is armed, however many rooms are
\* created at once and whichever of them is emptied.
THEOREM NoRecapDuringCall == Spec => []NoTimerWhileRoomOpen
<1>1. Init => NoTimerWhileRoomOpen
  BY DEF Init, TimerInit, NoTimerWhileRoomOpen
<1> QED
  BY <1>1, TimerStep, PTL DEF Spec

LEMMA SpinnerStep ==
    ASSUME TypeOK, [Next]_vars
    PROVE  spinner' => Recapping' \/ (spinner /\ ~Recapping) \/ restarts' # restarts
<1> USE DEF Recapping
<1>1. ASSUME spinner' = spinner, pending' = pending, run' = run
      PROVE  spinner' => Recapping' \/ (spinner /\ ~Recapping)
  BY <1>1
<1>2. run \in [Runs -> Stages]
  BY DEF TypeOK, TimerTypeOK
<1>3. ASSUME StartRun PROVE Recapping'
  BY <1>2, <1>3 DEF StartRun
\* The timer is cleared with the spinner, or there was none to clear.
<1>4. ASSUME NEW s \in Sockets, RoomCreated(s)
      PROVE  spinner' => Recapping' \/ (spinner /\ ~Recapping)
  BY <1>4 DEF RoomCreated, CancelScheduledRecap
<1>5. ASSUME NEW s \in Sockets, ExitRoom(s)
      PROVE  spinner' => Recapping' \/ (spinner /\ ~Recapping)
  <2>1. CASE UNCHANGED <<pending, spinner>> /\ run' = run
    BY <1>1, <2>1
  <2>2. CASE ~(UNCHANGED <<pending, spinner>> /\ run' = run)
    <3>1. mine[s] \in RoomIds /\ pending' = session[mine[s]]
      BY <1>5, <2>2 DEF ExitRoom, InRoom, RemovePeer, ScheduleRecap, timerVars, TypeOK
    <3>2. session[mine[s]] \in SUBSET Users
      BY <3>1 DEF TypeOK
    <3> QED BY <3>1, <3>2, TimerAssumption
  <2> QED BY <2>1, <2>2
<1>6. ASSUME NEW s \in Sockets, Leave(s) \/ SocketLost(s)
      PROVE  spinner' => Recapping' \/ (spinner /\ ~Recapping)
  BY <1>5, <1>6 DEF Leave, SocketLost, Disconnect
<1>7. ASSUME NEW s \in Sockets, KickFires(s)
      PROVE  spinner' => Recapping' \/ (spinner /\ ~Recapping)
  BY <1>1, <1>5, <1>7 DEF KickFires, Disconnect, timerVars
<1>8. ASSUME NEW s \in Sockets, JoinFindsNone(s) \/ JoinFindsRoom(s) \/ CreationFails(s) \/ Connect(s)
      PROVE  spinner' => Recapping' \/ (spinner /\ ~Recapping)
  BY <1>1, <1>8 DEF JoinFindsNone, JoinFindsRoom, CreationFails, Connect, timerVars
<1>9. ASSUME NEW s \in Sockets, \/ \E value \in BOOLEAN : Lock(s, value)
                                \/ \E target \in Sockets : Kick(s, target)
      PROVE  spinner' => Recapping' \/ (spinner /\ ~Recapping)
  BY <1>1, <1>9 DEF Lock, Kick, timerVars
<1>10. CASE GraceEnds
  BY <1>3, <1>10 DEF GraceEnds, TimerFires
<1>11. ASSUME NEW k \in Runs, RunProgress(k)
       PROVE  spinner' => Recapping' \/ (spinner /\ ~Recapping)
  BY <1>2, <1>11 DEF RunProgress, RunSaves, RunEnds
<1>12. CASE FieldRecording
  <2>1. CASE FieldStart
    BY <1>1, <2>1 DEF FieldStart
  <2>2. CASE FieldFinish
    BY <1>3, <2>2 DEF FieldFinish
  <2> QED BY <1>12, <2>1, <2>2 DEF FieldRecording
<1>13. CASE Restart
  BY <1>13 DEF Restart, TypeOK
<1>14. CASE UNCHANGED vars
  BY <1>1, <1>14 DEF vars, timerVars
<1> HIDE DEF Recapping
<1> QED
  BY <1>4, <1>6, <1>7, <1>8, <1>9, <1>10, <1>11, <1>12, <1>13, <1>14 DEF Next

\* A spinner that turns belongs to a timer or to a run, which can clear it, for any
\* number of runs and rooms, until the server is restarted under it (recap.ts,
\* cancelScheduledRecap and the end of a run).
THEOREM SpinnerOwned == Spec => SpinnerHasOwner
<1> DEFINE Owned == spinner' /\ ~Recapping' => (spinner /\ ~Recapping) \/ restarts' # restarts
<1>1. TypeOK /\ [Next]_vars => Owned
  BY SpinnerStep
<1> HIDE DEF Owned
<1>2. Spec => [][Owned]_vars
  BY <1>1, TypeCorrect, PTL DEF Spec
<1> QED BY <1>2 DEF SpinnerHasOwner, Owned

\* The session handed to the recap covers everyone listed in the room.
THEOREM SessionCovers == Spec => []SessionCoversPeers
<1>1. Init => SessionCoversPeers
  BY DEF Init, SessionCoversPeers
<1> QED
  BY <1>1, SessionStep, TypeCorrect, PTL DEF Spec

\* A connected socket that holds a room is listed in it.
THEOREM HandleListed == Spec => []HandleIsListed
<1>1. Init => HandleIsListed
  BY DEF Init, HandleIsListed
<1> QED
  BY <1>1, HandleStep, TypeCorrect, PTL DEF Spec

\* A call that goes on admits no one who is locked out or kicked.
THEOREM GateKeeps == Spec => GateHolds
<1> DEFINE Gate == live # NoRoom /\ live' = live =>
                     \A s \in peers'[live] \ peers[live] :
                       UserOf[s] = Host \/ ~(locked[live] \/ UserOf[s] \in kicked[live])
<1>1. TypeOK /\ [Next]_vars => [Gate]_vars
  <2> SUFFICES ASSUME TypeOK, Next, live # NoRoom, live' = live,
                      NEW p \in peers'[live], p \notin peers[live]
               PROVE  UserOf[p] = Host \/ ~(locked[live] \/ UserOf[p] \in kicked[live])
    OBVIOUS
  <2> DEFINE Admitted == UserOf[p] = Host \/ ~(locked[live] \/ UserOf[p] \in kicked[live])
  <2>0. live \in RoomIds
    BY DEF TypeOK
  <2> USE DEF TypeOK
  <2>1. ASSUME NEW s \in Sockets, RoomCreated(s) PROVE FALSE
    BY <2>1, FreshRoom DEF RoomCreated, NewRoom
  <2>2. ASSUME NEW s \in Sockets, JoinFindsRoom(s) PROVE Admitted
    <3>1. Alive(peers[live]) \subseteq peers[live]
      BY DEF Alive
    <3>2. ~Refused(live, UserOf[s]) /\ peers'[live] = Alive(peers[live]) \union {s}
      BY <2>0, <2>2, <3>1 DEF JoinFindsRoom
    <3>3. p = s
      BY <3>1, <3>2
    <3> QED BY <3>2, <3>3 DEF Refused
  <2>3. ASSUME NEW s \in Sockets, ExitRoom(s) PROVE FALSE
    <3>1. CASE InRoom(s)
      BY <2>0, <2>3, <3>1 DEF ExitRoom, InRoom, RemovePeer
    <3>2. CASE ~InRoom(s)
      BY <2>3, <3>2 DEF ExitRoom, roomVars
    <3> QED BY <3>1, <3>2
  <2>4. ASSUME NEW s \in Sockets, Leave(s) \/ SocketLost(s) PROVE FALSE
    BY <2>3, <2>4 DEF Leave, SocketLost, Disconnect
  <2>5. ASSUME NEW s \in Sockets, KickFires(s) PROVE FALSE
    BY <2>3, <2>5 DEF KickFires, Disconnect, roomVars
  <2>6. ASSUME NEW s \in Sockets, JoinFindsNone(s) \/ CreationFails(s) \/ Connect(s) PROVE FALSE
    BY <2>6 DEF JoinFindsNone, CreationFails, Connect, roomVars
  <2>7. ASSUME NEW s \in Sockets, NEW value \in BOOLEAN, Lock(s, value) PROVE FALSE
    BY <2>7 DEF Lock
  <2>8. ASSUME NEW s \in Sockets, NEW target \in Sockets, Kick(s, target) PROVE FALSE
    BY <2>8 DEF Kick
  <2>9. CASE GraceEnds \/ FieldRecording \/ \E k \in Runs : RunProgress(k)
    BY <2>9 DEF GraceEnds, FieldRecording, RunProgress, roomVars
  <2>10. ~Restart
    BY DEF Restart
  <2> QED
    BY <2>1, <2>2, <2>4, <2>5, <2>6, <2>7, <2>8, <2>9, <2>10 DEF Next
<1> QED
  BY <1>1, TypeCorrect, PTL DEF Spec, GateHolds

-----------------------------------------------------------------------------
(* Ghosts.                                                                 *)

\* A dead peer whose handlers hold the room is the one that the answer to its
\* join put there: alone, with nobody to lock the room or to kick.
LoneGhosts ==
    \A r \in RoomIds : \A s \in peers[r] :
        sock[s] = "dead" /\ mine[s] = r => peers[r] = {s} /\ ~locked[r] /\ kicked[r] = {}

LEMMA GhostStep == TypeOK /\ HandleIsListed /\ LoneGhosts /\ [Next]_vars => LoneGhosts'
<1> SUFFICES ASSUME TypeOK, HandleIsListed, LoneGhosts, [Next]_vars PROVE LoneGhosts'
  OBVIOUS
<1>0. /\ live \in RoomIds \union {NoRoom} /\ NoRoom \notin RoomIds
      /\ mine \in [Sockets -> RoomIds \union {NoRoom}] /\ peerSet \in [Sockets -> BOOLEAN]
      /\ sock \in [Sockets -> {"up", "dead"}] /\ peers \in [RoomIds -> SUBSET Sockets]
      /\ locked \in [RoomIds -> BOOLEAN] /\ kicked \in [RoomIds -> SUBSET Users]
  BY CallAssumption DEF TypeOK
\* Whoever else is in a room with a connected peer of it is no such ghost.
<1>1. ASSUME NEW r \in RoomIds, NEW t \in Sockets, sock[t] = "up", mine[t] = r,
             NEW s \in peers[r], sock[s] = "dead", mine[s] = r
      PROVE  FALSE
  <2>1. t \in peers[r] /\ peers[r] = {s}
    BY <1>0, <1>1 DEF HandleIsListed, LoneGhosts
  <2> QED BY <1>1, <2>1
<1>2. CASE UNCHANGED <<peers, locked, kicked, sock, mine>>
  BY <1>2 DEF LoneGhosts
<1>3. ASSUME NEW s \in Sockets, RoomCreated(s) PROVE LoneGhosts'
  <2>1. PICK r \in RoomIds : NewRoom(r, s) /\ mine' = [mine EXCEPT ![s] = r] /\ sock' = sock
    BY <1>3, FreshRoom DEF RoomCreated
  <2>2. /\ peers'[r] = {s} /\ locked'[r] = FALSE /\ kicked'[r] = {}
        /\ \A q \in RoomIds \ {r} : /\ peers'[q] = peers[q]
                                    /\ locked'[q] = locked[q] /\ kicked'[q] = kicked[q]
        /\ \A t \in Sockets \ {s} : mine'[t] = mine[t]
        /\ mine'[s] = r
    BY <1>0, <2>1 DEF NewRoom
  <2>3. \A q \in RoomIds : \A t \in peers'[q] : t \in Sockets
    BY <1>0, <2>2
  <2> QED BY <2>1, <2>2, <2>3 DEF LoneGhosts
<1>4. ASSUME NEW s \in Sockets, JoinFindsRoom(s) PROVE LoneGhosts'
  <2>1. /\ live \in RoomIds /\ sock[s] = "up" /\ UNCHANGED <<locked, kicked, sock>>
        /\ \/ peers' = [peers EXCEPT ![live] = Alive(@)]
           \/ peers' = [peers EXCEPT ![live] = Alive(@) \union {s}]
        /\ mine' \in {[mine EXCEPT ![s] = NoRoom], [mine EXCEPT ![s] = live]}
    BY <1>0, <1>4 DEF JoinFindsRoom
  <2>2. \A p \in peers'[live] : sock[p] = "up"
    BY <1>0, <2>1 DEF Alive
  <2>3. \A q \in RoomIds \ {live} : peers'[q] = peers[q]
    BY <1>0, <2>1
  <2>4. \A t \in Sockets \ {s} : mine'[t] = mine[t]
    BY <1>0, <2>1
  <2>5. \A q \in RoomIds \ {live} : \A p \in peers[q] : p \in Sockets
    BY <1>0
  <2> QED BY <2>1, <2>2, <2>3, <2>4, <2>5 DEF LoneGhosts
\* Whoever exits holds nothing any more.
<1>5. ASSUME NEW s \in Sockets, ExitRoom(s), sock[s] = "up",
             \A t \in Sockets \ {s} : sock'[t] = sock[t]
      PROVE  LoneGhosts'
  <2>1. UNCHANGED <<locked, kicked>>
    BY <1>5 DEF ExitRoom, RemovePeer, roomVars
  <2>2. mine'[s] = NoRoom /\ \A t \in Sockets \ {s} : mine'[t] = mine[t]
    BY <1>0, <1>5 DEF ExitRoom, InRoom, HandleIsListed
  <2>3. \A r \in RoomIds : /\ peers'[r] \subseteq peers[r] /\ peers[r] \subseteq Sockets
                           /\ peers'[r] # peers[r] => mine[s] = r
    BY <1>0, <1>5 DEF ExitRoom, RemovePeer, InRoom, roomVars
  <2> SUFFICES ASSUME NEW r \in RoomIds, NEW t \in peers'[r], sock'[t] = "dead", mine'[t] = r
               PROVE  peers'[r] = {t} /\ ~locked[r] /\ kicked[r] = {}
    BY <2>1 DEF LoneGhosts
  <2>4. t \in Sockets /\ t # s /\ t \in peers[r] /\ sock[t] = "dead" /\ mine[t] = r
    BY <1>0, <1>5, <2>2, <2>3
  <2>5. mine[s] # r
    BY <1>1, <1>5, <2>4
  <2> QED BY <2>3, <2>4, <2>5 DEF LoneGhosts
<1>6. ASSUME NEW s \in Sockets, Leave(s) PROVE LoneGhosts'
  BY <1>5, <1>6 DEF Leave
<1>7. ASSUME NEW s \in Sockets, Disconnect(s) PROVE LoneGhosts'
  <2>1. sock[s] = "up" /\ ExitRoom(s) /\ sock' = [sock EXCEPT ![s] = "dead"]
    BY <1>7 DEF Disconnect
  <2> QED BY <1>5, <2>1
<1>8. ASSUME NEW s \in Sockets, Connect(s) PROVE LoneGhosts'
  <2>1. /\ UNCHANGED <<peers, locked, kicked>>
        /\ sock' = [sock EXCEPT ![s] = "up"] /\ mine' = [mine EXCEPT ![s] = NoRoom]
    BY <1>8 DEF Connect, roomVars
  <2>2. \A t \in Sockets \ {s} : sock'[t] = sock[t] /\ mine'[t] = mine[t]
    BY <2>1
  <2>3. mine'[s] = NoRoom
    BY <1>0, <2>1
  <2>4. \A r \in RoomIds : \A t \in peers[r] : t \in Sockets
    BY <1>0
  <2> QED BY <1>0, <2>1, <2>2, <2>3, <2>4 DEF LoneGhosts
\* Only somebody connected locks a room or kicks.
<1>9. ASSUME NEW s \in Sockets, sock[s] = "up", InRoom(s), UNCHANGED <<peers, sock, mine>>,
             \A r \in RoomIds \ {mine[s]} : locked'[r] = locked[r] /\ kicked'[r] = kicked[r]
      PROVE  LoneGhosts'
  <2> SUFFICES ASSUME NEW r \in RoomIds, NEW t \in peers[r], sock[t] = "dead", mine[t] = r
               PROVE  peers[r] = {t} /\ ~locked'[r] /\ kicked'[r] = {}
    BY <1>9 DEF LoneGhosts
  <2>1. mine[s] # r
    BY <1>1, <1>9
  <2> QED BY <1>9, <2>1 DEF LoneGhosts
<1>10. ASSUME NEW s \in Sockets, NEW value \in BOOLEAN, Lock(s, value) PROVE LoneGhosts'
  BY <1>0, <1>9, <1>10 DEF Lock, sockVars
<1>11. ASSUME NEW s \in Sockets, NEW target \in Sockets, Kick(s, target) PROVE LoneGhosts'
  BY <1>0, <1>9, <1>11 DEF Kick
<1>12. ASSUME NEW s \in Sockets, JoinFindsNone(s) \/ CreationFails(s) PROVE LoneGhosts'
  BY <1>2, <1>12 DEF JoinFindsNone, CreationFails, roomVars
<1>13. ASSUME NEW s \in Sockets, KickFires(s) PROVE LoneGhosts'
  BY <1>2, <1>7, <1>13 DEF KickFires, roomVars
<1>14. CASE GraceEnds \/ FieldRecording \/ \E k \in Runs : RunProgress(k)
  BY <1>2, <1>14 DEF GraceEnds, FieldRecording, RunProgress, roomVars, sockVars
<1>15. CASE Restart
  BY <1>15 DEF Restart, LoneGhosts
<1>16. CASE UNCHANGED vars
  BY <1>2, <1>16 DEF vars, roomVars, sockVars
<1> QED
  BY <1>3, <1>4, <1>6, <1>7, <1>8, <1>10, <1>11, <1>12, <1>13, <1>14, <1>15, <1>16
     DEF Next, SocketLost

\* A step that empties the room in the map and leaves it there sweeps out dead
\* peers, and one of them was forgotten.
LEMMA EmptyingStep ==
    ASSUME TypeOK, HandleIsListed, LoneGhosts, [Next]_vars,
           live # NoRoom, live' = live, peers[live] # {}, peers'[live] = {}
    PROVE  \E s \in peers[live] : mine[s] # live
<1>0. live \in RoomIds /\ peers \in [RoomIds -> SUBSET Sockets]
  BY DEF TypeOK
<1>1. ASSUME NEW s \in Sockets, JoinFindsRoom(s) PROVE \E t \in peers[live] : mine[t] # live
  <2>1. PICK t \in peers[live] : TRUE
    OBVIOUS
  <2>2. Refused(live, UserOf[s]) /\ Alive(peers[live]) = {}
    BY <1>0, <1>1 DEF JoinFindsRoom
  <2>3. t \in Sockets /\ sock[t] = "dead"
    BY <1>0, <2>1, <2>2 DEF Alive, TypeOK
  <2>4. mine[t] # live
    BY <1>0, <2>2, <2>3 DEF LoneGhosts, Refused
  <2> QED BY <2>4
\* The last to leave takes the room out of the map.
<1>2. ASSUME NEW s \in Sockets, ExitRoom(s) PROVE FALSE
  <2>1. CASE InRoom(s)
    <3>1. mine[s] = live
      BY <1>0, <1>2, <2>1 DEF ExitRoom, RemovePeer, InRoom
    <3>2. peers'[live] = peers[live] \ {s}
      BY <1>0, <1>2, <2>1, <3>1 DEF ExitRoom, RemovePeer
    <3> QED BY <1>2, <2>1, <3>1, <3>2 DEF ExitRoom, RemovePeer
  <2>2. CASE ~InRoom(s)
    BY <1>2, <2>2 DEF ExitRoom, roomVars
  <2> QED BY <2>1, <2>2
<1>3. ASSUME NEW s \in Sockets, RoomCreated(s) PROVE FALSE
  BY <1>3, FreshRoom DEF RoomCreated, NewRoom
<1>4. ASSUME peers' = peers PROVE FALSE
  BY <1>4
<1>5. ASSUME NEW s \in Sockets, Leave(s) \/ SocketLost(s) \/ KickFires(s) PROVE FALSE
  BY <1>2, <1>4, <1>5 DEF Leave, SocketLost, KickFires, Disconnect, roomVars
<1>6. ASSUME NEW s \in Sockets,
             \/ JoinFindsNone(s) \/ CreationFails(s) \/ Connect(s)
             \/ \E value \in BOOLEAN : Lock(s, value)
             \/ \E target \in Sockets : Kick(s, target)
      PROVE  FALSE
  BY <1>4, <1>6 DEF JoinFindsNone, CreationFails, Connect, Lock, Kick, roomVars
<1>7. CASE GraceEnds \/ FieldRecording \/ \E k \in Runs : RunProgress(k)
  BY <1>4, <1>7 DEF GraceEnds, FieldRecording, RunProgress, roomVars
<1>8. ~Restart
  BY DEF Restart
<1>9. CASE UNCHANGED vars
  BY <1>4, <1>9 DEF vars, roomVars
<1> QED
  BY <1>1, <1>3, <1>5, <1>6, <1>7, <1>8, <1>9 DEF Next

\* The room in the map loses its last peer without being closed only where that
\* peer had been forgotten by its own handlers, however tabs come, go and die.
THEOREM RoomsHavePeers == Spec => EmptiedOnlyOfForgotten
<1> DEFINE Emptied == live # NoRoom /\ live' = live /\ peers[live] # {} /\ peers'[live] = {} =>
                          \E s \in peers[live] : mine[s] # live
<1>1. Init => LoneGhosts
  BY DEF Init, LoneGhosts
<1>2. TypeOK /\ HandleIsListed /\ LoneGhosts /\ [Next]_vars => Emptied
  BY EmptyingStep
<1> HIDE DEF Emptied
<1>3. Spec => [][Emptied]_vars
  BY <1>1, <1>2, GhostStep, TypeCorrect, HandleListed, PTL DEF Spec
<1> QED BY <1>3 DEF EmptiedOnlyOfForgotten, Emptied

-----------------------------------------------------------------------------
(* How a call comes apart.                                                 *)

\* A room that is created parts those who are in another one.
LEMMA CreationSplits ==
    ASSUME TypeOK, NEW s \in Sockets, RoomCreated(s)
    PROVE  /\ live' \in RoomIds /\ live' # live /\ UNCHANGED run
           /\ live = NoRoom /\ Split' => Split
<1>1. PICK r \in RoomIds :
          r # live /\ live' = r /\ mine' = [mine EXCEPT ![s] = r] /\ sock' = sock /\ run' = run
  BY FreshRoom DEF RoomCreated, NewRoom
<1> QED
  BY <1>1 DEF Split, TypeOK

\* Of those who leave, only the last in a room can leave others apart, and only
\* if they were in another room already.
LEMMA ExitSplits ==
    ASSUME TypeOK, HandleIsListed, NEW s \in Sockets, ExitRoom(s), sock[s] = "up",
           \A t \in Sockets : sock'[t] = "up" => sock[t] = "up"
    PROVE  /\ Split' => Split
           /\ UNCHANGED run
           /\ \/ UNCHANGED <<live, pending>>
              \/ /\ live' = NoRoom /\ pending' # NoTimer
                 /\ live # NoRoom \/ Split
<1>0. /\ live \in RoomIds \union {NoRoom} /\ NoRoom \notin RoomIds
      /\ mine \in [Sockets -> RoomIds \union {NoRoom}]
      /\ peers \in [RoomIds -> SUBSET Sockets] /\ session \in [RoomIds -> SUBSET Users]
  BY CallAssumption DEF TypeOK
<1>1. mine' = [mine EXCEPT ![s] = IF InRoom(s) THEN NoRoom ELSE mine[s]] /\ run' = run
  BY DEF ExitRoom, RemovePeer, timerVars
<1>2. ASSUME live' = live PROVE Split' => Split
  BY <1>0, <1>1, <1>2 DEF Split
<1>3. CASE ~InRoom(s)
  BY <1>1, <1>2, <1>3 DEF ExitRoom, roomVars, timerVars
<1>4. CASE InRoom(s)
  <2>1. /\ mine[s] \in RoomIds
        /\ \/ UNCHANGED <<live, pending>>
           \/ /\ live' = NoRoom /\ pending' = session[mine[s]]
              /\ peers[mine[s]] \ {s} = {}
    BY <1>0, <1>4 DEF ExitRoom, InRoom, RemovePeer, ScheduleRecap
  <2>2. CASE UNCHANGED <<live, pending>>
    BY <1>1, <1>2, <2>2
  <2>3. CASE live' = NoRoom /\ pending' = session[mine[s]] /\ peers[mine[s]] \ {s} = {}
    <3>1. pending' # NoTimer
      BY <1>0, <2>1, <2>3, TimerAssumption
    <3>2. mine[s] # live => Split
      BY <1>0, <1>4 DEF Split, InRoom
    <3>3. ASSUME ~Split, NEW t \in Sockets, sock'[t] = "up", mine'[t] # NoRoom PROVE FALSE
      <4>1. t # s /\ sock[t] = "up" /\ mine[t] = mine'[t]
        BY <1>0, <1>1, <1>4, <3>3
      <4>2. mine[t] = live /\ mine[s] = live
        BY <3>2, <3>3, <4>1 DEF Split
      <4>3. t \in peers[mine[s]]
        BY <3>3, <4>1, <4>2 DEF HandleIsListed
      <4> QED BY <2>3, <4>1, <4>3
    <3>4. Split' => Split
      BY <3>3 DEF Split
    <3>5. live # NoRoom \/ Split
      BY <1>0, <2>1, <3>2
    <3> QED BY <1>1, <2>3, <3>1, <3>4, <3>5
  <2> QED BY <2>1, <2>2, <2>3
<1> QED BY <1>3, <1>4

\* What the other steps of people do: they part nobody.
LEMMA JoinSplits ==
    ASSUME TypeOK, NEW s \in Sockets, JoinFindsRoom(s) \/ Connect(s)
    PROVE  /\ Split' => Split
           /\ UNCHANGED <<live, pending, run>>
<1>1. CASE JoinFindsRoom(s)
  BY <1>1 DEF JoinFindsRoom, Split, TypeOK, timerVars
<1>2. CASE Connect(s)
  BY <1>2 DEF Connect, Split, TypeOK, roomVars, timerVars
<1> QED BY <1>1, <1>2

\* Whoever is connected to a call is in the room the map holds until a creation
\* is stored over that room: for any number of tabs, joins and creations at once.
LEMMA SplitStep ==
    ASSUME TypeOK, HandleIsListed, [Next]_vars, ~Split, Split'
    PROVE  live # NoRoom /\ live' \notin {NoRoom, live}
<1>1. ASSUME NEW s \in Sockets, RoomCreated(s) PROVE live # NoRoom /\ live' \notin {NoRoom, live}
  BY <1>1, CreationSplits, CallAssumption
<1>2. ASSUME NEW s \in Sockets, JoinFindsRoom(s) \/ Connect(s) PROVE FALSE
  BY <1>2, JoinSplits
<1>3. ASSUME NEW s \in Sockets, Leave(s) PROVE FALSE
  BY <1>3, ExitSplits DEF Leave
<1>4. ASSUME NEW s \in Sockets, Disconnect(s) PROVE FALSE
  <2>1. \A t \in Sockets : sock'[t] = "up" => sock[t] = "up"
    BY <1>4 DEF Disconnect, TypeOK
  <2> QED BY <1>4, <2>1, ExitSplits DEF Disconnect
<1>5. ASSUME UNCHANGED <<live, sock, mine>> PROVE FALSE
  BY <1>5 DEF Split
<1>6. ASSUME NEW s \in Sockets, KickFires(s) PROVE FALSE
  BY <1>4, <1>5, <1>6 DEF KickFires, roomVars
<1>7. ASSUME NEW s \in Sockets,
             \/ JoinFindsNone(s) \/ CreationFails(s)
             \/ \E value \in BOOLEAN : Lock(s, value)
             \/ \E target \in Sockets : Kick(s, target)
      PROVE  FALSE
  BY <1>5, <1>7 DEF JoinFindsNone, CreationFails, Lock, Kick, roomVars, sockVars
<1>8. CASE GraceEnds \/ FieldRecording \/ \E k \in Runs : RunProgress(k)
  BY <1>5, <1>8 DEF GraceEnds, FieldRecording, RunProgress, roomVars, sockVars
<1>9. CASE Restart
  BY <1>9 DEF Restart, Split
<1>10. CASE UNCHANGED vars
  BY <1>5, <1>10 DEF vars, roomVars, sockVars
<1> QED
  BY <1>1, <1>2, <1>3, <1>4, <1>6, <1>7, <1>8, <1>9, <1>10 DEF Next, SocketLost

\* A call in one room comes apart in no way but by a creation stored over it.
THEOREM OneRoomUntilRace == Spec => SplitOnlyByRace
<1> DEFINE Parting == ~Split /\ Split' => live # NoRoom /\ live' \notin {NoRoom, live}
<1>1. TypeOK /\ HandleIsListed /\ [Next]_vars => Parting
  BY SplitStep
<1> HIDE DEF Parting
<1>2. Spec => [][Parting]_vars
  BY <1>1, TypeCorrect, HandleListed, PTL DEF Spec
<1> QED BY <1>2 DEF SplitOnlyByRace, Parting

-----------------------------------------------------------------------------
(* The life of a call.                                                     *)

Phase == IF live # NoRoom THEN "open" ELSE IF pending # NoTimer THEN "grace" ELSE "idle"
Busy == {k \in Runs : run[k] # "idle"}

\* Starting a run adds one to those in progress, ending one takes it away.
LEMMA RunCounts ==
    ASSUME TypeOK
    PROVE  /\ Cardinality(Busy) \in Nat
           /\ StartRun => Cardinality(Busy') = Cardinality(Busy) + 1
           /\ \A k \in Runs : run[k] # "idle" /\ run' = [run EXCEPT ![k] = "idle"] =>
                  Cardinality(Busy) > 0 /\ Cardinality(Busy') = Cardinality(Busy) - 1
<1>1. IsFiniteSet(Runs) /\ run \in [Runs -> Stages]
  BY CallAssumption DEF TypeOK, TimerTypeOK
<1>2. IsFiniteSet(Busy) /\ Cardinality(Busy) \in Nat
  BY <1>1, FS_Subset, FS_CardinalityType DEF Busy
<1>3. ASSUME StartRun PROVE Cardinality(Busy') = Cardinality(Busy) + 1
  <2>1. PICK k \in Runs : run[k] = "idle" /\ run' = [run EXCEPT ![k] = "working"]
    BY <1>3 DEF StartRun
  <2>2. Busy' = Busy \cup {k} /\ k \notin Busy
    BY <1>1, <2>1 DEF Busy
  <2> QED BY <1>2, <2>2, FS_AddElement
<1>4. ASSUME NEW k \in Runs, run[k] # "idle", run' = [run EXCEPT ![k] = "idle"]
      PROVE  Cardinality(Busy) > 0 /\ Cardinality(Busy') = Cardinality(Busy) - 1
  <2>1. Busy' = Busy \ {k} /\ k \in Busy
    BY <1>1, <1>4 DEF Busy
  <2>2. Cardinality(Busy') = Cardinality(Busy) - 1
    BY <1>2, <2>1, FS_RemoveElement
  <2>3. Cardinality(Busy) # 0
    BY <1>2, <2>1, FS_EmptySet
  <2> QED BY <1>2, <2>2, <2>3
<1> QED
  BY <1>2, <1>3, <1>4

\* What a step is in the life of the call.
LEMMA CallStep ==
    TypeOK /\ HandleIsListed /\ NoTimerWhileRoomOpen /\ [Next]_vars
        => [Call!CallNext]_(Call!callVars)
<1> SUFFICES ASSUME TypeOK, HandleIsListed, NoTimerWhileRoomOpen, [Next]_vars
             PROVE  [Call!CallNext]_(Call!callVars)
  OBVIOUS
<1> DEFINE Running == Cardinality(Busy)
           Step == [Call!CallNext]_(Call!callVars)
<1>0. /\ live \in RoomIds \union {NoRoom} /\ NoRoom \notin RoomIds
      /\ run \in [Runs -> Stages] /\ Split \in BOOLEAN /\ Split' \in BOOLEAN
  BY CallAssumption DEF TypeOK, TimerTypeOK, Split
\* Nobody is parted, and the call goes on or stays over.
<1>a. ASSUME Phase' = Phase, Running' = Running, Split' => Split PROVE Step
  <2>1. CASE Split' = Split
    BY <1>a, <2>1 DEF Call!callVars, Phase, Busy
  <2>2. CASE Split' # Split
    <3>1. Split /\ Split' = FALSE
      BY <1>0, <1>a, <2>2
    <3>2. Call!Rejoin
      BY <1>a, <3>1 DEF Call!Rejoin, Phase, Busy
    <3> QED BY <3>2 DEF Call!CallNext
  <2> QED BY <2>1, <2>2
<1>1. ASSUME UNCHANGED <<live, pending, run>>, Split' => Split PROVE Step
  BY <1>1, <1>a DEF Phase, Busy
<1>b. CASE UNCHANGED <<live, pending, run, sock, mine>>
  BY <1>1, <1>b DEF Split
<1>2. ASSUME NEW s \in Sockets, JoinFindsRoom(s) \/ Connect(s) PROVE Step
  BY <1>1, <1>2, JoinSplits
<1>3. ASSUME NEW s \in Sockets, RoomCreated(s) PROVE Step
  <2>1. live' \in RoomIds /\ Running' = Running /\ (live = NoRoom /\ Split' => Split)
    BY <1>3, CreationSplits DEF Busy
  <2>2. Phase' = "open"
    BY <1>0, <2>1 DEF Phase
  <2>3. CASE live = NoRoom
    <3>1. Phase # "open" /\ Split' \in {Split, FALSE}
      BY <1>0, <2>1, <2>3 DEF Phase
    <3>2. Call!Open
      BY <2>1, <2>2, <3>1 DEF Call!Open, Phase, Busy
    <3> QED BY <3>2 DEF Call!CallNext
  <2>4. CASE live # NoRoom
    <3>1. Phase = "open"
      BY <2>4 DEF Phase
    <3>2. Call!OpenOver
      BY <1>0, <2>1, <2>2, <3>1 DEF Call!OpenOver, Phase, Busy
    <3> QED BY <3>2 DEF Call!CallNext
  <2> QED BY <2>3, <2>4
<1>4. ASSUME NEW s \in Sockets, ExitRoom(s), sock[s] = "up",
             \A t \in Sockets : sock'[t] = "up" => sock[t] = "up"
      PROVE  Step
  <2>1. /\ Split' => Split
        /\ UNCHANGED run
        /\ \/ UNCHANGED <<live, pending>>
           \/ live' = NoRoom /\ pending' # NoTimer /\ (live # NoRoom \/ Split)
    BY <1>4, ExitSplits
  <2>2. CASE UNCHANGED <<live, pending>>
    BY <1>1, <2>1, <2>2
  <2>3. CASE live' = NoRoom /\ pending' # NoTimer /\ (live # NoRoom \/ Split)
    <3>1. Phase' = "grace" /\ Running' = Running
      BY <2>1, <2>3 DEF Phase, Busy
    <3>2. CASE Split
      <4>1. Call!PartEmpties
        BY <1>0, <3>1, <3>2 DEF Call!PartEmpties, Phase, Busy
      <4> QED BY <4>1 DEF Call!CallNext
    <3>3. CASE ~Split
      <4>1. Phase = "open" /\ Split' = Split
        BY <1>0, <2>1, <2>3, <3>3 DEF Phase
      <4>2. Call!Empty
        BY <3>1, <3>3, <4>1 DEF Call!Empty, Phase, Busy
      <4> QED BY <4>2 DEF Call!CallNext
    <3> QED BY <3>2, <3>3
  <2> QED BY <2>1, <2>2, <2>3
<1>5. ASSUME NEW s \in Sockets, Leave(s) PROVE Step
  BY <1>4, <1>5 DEF Leave
<1>6. ASSUME NEW s \in Sockets, Disconnect(s) PROVE Step
  <2>1. \A t \in Sockets : sock'[t] = "up" => sock[t] = "up"
    BY <1>6 DEF Disconnect, TypeOK
  <2> QED BY <1>4, <1>6, <2>1 DEF Disconnect
<1>7. ASSUME NEW s \in Sockets, KickFires(s) PROVE Step
  BY <1>6, <1>7, <1>b DEF KickFires, roomVars, timerVars
<1>8. ASSUME NEW s \in Sockets,
             \/ JoinFindsNone(s) \/ CreationFails(s)
             \/ \E value \in BOOLEAN : Lock(s, value)
             \/ \E target \in Sockets : Kick(s, target)
      PROVE  Step
  BY <1>8, <1>b DEF JoinFindsNone, CreationFails, Lock, Kick, roomVars, sockVars, timerVars
<1>9. CASE GraceEnds
  <2>1. /\ pending # NoTimer /\ pending' = NoTimer /\ StartRun
        /\ live' = live /\ Split' = Split
    BY <1>9 DEF GraceEnds, TimerFires, Split, roomVars, sockVars
  <2>2. live = NoRoom
    BY <2>1 DEF NoTimerWhileRoomOpen
  <2>3. Phase = "grace" /\ Phase' = "idle"
    BY <2>1, <2>2 DEF Phase
  <2>4. Running' = Running + 1
    BY <2>1, RunCounts
  <2>5. Call!Recap
    BY <2>1, <2>3, <2>4 DEF Call!Recap, Phase, Busy
  <2> QED BY <2>5 DEF Call!CallNext
<1>10. ASSUME NEW k \in Runs, RunProgress(k) PROVE Step
  <2>1. /\ UNCHANGED <<live, pending>> /\ Split' = Split /\ run[k] # "idle"
        /\ run' \in {[run EXCEPT ![k] = "saved"], [run EXCEPT ![k] = "idle"]}
    BY <1>10 DEF RunProgress, RunSaves, RunEnds, Split, roomVars, sockVars
  <2>2. Phase' = Phase
    BY <2>1 DEF Phase
  <2>3. CASE run' = [run EXCEPT ![k] = "saved"]
    <3>1. Busy' = Busy
      BY <1>0, <2>1, <2>3 DEF Busy
    <3> QED BY <1>a, <2>1, <2>2, <3>1
  <2>4. CASE run' = [run EXCEPT ![k] = "idle"]
    <3>1. Running > 0 /\ Running' = Running - 1
      BY <2>1, <2>4, RunCounts
    <3>2. Call!Finish
      BY <2>1, <2>2, <3>1 DEF Call!Finish, Phase, Busy
    <3> QED BY <3>2 DEF Call!CallNext
  <2> QED BY <2>1, <2>3, <2>4
<1>11. CASE FieldRecording
  <2>1. UNCHANGED <<live, sock, mine>> /\ Split' = Split
    BY <1>11 DEF FieldRecording, Split, roomVars, sockVars
  <2>2. CASE FieldStart
    BY <1>b, <2>1, <2>2 DEF FieldStart
  <2>3. CASE FieldFinish
    <3>1. pending' = NoTimer /\ StartRun
      BY <2>3 DEF FieldFinish
    <3>2. Running' = Running + 1
      BY <3>1, RunCounts
    <3>3. Phase' = IF Phase = "grace" THEN "idle" ELSE Phase
      BY <2>1, <3>1 DEF Phase
    <3>4. Call!RecapField
      BY <2>1, <3>2, <3>3 DEF Call!RecapField, Phase, Busy
    <3> QED BY <3>4 DEF Call!CallNext
  <2> QED BY <1>11, <2>2, <2>3 DEF FieldRecording
<1>12. CASE Restart
  <2>1. live' = NoRoom /\ pending' = NoTimer /\ \A k \in Runs : run'[k] = "idle"
    BY <1>12 DEF Restart
  <2>2. Phase' = "idle" /\ Split' = FALSE /\ Busy' = {}
    BY <1>12, <2>1 DEF Restart, Phase, Split, Busy
  <2>3. Running' = 0
    BY <2>2, FS_EmptySet
  <2>4. Call!Stop
    BY <2>2, <2>3 DEF Call!Stop, Phase, Busy
  <2> QED BY <2>4 DEF Call!CallNext
<1>13. CASE UNCHANGED vars
  BY <1>b, <1>13 DEF vars, roomVars, sockVars, timerVars
<1> QED
  BY <1>2, <1>3, <1>5, <1>6, <1>7, <1>8, <1>9, <1>10, <1>11, <1>12, <1>13 DEF Next, SocketLost

\* The room and its scheduler take only the steps of the life of a call (the safety
\* part of ImplementsCall): a recap comes only out of a grace period, and a grace
\* period begins with people still talking only in a call that had come apart.
THEOREM CallImplemented == Spec => Call!CallInit /\ [][Call!CallNext]_(Call!callVars)
<1>1. Init => Call!CallInit
  <2> SUFFICES ASSUME Init PROVE Call!CallInit
    OBVIOUS
  <2>1. Busy = {}
    BY DEF Busy, Init, TimerInit
  <2>2. Cardinality(Busy) = 0
    BY <2>1, FS_EmptySet
  <2>3. Split = FALSE
    BY DEF Init, Split
  <2> QED BY <2>2, <2>3 DEF Init, TimerInit, Call!CallInit, Busy
<1>2. TypeOK /\ HandleIsListed /\ NoTimerWhileRoomOpen /\ [Next]_vars
          => [Call!CallNext]_(Call!callVars)
  BY CallStep
<1> QED
  BY <1>1, <1>2, TypeCorrect, HandleListed, NoRecapDuringCall, PTL DEF Spec
=============================================================================
