------------------------------ MODULE CallRoom ------------------------------
(***************************************************************************)
(* The call room of one meeting code (server/src/sfu.ts), composed with    *)
(* the recap scheduler it drives.                                          *)
(*                                                                         *)
(* "rooms" maps the code to at most one Room object, but the objects have  *)
(* a life of their own: every socket's handlers keep the object they       *)
(* joined in a closure.  RoomIds are those objects' identities; "live" is  *)
(* the one in the map.  getOrCreateRoom looks in the map, awaits the       *)
(* router, and stores a new object without looking again, so a join that   *)
(* found the map empty is one action, and its creation and admission       *)
(* another.  A join that finds a room awaits nothing but a settled         *)
(* promise and is a single action.                                         *)
(***************************************************************************)
EXTENDS RecapTimer, FiniteSets

CONSTANTS
    Sockets,      \* socket ids (one per browser tab)
    UserOf,       \* the authenticated user of each socket
    Host,         \* the meeting's host_id
    Managers,     \* users canManageMeeting lets lock and kick
    RoomIds,      \* identities of Room objects
    NoRoom,       \* null
    MaxCreating,  \* bound: joins awaiting createRouter at once
    MaxRestarts   \* bound: server restarts

ASSUME CallAssumption ==
    /\ IsFiniteSet(Sockets) /\ IsFiniteSet(Runs)
    /\ UserOf \in [Sockets -> Users]
    /\ Host \in Managers
    /\ Managers \subseteq Users
    /\ NoRoom \notin RoomIds
    /\ MaxCreating \in Nat
    /\ MaxRestarts \in Nat

VARIABLES
    live,      \* rooms.get(code): the object in the map, or NoRoom
    peers,     \* peers[r]: keys (socket ids) of the object's peers map
    session,   \* sessionUserIds
    locked,    \* locked
    kicked,    \* kickedUserIds
    sock,      \* is the socket connected
    client,    \* has the tab's last message been a join ("in") or a leave
    creating,  \* creating[s]: the socket's joins awaiting createRouter
    mine,      \* the closure variable "room" of the socket's handlers
    peerSet,   \* the closure variable "peer" is not null
    doomed,    \* sockets a kick will disconnect in 200 ms
    restarts   \* counter: restarts so far

roomVars == <<live, peers, session, locked, kicked>>
sockVars == <<sock, client, creating, mine, peerSet, doomed>>
vars == <<roomVars, sockVars, timerVars, restarts>>

TypeOK ==
    /\ TimerTypeOK
    /\ live \in RoomIds \union {NoRoom}
    /\ peers \in [RoomIds -> SUBSET Sockets]
    /\ session \in [RoomIds -> SUBSET Users]
    /\ locked \in [RoomIds -> BOOLEAN]
    /\ kicked \in [RoomIds -> SUBSET Users]
    /\ sock \in [Sockets -> {"up", "dead"}]
    /\ client \in [Sockets -> {"in", "out"}]
    /\ creating \in [Sockets -> Nat]
    /\ mine \in [Sockets -> RoomIds \union {NoRoom}]
    /\ peerSet \in [Sockets -> BOOLEAN]
    /\ doomed \in SUBSET Sockets
    /\ restarts \in Nat

Init ==
    /\ TimerInit
    /\ live = NoRoom
    /\ peers = [r \in RoomIds |-> {}]
    /\ session = [r \in RoomIds |-> {}]
    /\ locked = [r \in RoomIds |-> FALSE]
    /\ kicked = [r \in RoomIds |-> {}]
    /\ sock = [s \in Sockets |-> "up"]
    /\ client = [s \in Sockets |-> "out"]
    /\ creating = [s \in Sockets |-> 0]
    /\ mine = [s \in Sockets |-> NoRoom]
    /\ peerSet = [s \in Sockets |-> FALSE]
    /\ doomed = {}
    /\ restarts = 0

-----------------------------------------------------------------------------
(* Joining.                                                                *)

\* The peers the sweep of room:join keeps: those whose socket is connected.
Alive(S) == {p \in S : sock[p] = "up"}

\* A Room object still in use: in the map, or in a connected socket's closure.
InUse(r) == r = live \/ \E s \in Sockets : sock[s] = "up" /\ mine[s] = r

FreeRooms == {r \in RoomIds : ~InUse(r)}

\* The number of joins awaiting createRouter, each by its socket and number.
Creations == Cardinality({j \in Sockets \X (1 .. MaxCreating) : j[2] <= creating[j[1]]})

\* Mutant: a kick that does not bar the user.
RefusedLocked(r, u) == u # Host /\ locked[r]

\* The host has closed the room to newcomers, or has expelled this user.
Refused(r, u) == u # Host /\ (locked[r] \/ u \in kicked[r])

\* room:join finds no room: getOrCreateRoom starts awaiting createRouter.
JoinFindsNone(s) ==
    /\ sock[s] = "up" /\ client[s] = "out"
    /\ live = NoRoom
    /\ Creations < MaxCreating
    /\ creating' = [creating EXCEPT ![s] = @ + 1]
    /\ client' = [client EXCEPT ![s] = "in"]
    /\ UNCHANGED <<roomVars, timerVars, sock, mine, peerSet, doomed, restarts>>

\* room:join finds a room: sweep the peers of dead sockets out of it, then
\* admit the newcomer or turn it away.
JoinFindsRoom(s) ==
    /\ sock[s] = "up" /\ client[s] = "out"
    /\ live # NoRoom
    /\ client' = [client EXCEPT ![s] = "in"]
    /\ \/ /\ Refused(live, UserOf[s])
          /\ peers' = [peers EXCEPT ![live] = Alive(@)]
          /\ mine' = [mine EXCEPT ![s] = NoRoom]
          /\ UNCHANGED <<session, peerSet>>
       \/ /\ ~Refused(live, UserOf[s])
          /\ peers' = [peers EXCEPT ![live] = Alive(@) \union {s}]
          /\ session' = [session EXCEPT ![live] = @ \union {UserOf[s]}]
          /\ mine' = [mine EXCEPT ![s] = live]
          /\ peerSet' = [peerSet EXCEPT ![s] = TRUE]
    /\ UNCHANGED <<live, locked, kicked, timerVars, sock, creating, doomed, restarts>>

\* The object goes into the map with its creator as first peer.
NewRoom(r, s) ==
    /\ live' = r
    /\ peers' = [peers EXCEPT ![r] = {s}]
    /\ session' = [session EXCEPT ![r] = {UserOf[s]}]
    /\ locked' = [locked EXCEPT ![r] = FALSE]
    /\ kicked' = [kicked EXCEPT ![r] = {}]

\* createRouter answers: a fresh Room object goes into the map, whatever the
\* map or the socket has become meanwhile, and the socket becomes its peer.
\* Nothing between looks at locked or kickedUserIds that could refuse it.
RoomCreated(s) ==
    LET r == CHOOSE x \in FreeRooms : TRUE
    IN  /\ creating[s] > 0
        /\ FreeRooms # {}
        /\ creating' = [creating EXCEPT ![s] = @ - 1]
        /\ NewRoom(r, s)
        /\ CancelScheduledRecap
        /\ MarkCallStarted
        /\ mine' = [mine EXCEPT ![s] = r]
        /\ peerSet' = [peerSet EXCEPT ![s] = TRUE]
        /\ UNCHANGED <<sock, client, doomed, run, restarts>>

\* createRouter fails: the join answers with an error and changes nothing.
CreationFails(s) ==
    /\ creating[s] > 0
    /\ creating' = [creating EXCEPT ![s] = @ - 1]
    /\ UNCHANGED <<roomVars, timerVars, sock, client, mine, peerSet, doomed, restarts>>

-----------------------------------------------------------------------------
(* Leaving: the shared body of room:leave and disconnect.                  *)

\* The handlers return early unless both closure variables are set.
InRoom(s) == mine[s] # NoRoom /\ peerSet[s]

\* Mutant: the room is tested for emptiness before the peer is removed.
RemovePeerLate(s) ==
    LET r == mine[s] IN
        /\ peers' = [peers EXCEPT ![r] = @ \ {s}]
        /\ UNCHANGED <<live, session, locked, kicked, timerVars>>

\* Mutant: the room is closed one peer too early.
RemovePeerEarly(s) ==
    LET r == mine[s]
        left == peers[r] \ {s}
    IN  /\ peers' = [peers EXCEPT ![r] = left]
        /\ \/ Cardinality(left) > 1 /\ UNCHANGED <<live, pending, spinner>>
           \/ Cardinality(left) <= 1 /\ live' = NoRoom /\ ScheduleRecap(session[r])
        /\ UNCHANGED <<session, locked, kicked, started, run>>

\* Remove the peer; closeRoomIfEmpty deletes the map entry by CODE, whichever
\* object it holds, and arms the recap timer with the emptied room's session.
RemovePeer(s) ==
    LET r == mine[s]
        left == peers[r] \ {s}
    IN  /\ peers' = [peers EXCEPT ![r] = left]
        /\ \/ left # {} /\ UNCHANGED <<live, pending, spinner>>
           \/ left = {} /\ live' = NoRoom /\ ScheduleRecap(session[r])
        /\ UNCHANGED <<session, locked, kicked, started, run>>

ExitRoom(s) ==
    /\ \/ InRoom(s) /\ RemovePeer(s)
       \/ ~InRoom(s) /\ UNCHANGED <<roomVars, timerVars>>
    /\ mine' = [mine EXCEPT ![s] = IF InRoom(s) THEN NoRoom ELSE @]
    /\ peerSet' = [peerSet EXCEPT ![s] = IF InRoom(s) THEN FALSE ELSE @]

\* room:leave, sent by a tab that believes it is in the call: the screen
\* sends it when it unmounts, whether or not its join has been answered.
Leave(s) ==
    /\ sock[s] = "up" /\ client[s] = "in"
    /\ client' = [client EXCEPT ![s] = "out"]
    /\ ExitRoom(s)
    /\ UNCHANGED <<sock, creating, doomed, restarts>>

\* The disconnect handler.  (The closure variables it leaves set are cleared
\* here: no handler of a dead socket reads them, except a join still awaiting
\* createRouter, which overwrites them first.)
Disconnect(s) ==
    /\ sock[s] = "up"
    /\ sock' = [sock EXCEPT ![s] = "dead"]
    /\ client' = [client EXCEPT ![s] = "out"]
    /\ ExitRoom(s)
    /\ UNCHANGED <<creating, restarts>>

SocketLost(s) == Disconnect(s) /\ UNCHANGED doomed

\* A new socket: a fresh closure.  The identity is reused once no room in
\* use, no join and no kick of the old socket is left.
Connect(s) ==
    /\ sock[s] = "dead" /\ creating[s] = 0 /\ s \notin doomed
    /\ \A r \in RoomIds : InUse(r) => s \notin peers[r]
    /\ sock' = [sock EXCEPT ![s] = "up"]
    /\ mine' = [mine EXCEPT ![s] = NoRoom]
    /\ peerSet' = [peerSet EXCEPT ![s] = FALSE]
    /\ UNCHANGED <<roomVars, timerVars, client, creating, doomed, restarts>>
-----------------------------------------------------------------------------
(* The host's tools.                                                       *)

\* room:lock, either way.
Lock(s, value) ==
    /\ sock[s] = "up" /\ client[s] = "in" /\ InRoom(s) /\ UserOf[s] \in Managers
    /\ locked' = [locked EXCEPT ![mine[s]] = value]
    /\ UNCHANGED <<live, peers, session, kicked, sockVars, timerVars, restarts>>

\* room:kick: the user is barred from this Room object at once, the one
\* socket is disconnected 200 ms later.
Kick(s, target) ==
    /\ sock[s] = "up" /\ client[s] = "in" /\ InRoom(s) /\ UserOf[s] \in Managers
    /\ sock[target] = "up" /\ target \in peers[mine[s]]
    /\ kicked' = [kicked EXCEPT ![mine[s]] = @ \union {UserOf[target]}]
    /\ doomed' = doomed \union {target}
    /\ UNCHANGED <<live, peers, session, locked, sock, client, creating, mine, peerSet>>
    /\ UNCHANGED <<timerVars, restarts>>

KickFires(s) ==
    /\ s \in doomed
    /\ doomed' = doomed \ {s}
    /\ \/ Disconnect(s)
       \/ /\ sock[s] = "dead"
          /\ UNCHANGED <<roomVars, timerVars, sock, client, creating, mine, peerSet>>
          /\ UNCHANGED restarts

-----------------------------------------------------------------------------
(* The scheduler's steps, and the end of the process.                      *)

\* The grace period ends; attendance is counted afresh from here.
GraceEnds ==
    /\ TimerFires
    /\ UNCHANGED <<roomVars, sockVars, restarts>>

RunProgress(k) ==
    /\ RunSaves(k) \/ RunEnds(k)
    /\ UNCHANGED <<roomVars, sockVars, restarts>>

FieldRecording ==
    /\ FieldStart \/ FieldFinish
    /\ UNCHANGED <<roomVars, sockVars, restarts>>

\* A restart loses every socket, room, timer and run; call_started_at is in
\* the database, and the participants' screens keep the last status they got.
Restart ==
    /\ restarts < MaxRestarts
    /\ restarts' = restarts + 1
    /\ live' = NoRoom
    /\ peers' = [r \in RoomIds |-> {}]
    /\ session' = [r \in RoomIds |-> {}]
    /\ locked' = [r \in RoomIds |-> FALSE]
    /\ kicked' = [r \in RoomIds |-> {}]
    /\ sock' = [s \in Sockets |-> "dead"]
    /\ client' = [s \in Sockets |-> "out"]
    /\ creating' = [s \in Sockets |-> 0]
    /\ mine' = [s \in Sockets |-> NoRoom]
    /\ peerSet' = [s \in Sockets |-> FALSE]
    /\ doomed' = {}
    /\ pending' = NoTimer
    /\ run' = [k \in Runs |-> "idle"]
    /\ UNCHANGED <<started, spinner>>

Next ==
    \/ \E s \in Sockets :
        \/ JoinFindsNone(s) \/ JoinFindsRoom(s) \/ RoomCreated(s) \/ CreationFails(s)
        \/ Leave(s) \/ SocketLost(s) \/ Connect(s)
        \/ \E value \in BOOLEAN : Lock(s, value)
        \/ \E target \in Sockets : Kick(s, target)
        \/ KickFires(s)
    \/ GraceEnds
    \/ \E k \in Runs : RunProgress(k)
    \/ FieldRecording
    \/ Restart

(* Timers fire and promises settle; people do as they like.                *)
Fairness ==
    /\ WF_vars(GraceEnds)
    /\ \A k \in Runs : WF_vars(RunProgress(k))
    /\ \A s \in Sockets : WF_vars(KickFires(s)) /\ WF_vars(RoomCreated(s))

Spec == Init /\ [][Next]_vars /\ Fairness

-----------------------------------------------------------------------------
(* Properties.                                                             *)

\* "Re-entry cancels" (recap.ts): while the map holds a room no timer is
\* armed, so no recap begins in the middle of the call the map knows -
\* whichever object was emptied last and whoever came back first.
NoTimerWhileRoomOpen == pending # NoTimer => live = NoRoom

\* closeRoomIfEmpty runs on leaving only, not where room:join sweeps dead sockets
\* out and then turns the newcomer away: a room emptied there would never close,
\* and its call would never be recapped.  It happens to no ghost, the peer a late
\* answer of createRouter made of a closed tab, but only where a peer swept out had
\* been forgotten by its own handlers: the tab left before its join was answered, so
\* the answer put it in, and its next join was turned away.
EmptiedOnlyOfForgotten ==
    [][live # NoRoom /\ live' = live /\ peers[live] # {} /\ peers'[live] = {} =>
          \E s \in peers[live] : mine[s] # live]_vars

\* Everyone listed in a room is in its session, so the recap never calls a
\* person absent who was in the very room whose emptying started it.
SessionCoversPeers ==
    \A r \in RoomIds : \A s \in peers[r] : UserOf[s] \in session[r]

\* The object a connected socket's handlers act on lists that socket: no
\* sweep drops a live peer, or its leaving would not close the room.
HandleIsListed ==
    \A s \in Sockets :
        sock[s] = "up" /\ mine[s] # NoRoom => peerSet[s] /\ s \in peers[mine[s]]

\* A call that goes on admits no one the host has locked out or kicked, by
\* whichever tab or moment the person tries - the 200 ms before the kicked
\* socket is cut off included.
GateHolds ==
    [][live # NoRoom /\ live' = live =>
          \A s \in peers'[live] \ peers[live] :
              UserOf[s] = Host \/ ~(locked[live] \/ UserOf[s] \in kicked[live])]_vars

\* The server has the grace timer or the run that the spinner announces.
Recapping == pending # NoTimer \/ \E k \in Runs : run[k] # "idle"

\* The "generating" spinner does not turn for ever: while the server still
\* has the grace timer or the run it announced, it comes to be cleared - or the
\* server is restarted under it, the one case in which the code leaves it on.
SpinnerResolves ==
    \A n \in 0..MaxRestarts :
        Recapping /\ restarts = n ~> ~spinner \/ restarts # n

\* No step but a restart leaves a spinner to nobody: whoever ends the last recap or
\* drops the timer also clears it, whatever else is armed, started or opened between.
SpinnerHasOwner ==
    [][spinner' /\ ~Recapping' => (spinner /\ ~Recapping) \/ restarts' # restarts]_vars

\* Somebody connected is in a room the map does not hold.
Split == \E s \in Sockets : sock[s] = "up" /\ mine[s] \notin {NoRoom, live}

\* "Room per meeting code" (sfu.ts): a call in one room comes apart only when a
\* creation that found the map empty stores its room over another one.  No order of
\* leaving, sweeping, kicking, refusing and reconnecting does it.
SplitOnlyByRace ==
    [][~Split /\ Split' => live # NoRoom /\ live' \notin {NoRoom, live}]_vars

-----------------------------------------------------------------------------
(* The room and its scheduler implement the life of a call that            *)
(* CallLifecycle specifies, the fairness of its recap included.            *)

Call == INSTANCE CallLifecycle WITH
    phase <- IF live # NoRoom THEN "open" ELSE IF pending # NoTimer THEN "grace" ELSE "idle",
    split <- Split,
    running <- Cardinality({k \in Runs : run[k] # "idle"})

ImplementsCall == Call!CallSpec
=============================================================================
