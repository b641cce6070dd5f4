--------------------------- MODULE SessionPackets ---------------------------
(***************************************************************************)
(* The packets of one WorldSession: the network thread queues them, the    *)
(* world thread and the player's map thread take turns to work through the *)
(* queue in WorldSession::Update, each through its PacketFilter. Packets   *)
(* are numbered in the order of arrival; of their opcodes only the status, *)
(* the processing class and what the handler does to the session are kept. *)
(***************************************************************************)
EXTENDS Integers, Sequences, FiniteSets

CONSTANTS
    Kinds,          \* the kinds of packets the client sends
    MaxPackets      \* bound on the packets received

AllKinds == {"move", "chat", "logout", "areatrigger", "cancel_trade", "worldport", "enum", "login", "never"}

ASSUME KindsAssumption == Kinds \subseteq AllKinds /\ MaxPackets \in Nat

\* opcodeTable: OpcodeHandler::status ...
Status(kind) ==
    CASE kind \in {"move", "chat", "logout", "areatrigger"} -> "LOGGEDIN"
      [] kind = "cancel_trade" -> "LOGGEDIN_OR_RECENTLY_LOGGOUT"
      [] kind = "worldport" -> "TRANSFER"
      [] kind \in {"enum", "login"} -> "AUTHED"
      [] kind = "never" -> "NEVER"

\* ... and packetProcessing.
Processing(kind) ==
    CASE kind = "move" -> "THREADSAFE"
      [] kind = "never" -> "INPLACE"
      [] OTHER -> "THREADUNSAFE"

NULL == 0

VARIABLES
    kinds,          \* the kind of each packet received
    _recvQueue,
    closed,         \* the socket is closed
    _player,        \* "none", "world" (IsInWorld) or "transfer"
    login,          \* m_playerLoading: "no", "query", "stuck"
    m_playerRecentlyLogout,
    _logoutTime,    \* a logout is due
    m_inQueue,
    ended,          \* Update() returned false and the session was deleted
    phase, updater, packet, deletePacket, firstDelayedPacket,   \* locals of Update()
    freed, leaked,  \* packets deleted, and forgotten without that
    taken,          \* packets that were dealt with, in order
    delayed         \* packets that were queued again at least once

local == <<phase, updater, packet, deletePacket, firstDelayedPacket>>
state == <<_player, login, m_playerRecentlyLogout, _logoutTime>>
memory == <<freed, leaked, taken, delayed>>
packetVars == <<kinds, _recvQueue, closed, state, m_inQueue, ended, local, memory>>

Received == 1..Len(kinds)
Queued == {_recvQueue[k] : k \in 1..Len(_recvQueue)}

PacketInit ==
    /\ kinds = <<>> /\ _recvQueue = <<>>
    /\ closed = FALSE /\ ended = FALSE
    /\ _player = "none" /\ login = "no"
    /\ m_playerRecentlyLogout = FALSE /\ _logoutTime = FALSE
    /\ m_inQueue \in BOOLEAN
    /\ phase = "idle" /\ updater = "world" /\ packet = NULL
    /\ deletePacket = TRUE /\ firstDelayedPacket = NULL
    /\ freed = {} /\ leaked = {} /\ taken = <<>> /\ delayed = {}

-----------------------------------------------------------------------------
(* Around the session *)

\* WorldSession::QueuePacket, called by the network thread.
QueuePacket(kind) ==
    /\ ~closed /\ ~ended /\ Len(kinds) < MaxPackets
    /\ kinds' = Append(kinds, kind)
    /\ _recvQueue' = Append(_recvQueue, Len(kinds'))
    /\ UNCHANGED <<closed, state, m_inQueue, ended, local, memory>>

\* The connection ends, for any of the reasons WorldSocket models.
CloseSession ==
    /\ ~closed /\ closed' = TRUE
    /\ UNCHANGED <<kinds, _recvQueue, state, m_inQueue, ended, local, memory>>

\* RemoveQueuedPlayer lets the session out of the login queue.
LeaveQueue ==
    /\ phase = "idle" /\ m_inQueue /\ m_inQueue' = FALSE
    /\ UNCHANGED <<kinds, _recvQueue, closed, state, ended, local, memory>>

\* The game sends the player to another map.
TeleportTo ==
    /\ phase = "idle" /\ _player = "world" /\ _player' = "transfer"
    /\ UNCHANGED <<kinds, _recvQueue, closed, login, m_playerRecentlyLogout, _logoutTime>>
    /\ UNCHANGED <<m_inQueue, ended, local, memory>>

\* WorldSession::LogoutPlayer; a pending transfer is finished first.
LogoutPlayer ==
    /\ _player' = "none" /\ m_playerRecentlyLogout' = TRUE /\ _logoutTime' = FALSE

\* AccountMgr::DeleteAccount, a command of the world thread.
DeleteAccount ==
    /\ phase = "idle" /\ _player = "world"
    /\ closed' = TRUE /\ LogoutPlayer
    /\ UNCHANGED <<kinds, _recvQueue, login, m_inQueue, ended, local, memory>>

-----------------------------------------------------------------------------
(* WorldSession::Update *)

\* Defect: thread-safe packets are left alone though the player is on no map.
WorldSessionFilter_map(kind) == Processing(kind) # "THREADSAFE"

WorldSessionFilter(kind) ==
    Processing(kind) # "THREADSAFE" \/ _player # "world"

\* Defect: thread-unsafe packets pass as well.
MapSessionFilter_all(kind) == Processing(kind) = "INPLACE" \/ _player = "world"

MapSessionFilter(kind) ==
    \/ Processing(kind) = "INPLACE"
    \/ Processing(kind) = "THREADSAFE" /\ _player = "world"

\* World::UpdateSessions calls it, and Map::Update for a player in the world.
Update(who) ==
    /\ phase = "idle" /\ ~ended
    /\ who = "map" => _player = "world"
    /\ phase' = "next" /\ updater' = who
    /\ deletePacket' = TRUE /\ firstDelayedPacket' = NULL
    /\ UNCHANGED <<kinds, _recvQueue, closed, state, m_inQueue, ended, packet, memory>>

Accepts(kind) == IF updater = "world" THEN WorldSessionFilter(kind) ELSE MapSessionFilter(kind)

\* Defect: the loop does not stop at the first packet it delayed.
HasNext_endless ==
    /\ ~closed /\ _recvQueue # <<>>
    /\ Accepts(kinds[Head(_recvQueue)])

\* The condition of the loop, LockedQueue::next with the filter included.
HasNext ==
    /\ ~closed /\ _recvQueue # <<>>
    /\ Head(_recvQueue) # firstDelayedPacket
    /\ Accepts(kinds[Head(_recvQueue)])

\* Defect: the youngest packet is taken.
NextPacket_last ==
    /\ phase = "next" /\ HasNext
    /\ packet' = _recvQueue[Len(_recvQueue)]
    /\ _recvQueue' = SubSeq(_recvQueue, 1, Len(_recvQueue) - 1)
    /\ phase' = "handle"
    /\ UNCHANGED <<kinds, closed, state, m_inQueue, ended, updater, deletePacket>>
    /\ UNCHANGED <<firstDelayedPacket, memory>>

NextPacket ==
    /\ phase = "next" /\ HasNext
    /\ packet' = Head(_recvQueue) /\ _recvQueue' = Tail(_recvQueue)
    /\ phase' = "handle"
    /\ UNCHANGED <<kinds, closed, state, m_inQueue, ended, updater, deletePacket>>
    /\ UNCHANGED <<firstDelayedPacket, memory>>

\* The end of an iteration, delete included.
Dispose(delete) ==
    /\ phase' = "next" /\ packet' = NULL
    /\ freed' = IF delete THEN freed \cup {packet} ELSE freed
    /\ leaked' = IF delete THEN leaked ELSE leaked \cup {packet}

\* The packet is done with, whatever its handler did.
Done ==
    /\ Dispose(deletePacket)
    /\ taken' = Append(taken, packet)
    /\ UNCHANGED <<_recvQueue, deletePacket, firstDelayedPacket, delayed>>

\* Defect: the packet that was queued again is deleted as well.
Delay_deleted ==
    /\ phase = "handle" /\ Status(kinds[packet]) = "LOGGEDIN"
    /\ _player = "none" /\ ~m_playerRecentlyLogout
    /\ firstDelayedPacket' = IF firstDelayedPacket = NULL THEN packet ELSE firstDelayedPacket
    /\ _recvQueue' = Append(_recvQueue, packet)
    /\ delayed' = delayed \cup {packet}
    /\ Dispose(deletePacket)
    /\ UNCHANGED <<kinds, closed, state, m_inQueue, ended, updater, deletePacket, taken>>

\* STATUS_LOGGEDIN before there is a player: back to the end of the queue.
Delay ==
    /\ phase = "handle" /\ Status(kinds[packet]) = "LOGGEDIN"
    /\ _player = "none" /\ ~m_playerRecentlyLogout
    /\ firstDelayedPacket' = IF firstDelayedPacket = NULL THEN packet ELSE firstDelayedPacket
    /\ deletePacket' = FALSE
    /\ _recvQueue' = Append(_recvQueue, packet)
    /\ delayed' = delayed \cup {packet}
    /\ phase' = "next" /\ packet' = NULL
    /\ UNCHANGED <<kinds, closed, state, m_inQueue, ended, updater, freed, leaked, taken>>

\* Is the handler called?
Expected(kind) ==
    CASE Status(kind) = "LOGGEDIN" -> _player = "world"
      [] Status(kind) = "LOGGEDIN_OR_RECENTLY_LOGGOUT" -> _player # "none" \/ m_playerRecentlyLogout
      [] Status(kind) = "TRANSFER" -> _player = "transfer"
      [] Status(kind) = "AUTHED" -> ~m_inQueue
      [] OTHER -> FALSE

\* An unexpected packet is logged and dropped, a LOGGEDIN one after a logout
\* or during a transfer silently.
Drop ==
    /\ phase = "handle" /\ ~Expected(kinds[packet])
    /\ ~(Status(kinds[packet]) = "LOGGEDIN" /\ _player = "none" /\ ~m_playerRecentlyLogout)
    /\ Done
    /\ UNCHANGED <<kinds, closed, state, m_inQueue, ended, updater>>

\* HandleLogoutRequestOpcode: in combat, in a battleground, at once.
HandleLogoutRequestOpcode ==
    \/ _logoutTime' \in BOOLEAN /\ UNCHANGED <<_player, m_playerRecentlyLogout>>
    \/ LogoutPlayer

\* HandleMoveWorldportAckOpcode: arrived, sent on to the homebind, or logged out
\* for invalid coordinates.
HandleMoveWorldportAckOpcode ==
    \/ _player' \in {"world", "transfer"} /\ UNCHANGED <<m_playerRecentlyLogout, _logoutTime>>
    \/ LogoutPlayer

\* Defect: only a login that is still loading refuses the next one.
HandlePlayerLoginOpcode_second ==
    login' \in IF login # "no" THEN {login} ELSE {"no", "query", "stuck"}

\* HandlePlayerLoginOpcode: a second login is refused; m_playerLoading is set
\* before the packet is read, and stays set when reading it throws.
HandlePlayerLoginOpcode ==
    login' \in IF login # "no" \/ _player # "none" THEN {login} ELSE {"no", "query", "stuck"}

\* What the handlers do to the session. A ByteBufferException skips the rest of
\* the packet.
Handle ==
    /\ phase = "handle" /\ Expected(kinds[packet])
    /\ LET kind == kinds[packet]
       IN  \/ kind \in {"move", "chat", "cancel_trade", "never"} /\ UNCHANGED state
           \/ /\ kind = "areatrigger" /\ _player' \in {"world", "transfer"}
              /\ UNCHANGED <<login, m_playerRecentlyLogout, _logoutTime>>
           \/ kind = "logout" /\ HandleLogoutRequestOpcode /\ UNCHANGED login
           \/ kind = "worldport" /\ HandleMoveWorldportAckOpcode /\ UNCHANGED login
           \/ /\ kind = "enum" /\ m_playerRecentlyLogout' = FALSE
              /\ UNCHANGED <<_player, login, _logoutTime>>
           \/ /\ kind = "login" /\ HandlePlayerLoginOpcode
              /\ UNCHANGED <<_player, m_playerRecentlyLogout, _logoutTime>>
    /\ Done
    /\ UNCHANGED <<kinds, closed, m_inQueue, ended, updater>>

\* HandlePlayerLogin: the player is loaded and added to a map, or sent away from
\* it at once, or could not be loaded.
HandlePlayerLogin == login' = "no" /\ _player' \in {"none", "world", "transfer"}

\* The loop ends; ProcessQueryCallbacks finds the answer to the login query, or
\* not yet. A map update is over then.
ProcessQueryCallbacks ==
    /\ phase = "next" /\ ~HasNext
    /\ \/ UNCHANGED <<_player, login>>
       \/ login = "query" /\ HandlePlayerLogin
    /\ phase' = IF updater = "map" THEN "idle" ELSE "finish"
    /\ UNCHANGED <<kinds, _recvQueue, closed, m_playerRecentlyLogout, _logoutTime, m_inQueue, ended>>
    /\ UNCHANGED <<updater, packet, deletePacket, firstDelayedPacket, memory>>

\* ~WorldSession logs the player out and empties the queue.
DestroySession ==
    /\ ended' = TRUE
    /\ freed' = freed \cup Queued /\ _recvQueue' = <<>>
    /\ _player' = "none" /\ UNCHANGED <<m_playerRecentlyLogout, _logoutTime>>

\* The world's part: a logout that is due, and the end of a session whose
\* socket is closed.
FinishUpdate ==
    /\ phase = "finish" /\ phase' = "idle"
    /\ \/ closed /\ DestroySession
       \/ /\ ~closed /\ UNCHANGED <<ended, freed, _recvQueue>>
          /\ \/ UNCHANGED <<_player, m_playerRecentlyLogout, _logoutTime>>
             \/ _logoutTime /\ login = "no" /\ LogoutPlayer
    /\ UNCHANGED <<kinds, closed, login, m_inQueue, leaked, taken, delayed>>
    /\ UNCHANGED <<updater, packet, deletePacket, firstDelayedPacket>>

UpdateStep == NextPacket \/ Delay \/ Drop \/ Handle \/ ProcessQueryCallbacks \/ FinishUpdate

PacketNext ==
    \/ \E kind \in Kinds : QueuePacket(kind)
    \/ CloseSession \/ LeaveQueue \/ TeleportTo \/ DeleteAccount
    \/ \E who \in {"world", "map"} : Update(who)
    \/ UpdateStep

PacketSpec == PacketInit /\ [][PacketNext]_packetVars

\* The world thread updates the session and the map of its player in every
\* tick, and an update goes on.
Fairness ==
    /\ \A who \in {"world", "map"} : SF_packetVars(Update(who))
    /\ WF_packetVars(UpdateStep)

PacketFairSpec == PacketSpec /\ Fairness

-----------------------------------------------------------------------------
(* Properties *)

\* A packet that was received is in one place only: waiting once in the queue,
\* with the update that took it, deleted, or forgotten; what is queued again
\* for later must not be deleted by the end of the iteration, nor be there twice.
OnePlace ==
    /\ Cardinality(Queued) = Len(_recvQueue)
    /\ \A p \in Received :
           Cardinality({place \in {"queue", "hand", "freed", "leaked"} :
               \/ place = "queue" /\ p \in Queued
               \/ place = "hand" /\ p = packet
               \/ place = "freed" /\ p \in freed
               \/ place = "leaked" /\ p \in leaked}) = 1

\* A packet is overtaken by a later one only if it was put off because there
\* was no player yet; two threads sharing the queue never reorder it.
OvertakenOnlyIfDelayed ==
    \A i, j \in 1..Len(taken) : i < j /\ taken[j] < taken[i] => taken[j] \in delayed

\* There is no login query under way while the session has a player, so that
\* HandlePlayerLogin never replaces a player that is in the game.
LoginMeansNoPlayer == login = "query" => _player = "none"

\* "logout procedure should happen only in World::UpdateSessions() method": the
\* player does not go away under the map that is running the update.
MapKeepsPlayer ==
    [][updater = "map" /\ phase # "idle" => (_player' = "none" => _player = "none")]_packetVars

\* Every call of Update returns, though it puts packets back into the queue it
\* is working through.
UpdateEnds == phase # "idle" ~> phase = "idle"

\* A packet at the head of the queue that one of the two filters rejects is
\* accepted by the other one: while there is a player every packet gets its turn.
NotBlocked ==
    \A p \in 1..MaxPackets : p \in Queued ~> p \notin Queued \/ _player = "none"

=============================================================================
