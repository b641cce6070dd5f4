-------------------------- MODULE BattlegroundMgr ---------------------------
(***************************************************************************)
(* Players and battlegrounds together: the handlers with which a player    *)
(* joins the queue, answers an invitation, arrives and leaves, the logout  *)
(* and the login that cut all of these short, and what                     *)
(* BattlegroundMgr::Update does for the battlegrounds, for the events and  *)
(* for the queue. The handlers are PROCESS_THREADUNSAFE: they and the      *)
(* update run in the world thread, one at a time.                          *)
(***************************************************************************)
EXTENDS BattlegroundQueue

CONSTANTS
    Race,               \* m_team of the players
    Parties,            \* sets of players that may join together
    Unreliable,         \* bound: the players whose connection may be lost
    MaxEvents           \* bound on the remove events on record

ASSUME PartiesAssumption ==
    /\ Race \in [Players -> Teams] /\ MaxEvents \in Nat /\ Unreliable \subseteq Players
    /\ \A party \in Parties : party # {} /\ party \subseteq Players

vars == <<bgVars, scheduled, playerVars, queueVars>>

Init ==
    /\ bgs = [b \in BgIds |-> NULL] /\ freeSlotQueue = <<>> /\ scheduled = FALSE
    /\ online = Players /\ travelling = {}
    /\ bgInstanceID = [p \in Players |-> 0] /\ bgTeam = [p \in Players |-> NULL]
    /\ queueSlot = [p \in Players |-> NULL]
    /\ queuedGroups = <<>> /\ events = <<>>

\* Packets of a player in a loading screen are not handled.
InWorld(p) == p \in online \ travelling

\* CMSG_BATTLEMASTER_JOIN of a player, for itself or for the party it leads.
\* Only the leader is asked whether it is in a battleground: the others have
\* their queue slot taken if they are. The bound holds the party back while
\* many old events are on record.
HandleBattlemasterJoin(leader, party) ==
    /\ InWorld(leader) /\ bgInstanceID[leader] = 0
    /\ \A p \in party : p \in online /\ queueSlot[p] = NULL /\ Race[p] = Race[leader]
    /\ Len(events) + Cardinality(InQueue \cup party) <= MaxEvents
    /\ queuedGroups' = Append(queuedGroups, NewGroup(party, Race[leader]))
    /\ queueSlot' = [p \in Players |-> IF p \in party THEN 0 ELSE queueSlot[p]]
    /\ scheduled' = TRUE
    /\ UNCHANGED <<bgVars, online, travelling, bgInstanceID, bgTeam, events>>

\* CMSG_BATTLEFIELD_PORT with QUEUE_ACCEPT. The player keeps its queue slot. It
\* has no battleground to leave first: see SlotIsTrue.
AcceptInvitation(p) ==
    /\ InWorld(p) /\ p \in InQueue
    /\ LET group == queuedGroups[GroupOf(p)]
           b == group.IsInvitedToBGInstanceGUID
       IN  /\ b # 0 /\ bgs[b] # NULL /\ bgs[b].status # "WAIT_LEAVE"
           /\ queueSlot[p] \notin {NULL, 0}
           /\ RemovePlayer(p, bgs, FALSE)
           /\ bgInstanceID' = [bgInstanceID EXCEPT ![p] = b]
           /\ bgTeam' = [bgTeam EXCEPT ![p] = group.Team]
    /\ travelling' = travelling \cup {p}
    /\ UNCHANGED <<freeSlotQueue, scheduled, online, queueSlot, events>>

\* As if the player kept its queue slot here too.
DeclineInvitation_keepsSlot(p) ==
    /\ InWorld(p) /\ p \in InQueue /\ queueSlot[p] # NULL
    /\ RemovePlayer(p, bgs, TRUE)
    /\ scheduled' = TRUE
    /\ UNCHANGED <<freeSlotQueue, playerVars, events>>

\* CMSG_BATTLEFIELD_PORT with QUEUE_DECLINE, or accepted by a deserter.
DeclineInvitation(p) ==
    /\ InWorld(p) /\ p \in InQueue /\ queueSlot[p] # NULL
    /\ RemovePlayer(p, bgs, TRUE)
    /\ queueSlot' = [queueSlot EXCEPT ![p] = NULL]
    /\ scheduled' = TRUE
    /\ UNCHANGED <<freeSlotQueue, online, travelling, bgInstanceID, bgTeam, events>>

\* MSG_MOVE_WORLDPORT_ACK. There is no map for a battleground that is gone:
\* the player is sent back and forgets it.
Arrive(p) ==
    LET lost == bgs[bgInstanceID[p]] = NULL
    IN  /\ p \in travelling
        /\ travelling' = travelling \ {p}
        /\ bgs' = HandleMoveWorldportAck(p)
        /\ bgInstanceID' = IF lost THEN [bgInstanceID EXCEPT ![p] = 0] ELSE bgInstanceID
        /\ bgTeam' = IF lost THEN [bgTeam EXCEPT ![p] = NULL] ELSE bgTeam
        /\ UNCHANGED <<freeSlotQueue, scheduled, online, queueSlot, queueVars>>

\* Player::LeaveBattleground, for the handler and all that drives a player out.
LeaveBattleground(p) ==
    /\ InWorld(p) /\ bgInstanceID[p] # 0 /\ bgs[bgInstanceID[p]] # NULL
    /\ RemovePlayerAtLeave(bgInstanceID[p], {p}, FALSE)
    /\ UNCHANGED <<online, travelling, queueVars>>

\* As if only a battleground in progress noted who is offline.
EventPlayerLoggedOut_inProgress(p, in) ==
    LET b == bgInstanceID[p]
    IN  IF b # 0 /\ in[b] # NULL /\ p \in DOMAIN in[b].m_Players /\ in[b].status = "IN_PROGRESS"
        THEN [in EXCEPT ![b].m_OfflineQueue = Append(@, p)] ELSE in

EventPlayerLoggedOut(p, in) ==
    LET b == bgInstanceID[p]
    IN  IF b # 0 /\ in[b] # NULL /\ p \in DOMAIN in[b].m_Players
        THEN [in EXCEPT ![b].m_OfflineQueue = Append(@, p)] ELSE in

\* WorldSession::LogoutPlayer: the transfer is finished, the battleground is
\* told, and every queue is left.
LogoutPlayer(p) ==
    LET told == EventPlayerLoggedOut(p, HandleMoveWorldportAck(p))
    IN  /\ p \in online
        /\ online' = online \ {p} /\ travelling' = travelling \ {p}
        /\ IF queueSlot[p] # NULL THEN RemovePlayer(p, told, TRUE)
           ELSE bgs' = told /\ UNCHANGED queuedGroups
        /\ queueSlot' = [queueSlot EXCEPT ![p] = NULL]
        /\ UNCHANGED <<freeSlotQueue, scheduled, bgInstanceID, bgTeam, events>>

-----------------------------------------------------------------------------
(* Player::LoadFromDB of a player who was saved inside a battleground *)

ReturnToBattleground(p) ==
    LET b == bgInstanceID[p]
    IN  /\ p \notin online /\ b # 0 /\ p \in Inside(b) /\ bgs[b].status # "WAIT_LEAVE"
        /\ online' = online \cup {p}
        /\ queueSlot' = [queueSlot EXCEPT ![p] = b]
        /\ bgs' = [bgs EXCEPT ![b].m_OfflineQueue = EraseFirst(@, p)]
        /\ UNCHANGED <<freeSlotQueue, scheduled, travelling, bgInstanceID, bgTeam, queueVars>>

\* The player is not found with ObjectAccessor yet: it resets its own id. The
\* side it had is not read again, as GetTeam asks for a battleground first.
ReturnToEntryPoint(p) ==
    LET b == bgInstanceID[p]
        fewer == DecreaseInvitedCount(bgs[b], bgs[b].m_Players[p], 1)
    IN  /\ p \notin online
        /\ b # 0 => ~(p \in Inside(b) /\ bgs[b].status # "WAIT_LEAVE")
        /\ online' = online \cup {p}
        /\ bgs' = IF b # 0 /\ p \in Inside(b)
                  THEN [bgs EXCEPT ![b] = [fewer EXCEPT !.m_Players =
                                              Restrict(bgs[b].m_Players, Inside(b) \ {p})]]
                  ELSE bgs
        /\ bgInstanceID' = [bgInstanceID EXCEPT ![p] = 0]
        /\ bgTeam' = [bgTeam EXCEPT ![p] = NULL]
        /\ UNCHANGED <<freeSlotQueue, scheduled, travelling, queueSlot, queueVars>>

-----------------------------------------------------------------------------
(* Battleground::Update, one alternative for each thing it may do *)

NotWanted(b) == freeSlotQueue' = EraseFirst(freeSlotQueue, b)

\* As if nobody asked for the invitations that are still out.
DeleteEmpty_invited(b) ==
    /\ bgs[b] # NULL /\ Inside(b) = {}
    /\ bgs' = [bgs EXCEPT ![b] = NULL]
    /\ NotWanted(b)
    /\ UNCHANGED <<scheduled, playerVars, queueVars>>

DeleteEmpty(b) ==
    /\ bgs[b] # NULL /\ Inside(b) = {} /\ \A t \in Teams : bgs[b].invited[t] = 0
    /\ bgs' = [bgs EXCEPT ![b] = NULL]
    /\ NotWanted(b)
    /\ UNCHANGED <<scheduled, playerVars, queueVars>>

\* The start delay is over.
ProcessJoin(b) ==
    /\ Inside(b) # {} /\ bgs[b].status = "WAIT_JOIN"
    /\ bgs' = [bgs EXCEPT ![b].status = "IN_PROGRESS"]
    /\ UNCHANGED <<freeSlotQueue, scheduled, playerVars, queueVars>>

ProcessOfflineQueue(b) ==
    /\ Inside(b) # {} /\ bgs[b].status = "IN_PROGRESS" /\ bgs[b].m_OfflineQueue # <<>>
    /\ Head(bgs[b].m_OfflineQueue) \in Inside(b)
    /\ RemovePlayerAtLeave(b, {Head(bgs[b].m_OfflineQueue)}, TRUE)
    /\ UNCHANGED <<online, travelling, queueVars>>

\* EndBattleground, or EndNow where the battleground cannot be set up.
EndBattleground(b) ==
    /\ Inside(b) # {} /\ bgs[b].status \in {"WAIT_JOIN", "IN_PROGRESS"}
    /\ bgs' = [bgs EXCEPT ![b].status = "WAIT_LEAVE", ![b].m_InBGFreeSlotQueue = FALSE]
    /\ NotWanted(b)
    /\ UNCHANGED <<scheduled, playerVars, queueVars>>

\* The two minutes for the results are over.
ProcessLeave(b) ==
    /\ Inside(b) # {} /\ bgs[b].status = "WAIT_LEAVE"
    /\ RemovePlayerAtLeave(b, Inside(b), FALSE)
    /\ UNCHANGED <<online, travelling, queueVars>>

Next ==
    \/ \E party \in Parties : \E leader \in party : HandleBattlemasterJoin(leader, party)
    \/ \E p \in Players : AcceptInvitation(p) \/ DeclineInvitation(p) \/ Arrive(p)
                          \/ LeaveBattleground(p)
    \/ \E p \in Unreliable : LogoutPlayer(p) \/ ReturnToBattleground(p) \/ ReturnToEntryPoint(p)
    \/ \E b \in BgIds : DeleteEmpty(b) \/ ProcessJoin(b) \/ ProcessOfflineQueue(b)
                        \/ EndBattleground(b) \/ ProcessLeave(b)
    \/ ExecuteRemoveEvent
    \/ BattlegroundQueueUpdate

\* BattlegroundMgr::Update runs in every tick, and with it the updates of the
\* battlegrounds and the events that are due. Nobody has to answer, to arrive
\* or to log in again.
Fairness ==
    /\ \A b \in BgIds : WF_vars(ProcessJoin(b)) /\ WF_vars(ProcessOfflineQueue(b))
                        /\ WF_vars(ProcessLeave(b))
    /\ WF_vars(ExecuteRemoveEvent)

Spec == Init /\ [][Next]_vars /\ Fairness

-----------------------------------------------------------------------------
(* Properties *)

Live == {b \in BgIds : bgs[b] # NULL}

\* The players in the queue who are invited to b for a side.
Invited(b, team) ==
    UNION {queuedGroups[i].Players : i \in {j \in DOMAIN queuedGroups :
        queuedGroups[j].IsInvitedToBGInstanceGUID = b /\ queuedGroups[j].Team = team}}

\* The counters of invited players, from which the free slots are computed and
\* the end of a battleground is decided, count exactly those who still hold an
\* invitation, those on their way and those inside, each for its own side.
InvitedIsExact ==
    \A b \in Live, team \in Teams :
        bgs[b].invited[team] =
            Cardinality(Invited(b, team))
            + Cardinality({p \in travelling : bgInstanceID[p] = b /\ bgTeam[p] = team})
            + PlayersCountByTeam(bgs[b], team)

\* No battleground is deleted while somebody holds an invitation to it or is
\* on the way into it, although ids are used again. The remove event provides
\* for a battleground that is gone, and Arrive for one that has no map.
InvitationIsLive ==
    /\ \A i \in DOMAIN queuedGroups :
          queuedGroups[i].IsInvitedToBGInstanceGUID \in Live \cup {0}
    /\ \A p \in online : bgInstanceID[p] \in Live \cup {0}

\* The queue slot of a player says what the queue and the battlegrounds say:
\* who waits is in the world (the case InviteGroupToBG says should not happen)
\* and waits in one group only, and who has a battleground is in no queue.
SlotIsTrue ==
    /\ \A i, j \in DOMAIN queuedGroups : i # j =>
          queuedGroups[i].Players \cap queuedGroups[j].Players = {}
    /\ \A p \in Players :
          CASE p \in InQueue ->
                  /\ p \in online /\ bgInstanceID[p] = 0
                  /\ queueSlot[p] = queuedGroups[GroupOf(p)].IsInvitedToBGInstanceGUID
            [] p \notin InQueue /\ p \in online /\ bgInstanceID[p] # 0 ->
                  /\ queueSlot[p] = bgInstanceID[p]
                  /\ p \in travelling <=> p \notin Inside(bgInstanceID[p])
            [] OTHER -> queueSlot[p] = NULL

\* A player is put out of the queue for not answering only by the last of the
\* remove events on record for it: one that is left from an earlier invitation,
\* to the same battleground or to another, does nothing (the cases 3 and 4 of
\* the comment on BGQueueRemoveEvent::Execute).
LateEventIsHarmless ==
    [][\A p \in Players :
         (p \in InQueue /\ p \notin InQueue' /\ events' # events) =>
             \A k \in DOMAIN events' : events'[k].player # p]_vars

\* Who loses its connection inside a battleground comes back or is removed, so
\* that its place is free: m_OfflineQueue, of which Update looks at the head
\* only, is never blocked by a player who is not inside any more.
OfflineIsRemoved ==
    \A p \in Unreliable, b \in BgIds :
        (p \in Inside(b) /\ p \notin online) ~> (p \notin Inside(b) \/ p \in online)

\* Every invitation ends: answered, taken back, or lost with the connection.
InvitationEnds ==
    \A p \in Players :
        (p \in InQueue /\ queueSlot[p] # 0) ~> (p \notin InQueue \/ queueSlot[p] = 0)

\* A side never has more players invited than fit ("player number limit is
\* checked in bgmgr, no need to do it here", BattlegroundMap::CanEnter).
TeamFits ==
    \A b \in Live, team \in Teams : bgs[b].invited[team] <= MaxPlayersPerTeam

=============================================================================
