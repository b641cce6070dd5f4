------------------------- MODULE BattlegroundQueue --------------------------
(***************************************************************************)
(* The queue for these battlegrounds (class BattlegroundQueue): the groups *)
(* that wait in BG_QUEUE_MIXED, the selection of groups for a battleground *)
(* that has free slots or for a new one, the invitations, and the events   *)
(* that take back invitations nobody answers.                              *)
(***************************************************************************)
EXTENDS Battleground

VARIABLES
    queuedGroups,       \* m_QueuedGroups[bracket][BG_QUEUE_MIXED], oldest first
    events              \* m_events: the remove events, in the order in which they are due

queueVars == <<queuedGroups, events>>

\* GroupQueueInfo. Its OTeam is never set: see PreAddTeams.
NewGroup(members, team) ==
    [Players |-> members, Team |-> team,
     IsInvitedToBGInstanceGUID |-> 0, RemoveInviteTime |-> 0]

Uninvited(groups) == {i \in DOMAIN groups : groups[i].IsInvitedToBGInstanceGUID = 0}

InQueue == UNION {queuedGroups[i].Players : i \in DOMAIN queuedGroups}

\* The GroupInfo of m_QueuedPlayers[p].
GroupOf(p) == CHOOSE i \in DOMAIN queuedGroups : p \in queuedGroups[i].Players

\* As if the time of the invitation were not compared.
IsPlayerInvited_anyTime(p, b, removeTime) ==
    p \in InQueue /\ queuedGroups[GroupOf(p)].IsInvitedToBGInstanceGUID = b

IsPlayerInvited(p, b, removeTime) ==
    /\ p \in InQueue
    /\ queuedGroups[GroupOf(p)].IsInvitedToBGInstanceGUID = b
    /\ queuedGroups[GroupOf(p)].RemoveInviteTime = removeTime

\* The battlegrounds `in` when one player of `group` is not invited any more.
WithoutInvitation(in, group) ==
    LET b == group.IsInvitedToBGInstanceGUID
    IN  IF b # 0 /\ in[b] # NULL
        THEN [in EXCEPT ![b] = DecreaseInvitedCount(@, group.Team, 1)] ELSE in

\* The groups without p; a group is deleted with its last player.
WithoutPlayer(p) ==
    LET i == GroupOf(p)
    IN  IF queuedGroups[i].Players = {p} THEN EraseAt(queuedGroups, i)
        ELSE [queuedGroups EXCEPT ![i].Players = @ \ {p}]

\* As if an accepted invitation were given back too.
RemovePlayer_gaveBack(p, in, decreaseInvitedCount) ==
    IF p \notin InQueue THEN UNCHANGED queuedGroups /\ bgs' = in
    ELSE queuedGroups' = WithoutPlayer(p) /\ bgs' = WithoutInvitation(in, queuedGroups[GroupOf(p)])

\* The queue without p, and the battlegrounds, which were `in` before.
RemovePlayer(p, in, decreaseInvitedCount) ==
    IF p \notin InQueue
    THEN UNCHANGED queuedGroups /\ bgs' = in
    ELSE /\ queuedGroups' = WithoutPlayer(p)
         /\ bgs' = IF decreaseInvitedCount THEN WithoutInvitation(in, queuedGroups[GroupOf(p)])
                   ELSE in

-----------------------------------------------------------------------------
(* Selecting groups: `sel` has the groups, the selection pool of each side,  *)
(* with groups by their place in the queue, and the slots that are still     *)
(* thought free.                                                             *)

Size(groups, i) == Cardinality(groups[i].Players)

\* How many players wait in some groups. Nobody waits in two of them.
Waiting(groups, wanted) == Cardinality(UNION {groups[i].Players : i \in wanted})

NewPool == [SelectedGroups |-> <<>>, PlayerCount |-> 0]

\* SelectionPool::AddGroup takes the group if there is room for all of it...
Fits(sel, team, i, desired) ==
    /\ sel.groups[i].IsInvitedToBGInstanceGUID = 0
    /\ desired >= sel.pool[team].PlayerCount + Size(sel.groups, i)

\* ...and answers yes even if it did not, as long as the pool is not full.
AddGroupAnswer(sel, team, i, desired) ==
    Fits(sel, team, i, desired) \/ sel.pool[team].PlayerCount < desired

AddGroup(sel, team, i, desired) ==
    IF Fits(sel, team, i, desired)
    THEN [sel EXCEPT !.pool[team] =
             [SelectedGroups |-> Append(@.SelectedGroups, i),
              PlayerCount |-> @.PlayerCount + Size(sel.groups, i)]]
    ELSE sel

\* The last entry of a QueuedGroupMap of the groups in `wanted`: the largest
\* and, among groups of one size, the last to have joined.
Largest(groups, wanted) ==
    CHOOSE i \in wanted : \A j \in wanted \ {i} :
        Size(groups, i) > Size(groups, j) \/ (Size(groups, i) = Size(groups, j) /\ i > j)

\* The QueuedGroupMap read from its end.
LargestFirst(groups, wanted) ==
    LET left[n \in 0..Cardinality(wanted)] ==
            IF n = 0 THEN wanted ELSE left[n - 1] \ {Largest(groups, left[n - 1])}
    IN  [n \in 1..Cardinality(wanted) |-> Largest(groups, left[n - 1])]

\* PreAddPlayers adds groups to the pool of their OTeam, and reports as added
\* what it could not add.
PreAdd(acc, team, i, maxInTeam) ==
    IF Size(acc.sel.groups, i) <= acc.left /\ AddGroupAnswer(acc.sel, team, i, maxInTeam)
    THEN [sel |-> AddGroup(acc.sel, team, i, maxInTeam), left |-> acc.left - Size(acc.sel.groups, i)]
    ELSE acc

PreAddPlayers(sel, team, wanted, maxAdd, maxInTeam) ==
    LET order == LargestFirst(sel.groups, wanted)
        added[n \in 0..Len(order)] ==
            IF n = 0 THEN [sel |-> sel, left |-> maxAdd]
            ELSE PreAdd(added[n - 1], team, order[n], maxInTeam)
        all == added[Len(order)]
    IN  [all.sel EXCEPT !.free[team] = @ - all.left]

\* OTeam is whatever the memory of the group held before. All that is read of
\* it is whether it is ALLIANCE: `oAlliance` has the groups for which it is.
PreAddTeams(sel, free, oAlliance) ==
    LET alliance == Uninvited(sel.groups) \cap oAlliance
        horde == Uninvited(sel.groups) \ oAlliance
        smallest == Smaller(Smaller(free["ALLIANCE"], Waiting(sel.groups, alliance)),
                            Smaller(free["HORDE"], Waiting(sel.groups, horde)))
    IN  PreAddPlayers(PreAddPlayers(sel, "ALLIANCE", alliance, smallest, free["ALLIANCE"]),
                      "HORDE", horde, smallest, free["HORDE"])

CheckCrossFactionMatch(sel) ==
    \A t \in Teams : sel.pool[t].PlayerCount >= MinPlayersPerTeam

\* A group that is not selected yet goes to the side with more free slots.
AddToSmallerSide(sel, i, free) ==
    LET taken == UNION {Range(sel.pool[t].SelectedGroups) : t \in Teams}
        team == IF sel.free["ALLIANCE"] = sel.free["HORDE"] THEN sel.groups[i].Team
                ELSE IF sel.free["ALLIANCE"] < sel.free["HORDE"] THEN "HORDE" ELSE "ALLIANCE"
        moved == [sel EXCEPT !.groups[i].Team = team]
    IN  IF sel.groups[i].IsInvitedToBGInstanceGUID # 0 \/ i \in taken \/ CheckCrossFactionMatch(sel)
        THEN sel
        ELSE [AddGroup(moved, team, i, free[team]) EXCEPT
                !.free[team] = IF AddGroupAnswer(moved, team, i, free[team])
                               THEN @ - Size(sel.groups, i) ELSE @]

\* queuedPeople is an uint8.
FillXPlayersToBG(groups, free, start, oAlliance) ==
    LET empty == [groups |-> groups, pool |-> [t \in Teams |-> NewPool], free |-> free]
        first == IF start THEN PreAddTeams(empty, free, oAlliance) ELSE empty
        queuedPeople == Waiting(groups, Uninvited(groups)) % 256
        order == LargestFirst(groups, DOMAIN groups)
        sel[n \in 0..Len(order)] ==
            IF n = 0 THEN first ELSE AddToSmallerSide(sel[n - 1], order[n], free)
    IN  IF start /\ queuedPeople < 2 * MinPlayersPerTeam THEN empty ELSE sel[Len(order)]

-----------------------------------------------------------------------------
(* Inviting: `state` has groups, bgs, freeSlotQueue, queueSlot and events. *)

\* getMSTime() + INVITE_ACCEPT_WAIT_TIME: later than every earlier one. Only
\* those still on record can be compared with it.
RemoveInviteTime ==
    LET used == {events[k].removeTime : k \in DOMAIN events} \cup
                {queuedGroups[i].RemoveInviteTime : i \in DOMAIN queuedGroups}
    IN  CHOOSE time \in 1 .. Len(events) + Len(queuedGroups) + 1 :
           time \notin used /\ \A earlier \in 1 .. time - 1 : earlier \in used

\* The players of a group as its map has them, in some order.
SomeOrder(players) == CHOOSE order \in Bijection(1..Cardinality(players), players) : TRUE

\* As if there were one event for a group and not one for each of its players.
RemoveEvents_one(players, b) ==
    LET members == SomeOrder(players)
    IN  [k \in {1} \cap DOMAIN members |->
            [player |-> members[k], bg |-> b, removeTime |-> RemoveInviteTime]]

\* The remove events for the players invited; the reminders change nothing.
RemoveEvents(players, b) ==
    LET members == SomeOrder(players)
    IN  [k \in DOMAIN members |->
            [player |-> members[k], bg |-> b, removeTime |-> RemoveInviteTime]]

InviteGroupToBG(state, i, b) ==
    LET group == state.groups[i]
        invited == group.Players \cap online
    IN  IF group.IsInvitedToBGInstanceGUID # 0 THEN state
        ELSE [groups |-> [state.groups EXCEPT ![i] =
                 [Players |-> group.Players, Team |-> group.Team,
                  IsInvitedToBGInstanceGUID |-> b, RemoveInviteTime |-> RemoveInviteTime]],
              bgs |-> [state.bgs EXCEPT ![b] =
                 IncreaseInvitedCount(@, group.Team, Cardinality(invited))],
              freeSlotQueue |-> state.freeSlotQueue,
              queueSlot |-> [p \in Players |-> IF p \in invited /\ state.queueSlot[p] # NULL THEN b
                                               ELSE state.queueSlot[p]],
              events |-> state.events \o RemoveEvents(invited, b)]

InvitePools(state, sel, b) ==
    LET order == sel.pool["ALLIANCE"].SelectedGroups \o sel.pool["HORDE"].SelectedGroups
        after[n \in 0..Len(order)] ==
            IF n = 0 THEN [state EXCEPT !.groups = sel.groups]
            ELSE InviteGroupToBG(after[n - 1], order[n], b)
    IN  after[Len(order)]

WithoutFreeSlots(state, b) ==
    [state EXCEPT !.bgs = [state.bgs EXCEPT ![b].m_InBGFreeSlotQueue = FALSE],
                  !.freeSlotQueue = EraseFirst(@, b)]

FillPlayersToBG(state, b) ==
    LET bg == state.bgs[b]
        free == [t \in Teams |-> GetFreeSlotsForTeam(bg, t)]
        filled == InvitePools(state, FillXPlayersToBG(state.groups, free, FALSE, {}), b)
    IN  IF bg.status = "WAIT_LEAVE" THEN state
        ELSE IF HasFreeSlots(bg) THEN filled ELSE WithoutFreeSlots(filled, b)

\* The groups for a new battleground, if there are enough.
NewMatch(state, oAlliance) ==
    FillXPlayersToBG(state.groups, [t \in Teams |-> MaxPlayersPerTeam], TRUE, oAlliance)

StartNewBattleground(state, sel, b) ==
    InvitePools([state EXCEPT !.bgs = [state.bgs EXCEPT ![b] = NewBattleground],
                              !.freeSlotQueue = <<b>> \o @], sel, b)

\* The battlegrounds that want players get them first. A queue with nobody in
\* it is left alone.
FillAll(state) ==
    LET filled[n \in 0..Len(state.freeSlotQueue)] ==
            IF n = 0 THEN state ELSE FillPlayersToBG(filled[n - 1], state.freeSlotQueue[n])
    IN  IF state.groups = <<>> THEN state ELSE filled[Len(state.freeSlotQueue)]

\* An update that is to start a battleground waits while all ids are taken: a
\* bound of the model.
BattlegroundQueueUpdate ==
    /\ scheduled /\ scheduled' = FALSE
    /\ \E filled \in {FillAll([groups |-> queuedGroups, bgs |-> bgs, events |-> events,
                               freeSlotQueue |-> freeSlotQueue, queueSlot |-> queueSlot])} :
       \E oAlliance \in SUBSET Uninvited(filled.groups) :
       \E sel \in {NewMatch(filled, oAlliance)} :
       \E b \in BgIds \cup {0} :
          /\ IF CheckCrossFactionMatch(sel) THEN b \in BgIds /\ bgs[b] = NULL ELSE b = 0
          /\ \E updated \in {IF b = 0 THEN [filled EXCEPT !.groups = sel.groups]
                             ELSE StartNewBattleground(filled, sel, b)} :
                /\ queuedGroups' = updated.groups /\ bgs' = updated.bgs
                /\ freeSlotQueue' = updated.freeSlotQueue
                /\ queueSlot' = updated.queueSlot /\ events' = updated.events
    /\ UNCHANGED <<online, travelling, bgInstanceID, bgTeam>>

\* BGQueueRemoveEvent::Execute, for the event that is due next.
ExecuteRemoveEvent ==
    /\ events # <<>>
    /\ events' = Tail(events)
    /\ LET e == Head(events)
           joined == bgs[e.bg] # NULL /\ bgInstanceID[e.player] = e.bg
       IN  IF /\ e.player \in online /\ ~joined /\ queueSlot[e.player] # NULL
              /\ IsPlayerInvited(e.player, e.bg, e.removeTime)
           THEN /\ queueSlot' = [queueSlot EXCEPT ![e.player] = NULL]
                /\ RemovePlayer(e.player, bgs, TRUE)
                /\ scheduled' = (scheduled \/ (bgs[e.bg] # NULL /\ bgs[e.bg].status # "WAIT_LEAVE"))
           ELSE UNCHANGED <<queueSlot, queuedGroups, bgs, scheduled>>
    /\ UNCHANGED <<freeSlotQueue, online, travelling, bgInstanceID, bgTeam>>

=============================================================================
