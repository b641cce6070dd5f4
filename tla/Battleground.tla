---------------------------- MODULE Battleground ----------------------------
(***************************************************************************)
(* The battlegrounds of one type and bracket (class Battleground): who is  *)
(* inside, how many have been invited for each side, which of them want    *)
(* more players, and what happens when a player arrives, leaves, loses its *)
(* connection or comes back.                                               *)
(***************************************************************************)
EXTENDS Integers, Sequences, FiniteSets, Functions

CONSTANTS
    Players,
    BgIds,              \* ids for battlegrounds; the bound on how many there are at once
    MinPlayersPerTeam,
    MaxPlayersPerTeam,
    CounterSize,        \* the counters of invited players are numbers below it
    NULL

Teams == {"ALLIANCE", "HORDE"}

\* What a battleground is: m_Players has the side of each player inside.
Battlegrounds ==
    [status : {"WAIT_JOIN", "IN_PROGRESS", "WAIT_LEAVE"}, invited : [Teams -> Nat],
     m_Players : UNION {[inside -> Teams] : inside \in SUBSET Players},
     m_OfflineQueue : Seq(Players), m_InBGFreeSlotQueue : BOOLEAN]

ASSUME BattlegroundAssumption ==
    /\ BgIds \subseteq Nat \ {0} /\ IsFiniteSet(BgIds) /\ IsFiniteSet(Players)
    /\ MinPlayersPerTeam \in Nat \ {0} /\ MaxPlayersPerTeam \in Nat
    /\ MinPlayersPerTeam <= MaxPlayersPerTeam
    /\ CounterSize \in Nat /\ CounterSize > 2 * Cardinality(Players)
    /\ NULL \notin Players \cup BgIds \cup {0} \cup Battlegrounds

VARIABLES
    bgs,                \* m_Battlegrounds: the battlegrounds, NULL where there is none
    freeSlotQueue,      \* BGFreeSlotQueue
    scheduled,          \* m_QueueUpdateScheduler names the queue of these battlegrounds
    online,             \* the players in the world
    travelling,         \* those of them on the way into their battleground
    bgInstanceID,       \* m_bgData of the players, in memory or in the database
    bgTeam,             \* the side in the battleground bgInstanceID names, else NULL
    queueSlot           \* m_bgBattlegroundQueueID: NULL, or the invitation (0 for none)

bgVars == <<bgs, freeSlotQueue>>
playerVars == <<online, travelling, bgInstanceID, bgTeam, queueSlot>>

Other(team) == IF team = "ALLIANCE" THEN "HORDE" ELSE "ALLIANCE"

NewBattleground ==
    [status |-> "WAIT_JOIN", invited |-> [t \in Teams |-> 0], m_Players |-> [p \in {} |-> NULL],
     m_OfflineQueue |-> <<>>, m_InBGFreeSlotQueue |-> TRUE]

\* A list or deque without its i-th element, and without the first x.
EraseAt(queue, i) == [k \in 1 .. Len(queue) - 1 |-> IF k < i THEN queue[k] ELSE queue[k + 1]]

EraseFirst(queue, x) ==
    LET at == {k \in DOMAIN queue : queue[k] = x}
    IN  IF at = {} THEN queue ELSE EraseAt(queue, CHOOSE k \in at : \A l \in at : k <= l)

Inside(b) == IF bgs[b] = NULL THEN {} ELSE DOMAIN bgs[b].m_Players

PlayersCountByTeam(bg, team) ==
    Cardinality({p \in DOMAIN bg.m_Players : bg.m_Players[p] = team})

HasFreeSlots(bg) == Cardinality(DOMAIN bg.m_Players) < 2 * MaxPlayersPerTeam

Smaller(m, n) == IF m <= n THEN m ELSE n

\* How much smaller one side is than the other; sides that are equal may take one more.
Behind(own, other) == IF own = other THEN 1 ELSE IF own < other THEN other - own ELSE 0

GetFreeSlotsForTeam(bg, team) ==
    LET invited == bg.invited[team]
        room == IF invited < MaxPlayersPerTeam THEN MaxPlayersPerTeam - invited ELSE 0
        inside == PlayersCountByTeam(bg, team)
        otherInside == PlayersCountByTeam(bg, Other(team))
        balance == IF otherInside < inside /\ invited <= MinPlayersPerTeam
                   THEN MinPlayersPerTeam - invited + 1
                   ELSE Behind(inside, otherInside)
    IN  CASE bg.status = "WAIT_JOIN" -> room
          [] bg.status = "IN_PROGRESS" ->
                 Smaller(Behind(invited, bg.invited[Other(team)]), Smaller(room, balance))
          [] OTHER -> 0

IncreaseInvitedCount(bg, team, n) ==
    [bg EXCEPT !.invited[team] = (@ + n) % CounterSize]

DecreaseInvitedCount(bg, team, n) ==
    [bg EXCEPT !.invited[team] = (@ + CounterSize - n) % CounterSize]

-----------------------------------------------------------------------------
(* Arriving and leaving *)

AddPlayer(bg, p) ==
    [bg EXCEPT !.m_Players = [q \in DOMAIN @ \cup {p} |-> IF q = p THEN bgTeam[p] ELSE @[q]]]

\* The battlegrounds once p has got through its loading screen: a player who
\* is invited to the battleground it comes to is one of its players.
HandleMoveWorldportAck(p) ==
    LET b == bgInstanceID[p]
    IN  IF p \in travelling /\ bgs[b] # NULL /\ queueSlot[p] = b
        THEN [bgs EXCEPT ![b] = AddPlayer(@, p)]
        ELSE bgs

\* Players `leaving` leave battleground b; those in the world forget it.
RemovePlayerAtLeave(b, leaving, popped) ==
    LET bg == bgs[b]
        participants == leaving \cap DOMAIN bg.m_Players
        count(team) == Cardinality({p \in participants : bg.m_Players[p] = team})
        reopened == participants # {} /\ bg.status # "WAIT_LEAVE"
        left == [status |-> bg.status,
                 invited |-> [t \in Teams |-> (bg.invited[t] + CounterSize - count(t)) % CounterSize],
                 m_Players |-> Restrict(bg.m_Players, DOMAIN bg.m_Players \ leaving),
                 m_OfflineQueue |-> IF popped THEN Tail(bg.m_OfflineQueue) ELSE bg.m_OfflineQueue,
                 m_InBGFreeSlotQueue |-> bg.m_InBGFreeSlotQueue \/ reopened]
        forget == leaving \cap online
    IN  /\ bgs' = [bgs EXCEPT ![b] = left]
        /\ freeSlotQueue' = IF reopened /\ ~bg.m_InBGFreeSlotQueue
                            THEN <<b>> \o freeSlotQueue ELSE freeSlotQueue
        /\ scheduled' = (scheduled \/ reopened)
        /\ queueSlot' = [p \in Players |->
                            IF p \in participants \cap online THEN NULL ELSE queueSlot[p]]
        /\ bgInstanceID' = [p \in Players |-> IF p \in forget THEN 0 ELSE bgInstanceID[p]]
        /\ bgTeam' = [p \in Players |-> IF p \in forget THEN NULL ELSE bgTeam[p]]

=============================================================================
