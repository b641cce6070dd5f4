------------------------------ MODULE LootRoll ------------------------------
(***************************************************************************)
(* One corpse looted by a group under GROUP_LOOT or NEED_BEFORE_GREED: the *)
(* Loot of the creature, the rolls the group keeps for its items and the   *)
(* timer that ends them. Handlers run one at a time on the world thread,   *)
(* but between the start of a roll and its end players vote, leave the     *)
(* group, log out and fill their bags in any order.                        *)
(*                                                                         *)
(* All items of the loot are above the threshold and for one player. The   *)
(* dice are left out: any player with the winning kind of vote may win.    *)
(***************************************************************************)
EXTENDS Inventory, Functions

CONSTANTS
    LootItems       \* the items of the corpse, by the guid a winner gets them under

VARIABLES
    members,        \* the group, empty once it is disbanded
    corpse,         \* "unopened", "open", "emptied" or "removed"
    is_looted,
    is_blocked,
    unlootedCount,
    RollId,         \* the roll for an item, or NULL
    m_groupLootTimer

lootVars == <<members, corpse, is_looted, is_blocked, unlootedCount, RollId, m_groupLootTimer>>

Votes == {"PASS", "NEED", "GREED", "DISENCHANT"}
NOT_EMITED_YET == "NOT_EMITED_YET"

\* A group has killed the creature, or there is none.
LootInit(group) ==
    /\ members = group
    /\ corpse = IF group = {} THEN "removed" ELSE "unopened"
    /\ is_looted = {} /\ is_blocked = {} /\ unlootedCount = Cardinality(LootItems)
    /\ RollId = [i \in LootItems |-> NULL]
    /\ m_groupLootTimer = FALSE

\* Group::GroupLoot and NeedBeforeGreed when the corpse is opened first: the
\* members close enough may vote, and some pass on everything.
GroupLoot(near, passing) ==
    /\ corpse = "unopened" /\ corpse' = "open"
    /\ near \subseteq members \cap online /\ near # {} /\ passing \subseteq near
    /\ RollId' = [i \in LootItems |->
                    [playerVote |-> [p \in near |-> IF p \in passing THEN "PASS" ELSE NOT_EMITED_YET],
                     totalPlayersRolling |-> Cardinality(near),
                     totalNeed |-> 0, totalGreed |-> 0, totalPass |-> Cardinality(passing)]]
    /\ is_blocked' = LootItems
    /\ m_groupLootTimer' = TRUE
    /\ UNCHANGED <<inventory, members, is_looted, unlootedCount>>

-----------------------------------------------------------------------------
(* The end of a roll. Several rolls end in one call of EndRoll, so these    *)
(* operators take what the roll changes as a record and return the new one. *)

Now == [bag |-> bag, queue |-> m_itemUpdateQueue, looted |-> is_looted, blocked |-> is_blocked,
        unlooted |-> unlootedCount, rolls |-> RollId]

Becomes(now) ==
    /\ bag' = now.bag /\ m_itemUpdateQueue' = now.queue
    /\ is_looted' = now.looted /\ is_blocked' = now.blocked
    /\ unlootedCount' = now.unlooted /\ RollId' = now.rolls

Voters(roll, kinds) == {p \in DOMAIN roll.playerVote : roll.playerVote[p] \in kinds}

\* Who may come out of the loop over the votes as maxguid: without a vote of
\* these kinds the first player of the map, and which one that is is left open.
MaxGuid(roll) ==
    LET kinds == IF roll.totalNeed > 0 THEN {"NEED"} ELSE {"GREED", "DISENCHANT"}
    IN  IF Voters(roll, kinds) # {} THEN Voters(roll, kinds) ELSE DOMAIN roll.playerVote

RemoveItem(now, i) ==
    [now EXCEPT !.looted = @ \cup {i}, !.unlooted = (@ - 1) % 256]

StoreNewItem(now, i, p) ==
    [RemoveItem(now, i) EXCEPT !.bag[p] = @ \cup {i}, !.queue[p] = @ \cup {i}]

\* Player::CanStoreNewItem
CanStoreNewItem(now, i, p) == Cardinality(now.bag[p] \cup {i}) <= BagSize

\* The item goes to the winner, or is free for all if there is no room for it.
Award(now, i, winner) ==
    IF CanStoreNewItem(now, i, winner) THEN StoreNewItem(now, i, winner)
    ELSE [now EXCEPT !.blocked = @ \ {i}]

\* Group::CountTheRoll. A winner who is not in the world gets nothing, and the
\* item stays blocked.
CountTheRoll(now, i, roll, winner) ==
    LET ended == [now EXCEPT !.rolls[i] = NULL]
    IN  CASE roll.totalNeed + roll.totalGreed = 0 -> [ended EXCEPT !.blocked = @ \ {i}]
          [] roll.totalNeed + roll.totalGreed > 0 /\ winner \notin online -> ended
          [] roll.totalNeed > 0 /\ winner \in online -> Award(ended, i, winner)
          [] OTHER -> CASE roll.playerVote[winner] = "GREED" -> Award(ended, i, winner)
                        [] roll.playerVote[winner] = "DISENCHANT" -> RemoveItem(ended, i)
                        [] OTHER -> ended

\* Group::CountRollVote, for a player who may vote in the roll. A second vote
\* replaces the first one but is added to the totals once more.
CountRollVote(p, i, choice) ==
    LET new == [RollId[i] EXCEPT
                  !.playerVote[p] = choice,
                  !.totalNeed = IF choice = "NEED" THEN @ + 1 ELSE @,
                  !.totalGreed = IF choice \in {"GREED", "DISENCHANT"} THEN @ + 1 ELSE @,
                  !.totalPass = IF choice = "PASS" THEN @ + 1 ELSE @]
    IN  IF new.totalPass + new.totalNeed + new.totalGreed >= new.totalPlayersRolling
        THEN \E winner \in MaxGuid(new) : Becomes(CountTheRoll(Now, i, new, winner))
        ELSE Becomes([Now EXCEPT !.rolls[i] = new])

-----------------------------------------------------------------------------
(* The handlers *)

HandleLootRoll(p, i, choice) ==
    /\ p \in online \cap members /\ corpse = "open"
    /\ RollId[i] # NULL /\ p \in DOMAIN RollId[i].playerVote
    /\ CountRollVote(p, i, choice)
    /\ UNCHANGED <<online, money, rows, members, corpse, m_groupLootTimer>>

\* The roll of one item ends, if there is one.
EndedRoll(now, i, winner) ==
    IF RollId[i] = NULL THEN now ELSE CountTheRoll(now, i, RollId[i], winner)

\* The items of the loot as its vector has them, in some order.
LootOrder == CHOOSE order \in Bijection(1..Cardinality(LootItems), LootItems) : TRUE

\* The rolls of the loot end one after the other, in the order of its items.
EndedRolls(winner) ==
    LET ended[n \in 0..Cardinality(LootItems)] ==
            IF n = 0 THEN Now
            ELSE EndedRoll(ended[n - 1], LootOrder[n], winner[LootOrder[n]])
    IN  ended[Cardinality(LootItems)]

\* Creature::Update of the corpse when the timer runs out, with Group::EndRoll.
\* A roll that nobody is left to win has no winner.
EndRoll ==
    /\ corpse # "removed" /\ m_groupLootTimer /\ m_groupLootTimer' = FALSE
    /\ \E winner \in [LootItems -> Players \cup {NULL}] :
         /\ \A i \in LootItems :
               IF RollId[i] = NULL \/ DOMAIN RollId[i].playerVote = {} THEN winner[i] = NULL
               ELSE winner[i] \in MaxGuid(RollId[i])
         /\ Becomes(IF corpse = "open" THEN EndedRolls(winner) ELSE Now)
    /\ UNCHANGED <<online, money, rows, members, corpse>>

\* Defect: the corpse goes while the rolls are open.
RemoveCorpse_early ==
    /\ corpse # "removed"
    /\ corpse' = "removed"
    /\ UNCHANGED <<inventory, members, is_looted, is_blocked, unlootedCount, RollId, m_groupLootTimer>>

\* Creature::RemoveCorpse, when the timer does not run: the loot is cleared.
RemoveCorpse ==
    /\ corpse # "removed" /\ ~m_groupLootTimer
    /\ corpse' = "removed"
    /\ UNCHANGED <<inventory, members, is_looted, is_blocked, unlootedCount, RollId, m_groupLootTimer>>

\* WorldSession::DoLootRelease of a corpse with nothing left in it.
DoLootRelease ==
    /\ corpse = "open" /\ unlootedCount = 0
    /\ corpse' = "emptied"
    /\ UNCHANGED <<inventory, members, is_looted, is_blocked, unlootedCount, RollId, m_groupLootTimer>>

\* WorldSession::HandleAutostoreLootItem and Player::StoreLootItem
StoreLootItem(p, i) ==
    /\ p \in online /\ corpse = "open"
    /\ i \notin is_looted \cup is_blocked
    /\ CanStoreNewItem(Now, i, p)
    /\ Becomes(StoreNewItem(Now, i, p))
    /\ UNCHANGED <<online, money, rows, members, corpse, m_groupLootTimer>>

\* Defect: the number of players who may vote stays.
WithoutVote_counted(roll, p) ==
    IF roll = NULL \/ p \notin DOMAIN roll.playerVote THEN roll
    ELSE [roll EXCEPT !.playerVote = [q \in DOMAIN roll.playerVote \ {p} |-> roll.playerVote[q]]]

\* The roll without the vote of a player who leaves. CountRollVote, called
\* next, finds no vote by the player and returns: the roll is never counted here.
WithoutVote(roll, p) ==
    IF roll = NULL \/ p \notin DOMAIN roll.playerVote THEN roll
    ELSE [playerVote |-> [q \in DOMAIN roll.playerVote \ {p} |-> roll.playerVote[q]],
          totalPlayersRolling |-> roll.totalPlayersRolling - 1,
          totalNeed |-> IF roll.playerVote[p] = "NEED" THEN roll.totalNeed - 1 ELSE roll.totalNeed,
          totalGreed |-> IF roll.playerVote[p] \in {"GREED", "DISENCHANT"}
                         THEN roll.totalGreed - 1 ELSE roll.totalGreed,
          totalPass |-> IF roll.playerVote[p] = "PASS" THEN roll.totalPass - 1 ELSE roll.totalPass]

\* Group::RemoveMember, and Group::Disband when too few are left: the rolls are
\* dropped and the items stay blocked.
RemoveMember(p) ==
    LET left == members \ {p}
    IN  IF Cardinality(members) > 2 /\ Cardinality(left \cap online) >= 2
        THEN /\ members' = left
             /\ RollId' = [i \in LootItems |-> WithoutVote(RollId[i], p)]
        ELSE /\ members' = {}
             /\ RollId' = [i \in LootItems |-> NULL]

Leave(p) ==
    /\ p \in members /\ RemoveMember(p)
    /\ UNCHANGED <<inventory, corpse, is_looted, is_blocked, unlootedCount, m_groupLootTimer>>

\* The part of WorldSession::LogoutPlayer for the group: a player with a live
\* connection leaves a group that is no raid, any other stays a member.
LogoutFromGroup(p) ==
    /\ \/ p \in members /\ RemoveMember(p)
       \/ UNCHANGED <<members, RollId>>
    /\ UNCHANGED <<corpse, is_looted, is_blocked, unlootedCount, m_groupLootTimer>>

\* The corpse and the rolls are in memory only.
LoseCorpse ==
    /\ corpse' = "removed"
    /\ RollId' = [i \in LootItems |-> NULL]
    /\ m_groupLootTimer' = FALSE
    /\ UNCHANGED <<members, is_looted, is_blocked, unlootedCount>>

LootNext ==
    \/ \E near, passing \in SUBSET Players : GroupLoot(near, passing)
    \/ \E p \in Players, i \in LootItems :
          \/ \E choice \in Votes : HandleLootRoll(p, i, choice)
          \/ StoreLootItem(p, i)
    \/ \E p \in Players : Leave(p)
    \/ EndRoll \/ RemoveCorpse \/ DoLootRelease

-----------------------------------------------------------------------------
(* Properties *)

\* An open roll is for an item that is still in the corpse and that nobody can
\* take meanwhile, and its totals cover the votes, whoever voted twice or left:
\* so Group::RemoveMember never takes an uint8 total below zero.
RollIsSound ==
    \A i \in LootItems : RollId[i] # NULL =>
        LET roll == RollId[i]
        IN  /\ i \in is_blocked \ is_looted
            /\ roll.totalPlayersRolling = Cardinality(DOMAIN roll.playerVote)
            /\ roll.totalNeed >= Cardinality(Voters(roll, {"NEED"}))
            /\ roll.totalGreed >= Cardinality(Voters(roll, {"GREED", "DISENCHANT"}))
            /\ roll.totalPass >= Cardinality(Voters(roll, {"PASS"}))

\* Every roll ends, also if nobody votes, because the corpse keeps its timer.
RollEnds == \A i \in LootItems : [](RollId[i] # NULL => <>(RollId[i] = NULL))

=============================================================================
