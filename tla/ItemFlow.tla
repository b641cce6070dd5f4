------------------------------ MODULE ItemFlow ------------------------------
(***************************************************************************)
(* The ways in which items change hands, together: the trades of Trade and *)
(* the loot rolls of LootRoll act on the same bags, are cut short by the   *)
(* same logouts and crashes, and are saved by the same transactions.       *)
(***************************************************************************)
EXTENDS Trade, LootRoll

CONSTANTS
    Owned,          \* what everybody has at first
    StartMoney,
    Scenes          \* who stands close to whom, and who is in the group: <<pairs, group>>

\* At first nobody shares an item with another one or with the corpse, and the
\* items of the loot can be counted in an uint8.
ASSUME ItemFlowAssumption ==
    /\ IsFiniteSet(Players) /\ IsFiniteSet(Items) /\ LootItems \subseteq Items
    /\ BagSize \in Nat /\ Cardinality(LootItems) <= 255
    /\ Owned \in [Players -> SUBSET (Items \ LootItems)]
    /\ \A p, q \in Players : p # q => Owned[p] \cap Owned[q] = {}
    /\ StartMoney \in [Players -> 0..MaxMoney]

allVars == <<inventory, tradeVars, lootVars>>

\* WorldSession::LogoutPlayer, with what it does for the group.
Logout(p) == LogoutPlayer(p) /\ LogoutFromGroup(p)

Restart == Crash /\ LoseCorpse

Init ==
    /\ InventoryInit(Owned, StartMoney)
    /\ \E scene \in Scenes : TradeInit(scene[1]) /\ LootInit(scene[2])

Next ==
    \/ TradeStep /\ UNCHANGED lootVars
    \/ LootNext /\ UNCHANGED tradeVars
    \/ \E p \in Players : Logout(p)
    \/ Restart

Spec == Init /\ [][Next]_allVars /\ WF_allVars(EndRoll /\ UNCHANGED tradeVars)

-----------------------------------------------------------------------------
(* Properties *)

TypeOK ==
    /\ InventoryTypeOK
    /\ m_trade \in [Players -> TradeData \cup {NULL}]
    /\ soulbound \subseteq Items
    /\ is_looted \subseteq LootItems /\ is_blocked \subseteq LootItems
    /\ unlootedCount \in 0..255 /\ m_groupLootTimer \in BOOLEAN

AcceptStands == [][AcceptStandsStep]_allVars

TradeIsExact == [][TradeIsExactStep]_allVars

\* The bags and the rows of a player in the world differ only in items whose
\* rows are still to be written, and nothing is to be written for others:
\* what Player::SaveInventoryAndGoldToDB relies on after trades, rolls,
\* logouts and restarts.
DiskFollows ==
    \A p \in Players :
        IF p \in online
        THEN (bag[p] \ dbBag[p]) \cup (dbBag[p] \ bag[p]) \subseteq m_itemUpdateQueue[p]
        ELSE m_itemUpdateQueue[p] = {}

\* No item has two owners, in the bags of the players in the world and the
\* rows of the others taken together, and none is both owned and in the corpse.
OneOwner ==
    LET owned == [p \in Players |-> IF p \in online THEN bag[p] ELSE dbBag[p]]
    IN  /\ \A p, q \in Players : p # q =>
              owned[p] \cap owned[q] = {} /\ dbBag[p] \cap dbBag[q] = {}
        /\ corpse = "open" =>
              \A p \in Players : owned[p] \cap (LootItems \ is_looted) = {}

=============================================================================
