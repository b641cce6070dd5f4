----------------------------- MODULE Inventory ------------------------------
(***************************************************************************)
(* What the players own: the items in their bags and their money, in the   *)
(* memory of the world server and in the character database. A bag is a    *)
(* set of items with a limited number of places; equipment and bank slots, *)
(* stacks and bags inside bags are not told apart.                         *)
(*                                                                         *)
(* The rows of the database are the ones of all transactions committed so  *)
(* far. One worker executes them in the order in which they were           *)
(* committed, so a crash leaves the rows of some earlier moment; Crash can *)
(* happen at each such moment.                                             *)
(***************************************************************************)
EXTENDS Integers, FiniteSets

CONSTANTS
    Players,
    Items,
    BagSize,        \* places in a bag
    MaxMoney,       \* MAX_MONEY_AMOUNT
    NULL

ASSUME MoneyAssumption == MaxMoney \in Nat

VARIABLES
    online,             \* players in the world
    bag,                \* the items a player in the world holds
    money,
    m_itemUpdateQueue,  \* the items whose rows differ from memory
    dbBag,              \* the rows of character_inventory, by owner
    dbMoney             \* characters.money

rows == <<dbBag, dbMoney>>
inventory == <<online, bag, money, m_itemUpdateQueue, rows>>

InventoryTypeOK ==
    /\ online \subseteq Players
    /\ bag \in [Players -> SUBSET Items]
    /\ money \in [Players -> 0..MaxMoney]
    /\ m_itemUpdateQueue \in [Players -> SUBSET Items]
    /\ dbBag \in [Players -> SUBSET Items]
    /\ dbMoney \in [Players -> 0..MaxMoney]

\* Everybody is in the world, as the rows say.
InventoryInit(owned, gold) ==
    /\ online = Players
    /\ bag = owned /\ dbBag = owned
    /\ money = gold /\ dbMoney = gold
    /\ m_itemUpdateQueue = [p \in Players |-> {}]

\* Player::CanStoreItems: the places of the items that are in a trade count as free.
CanStoreItems(p, new, inTrade) == Cardinality((bag[p] \ inTrade) \cup new) <= BagSize

\* Player::ModifyMoney
ModifyMoney(m, d) ==
    IF d < 0 THEN IF m > -d THEN m + d ELSE 0
    ELSE IF m < MaxMoney - d THEN m + d ELSE MaxMoney

\* Defect: INSERT instead of REPLACE leaves the row of the former owner.
SaveInventoryAndGoldToDB_insert(saved, b, m, q) ==
    /\ dbBag' = [p \in Players |->
                    IF p \in saved THEN (dbBag[p] \ q[p]) \cup (q[p] \cap b[p]) ELSE dbBag[p]]
    /\ dbMoney' = [p \in Players |-> IF p \in saved THEN m[p] ELSE dbMoney[p]]
    /\ m_itemUpdateQueue' = [p \in Players |-> IF p \in saved THEN {} ELSE q[p]]

\* Player::SaveInventoryAndGoldToDB for some players in one transaction, with
\* bags b, money m and update queues q: the row of a queued item is replaced,
\* or deleted when its player no longer has the item.
SaveInventoryAndGoldToDB(saved, b, m, q) ==
    /\ dbBag' = [p \in Players |->
                    (dbBag[p] \ UNION {q[r] : r \in saved})
                        \cup (IF p \in saved THEN q[p] \cap b[p] ELSE {})]
    /\ dbMoney' = [p \in Players |-> IF p \in saved THEN m[p] ELSE dbMoney[p]]
    /\ m_itemUpdateQueue' = [p \in Players |-> IF p \in saved THEN {} ELSE q[p]]

\* Player::SaveToDB, by the autosave timer or a command.
SaveToDB(p) ==
    /\ p \in online
    /\ SaveInventoryAndGoldToDB({p}, bag, money, m_itemUpdateQueue)
    /\ UNCHANGED <<online, bag, money>>

\* Player::DestroyItem: a row that was never written needs no deleting.
DestroyItem(p, i) ==
    /\ p \in online /\ i \in bag[p]
    /\ bag' = [bag EXCEPT ![p] = @ \ {i}]
    /\ m_itemUpdateQueue' =
         [m_itemUpdateQueue EXCEPT ![p] = IF i \in dbBag[p] THEN @ \cup {i} ELSE @ \ {i}]
    /\ UNCHANGED <<online, money, rows>>

\* Player::LoadFromDB
LoadFromDB(p) ==
    /\ p \notin online /\ online' = online \cup {p}
    /\ bag' = [bag EXCEPT ![p] = dbBag[p]]
    /\ money' = [money EXCEPT ![p] = dbMoney[p]]
    /\ UNCHANGED <<m_itemUpdateQueue, rows>>

\* What WorldSession::LogoutPlayer does here: save, and delete the player.
SaveAndLeave(p) ==
    /\ p \in online /\ online' = online \ {p}
    /\ SaveInventoryAndGoldToDB({p}, bag, money, m_itemUpdateQueue)
    /\ bag' = [bag EXCEPT ![p] = {}]
    /\ money' = [money EXCEPT ![p] = 0]

\* The process dies and only the rows are left.
LoseMemory ==
    /\ online' = {}
    /\ bag' = [p \in Players |-> {}]
    /\ money' = [p \in Players |-> 0]
    /\ m_itemUpdateQueue' = [p \in Players |-> {}]
    /\ UNCHANGED rows

=============================================================================
