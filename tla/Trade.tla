------------------------------- MODULE Trade --------------------------------
(***************************************************************************)
(* Trades between players: the TradeData object of each side and the       *)
(* handlers of TradeHandler.cpp. The handlers of a session run one at a    *)
(* time on the world thread, so each is one step; what makes them hard is  *)
(* that the two sides take turns in any order, and that what a side        *)
(* offered can change or go away before the other side accepts.            *)
(*                                                                         *)
(* A trade table holds item guids, which are looked up in the bag of the   *)
(* owner at every use (TradeData::GetItem). The constructor of TradeData   *)
(* does not initialise the table: a new object shows what the memory held, *)
(* either no guid of an item or the table of a TradeData deleted before.   *)
(***************************************************************************)
EXTENDS Inventory

CONSTANTS
    TradedCount,    \* TRADE_SLOT_TRADED_COUNT
    Gold,           \* the sums of money a player may offer
    BindOnEquip,    \* the items that become soulbound when worn
    BindedNotWith   \* pairs of an item and a player who may not get it (Item::IsBindedNotWith)

TradedSlots == 1..TradedCount
NonTraded == TradedCount + 1        \* TRADE_SLOT_NONTRADED
TradeSlots == 1..NonTraded

VARIABLES
    nearby,         \* the pairs of players close enough to trade; nobody walks
    m_trade,        \* the TradeData of a player, or NULL
    freed,          \* the tables left in memory by the trade closed last
    soulbound

tradeVars == <<nearby, m_trade, freed, soulbound>>

Tables == [TradeSlots -> Items \cup {NULL}]
NoItems == [s \in TradeSlots |-> NULL]
TradeData ==
    [trader : Players, accepted : BOOLEAN, money : Gold \cup {0}, spell : BOOLEAN, items : Tables]

ASSUME TradeAssumption ==
    /\ TradedCount \in Nat /\ Gold \subseteq Nat
    /\ NULL \notin Players \cup Items \cup TradeData

TradeInit(pairs) ==
    /\ nearby = pairs
    /\ m_trade = [p \in Players |-> NULL]
    /\ freed = {}
    /\ soulbound = {}

IsTrading(p) == p \in online /\ m_trade[p] # NULL
Trader(p) == m_trade[p].trader

\* TradeData::GetItem for the slots that change hands: the items still in the bag.
Offered(p) == {m_trade[p].items[s] : s \in TradedSlots} \cap bag[p]

HasNonTraded(p) == m_trade[p].items[NonTraded] \in bag[p]

-----------------------------------------------------------------------------
(* The TradeData object *)

\* TradeData::TradeData(p, q)
NewTradeData(q, table) ==
    [trader |-> q, accepted |-> FALSE, money |-> 0, spell |-> FALSE, items |-> table]

\* Defect: the partner's acceptance stays when the offer changes.
ChangeOffer_own(p, data) == m_trade' = [m_trade EXCEPT ![p] = [data EXCEPT !.accepted = FALSE]]

\* The object of p becomes data and neither side has accepted any more.
ChangeOffer(p, data) ==
    m_trade' = [m_trade EXCEPT ![p] = [data EXCEPT !.accepted = FALSE],
                               ![Trader(p)].accepted = FALSE]

\* TradeData::SetMoney
SetMoney(p, gold) ==
    /\ m_trade[p].money # gold
    /\ ChangeOffer(p, [m_trade[p] EXCEPT !.money = gold])

\* TradeData::SetSpell. The spell is not cast by an item: Spell::CheckCast refuses that.
SetSpell(p, spell) ==
    /\ m_trade[p].spell # spell
    /\ ChangeOffer(p, [m_trade[p] EXCEPT !.spell = spell])

\* TradeData::SetItem, which also drops the spells that depended on the item.
WithItem(data, slot, item) ==
    [data EXCEPT !.items = [@ EXCEPT ![slot] = item], !.accepted = FALSE, !.spell = FALSE]

WithoutSpell(data, dropped) ==
    [data EXCEPT !.accepted = FALSE, !.spell = IF dropped THEN FALSE ELSE @]

SetItem(p, slot, item) ==
    /\ m_trade[p].items[slot] # item
    /\ m_trade' = [m_trade EXCEPT ![p] = WithItem(@, slot, item),
                                  ![Trader(p)] = WithoutSpell(@, slot = NonTraded)]

\* Defect: only the object of the player who ends the trade is deleted.
DeleteTrade_own(p) ==
    /\ m_trade' = [m_trade EXCEPT ![p] = NULL]
    /\ freed' = {m_trade[p].items}

\* Both objects are deleted.
DeleteTrade(p) ==
    /\ m_trade' = [m_trade EXCEPT ![p] = NULL, ![Trader(p)] = NULL]
    /\ freed' = {m_trade[p].items, m_trade[Trader(p)].items}

\* Player::TradeCancel
TradeCancel(p) ==
    IF m_trade[p] # NULL THEN DeleteTrade(p) ELSE UNCHANGED <<m_trade, freed>>

-----------------------------------------------------------------------------
(* The handlers *)

\* HandleInitiateTradeOpcode. Faction, level, life and the ignore list only add
\* refusals.
HandleInitiateTrade(p, q) ==
    /\ p \in online /\ m_trade[p] = NULL
    /\ q \in online /\ q # p /\ m_trade[q] = NULL
    /\ {p, q} \in nearby
    /\ \E mine, theirs \in freed \cup {NoItems} :
          m_trade' = [m_trade EXCEPT ![p] = NewTradeData(q, mine), ![q] = NewTradeData(p, theirs)]
    /\ freed' = {}
    /\ UNCHANGED <<inventory, nearby, soulbound>>

HandleSetTradeGold(p, gold) ==
    /\ IsTrading(p) /\ SetMoney(p, gold)
    /\ UNCHANGED <<inventory, nearby, freed, soulbound>>

HandleSetTradeItem(p, slot, item) ==
    /\ IsTrading(p) /\ item \in bag[p]
    /\ slot = NonTraded \/ item \notin soulbound
    /\ \A s \in TradeSlots : m_trade[p].items[s] # item
    /\ SetItem(p, slot, item)
    /\ UNCHANGED <<inventory, nearby, freed, soulbound>>

HandleClearTradeItem(p, slot) ==
    /\ IsTrading(p) /\ SetItem(p, slot, NULL)
    /\ UNCHANGED <<inventory, nearby, freed, soulbound>>

\* Spell::cast of a spell aimed at the trader's item that is not traded.
CastOnTradeItem(p) ==
    /\ IsTrading(p) /\ HasNonTraded(Trader(p))
    /\ SetSpell(p, TRUE)
    /\ UNCHANGED <<inventory, nearby, freed, soulbound>>

HandleUnacceptTrade(p) ==
    /\ IsTrading(p) /\ m_trade[p].accepted
    /\ m_trade' = [m_trade EXCEPT ![p].accepted = FALSE]
    /\ UNCHANGED <<inventory, nearby, freed, soulbound>>

HandleCancelTrade(p) ==
    /\ IsTrading(p) /\ TradeCancel(p)
    /\ UNCHANGED <<inventory, nearby, soulbound>>

-----------------------------------------------------------------------------
(* HandleAcceptTradeOpcode, one action for each way it ends *)

HasEnoughMoney(p) == money[p] >= m_trade[p].money

\* The checks of the items on both sides.
ItemsAreEligible(p) ==
    /\ Offered(p) \cap soulbound = {} /\ Offered(Trader(p)) \cap soulbound = {}
    /\ \A i \in Offered(p) : <<i, Trader(p)>> \notin BindedNotWith

\* The caller has money for what they offer, and so does the partner.
BothCanPay(p) == HasEnoughMoney(p) /\ HasEnoughMoney(Trader(p))

CanAccept(p) == BothCanPay(p) /\ ItemsAreEligible(p)

AcceptWithoutMoney(p) ==
    /\ IsTrading(p) /\ ~HasEnoughMoney(p)
    /\ m_trade' = [m_trade EXCEPT ![p].accepted = FALSE]
    /\ UNCHANGED <<inventory, nearby, freed, soulbound>>

AcceptFromPoorTrader(p) ==
    /\ IsTrading(p) /\ HasEnoughMoney(p) /\ ~HasEnoughMoney(Trader(p))
    /\ m_trade' = [m_trade EXCEPT ![p].accepted = TRUE, ![Trader(p)].accepted = FALSE]
    /\ UNCHANGED <<inventory, nearby, freed, soulbound>>

\* The client is told that the trade is cancelled; the flag stays.
AcceptIneligible(p) ==
    /\ IsTrading(p) /\ BothCanPay(p) /\ ~ItemsAreEligible(p)
    /\ m_trade' = [m_trade EXCEPT ![p].accepted = TRUE]
    /\ UNCHANGED <<inventory, nearby, freed, soulbound>>

AcceptFirst(p) ==
    /\ IsTrading(p) /\ CanAccept(p) /\ ~m_trade[Trader(p)].accepted
    /\ m_trade' = [m_trade EXCEPT ![p].accepted = TRUE]
    /\ UNCHANGED <<inventory, nearby, freed, soulbound>>

AcceptSecond(p) == IsTrading(p) /\ CanAccept(p) /\ m_trade[Trader(p)].accepted

\* The spell of r, p or its trader, cannot be cast. It is looked at in this
\* order; CheckCast may refuse for reasons of its own.
AcceptSpellFails(p, r) ==
    /\ AcceptSecond(p)
    /\ r \in {p, Trader(p)} /\ m_trade[r].spell
    /\ (r # p /\ m_trade[p].spell) => HasNonTraded(Trader(p))
    /\ SetSpell(r, FALSE)
    /\ UNCHANGED <<inventory, nearby, freed, soulbound>>

SpellsCanBeCast(p) ==
    \A r \in {p, Trader(p)} : m_trade[r].spell => HasNonTraded(Trader(r))

\* Defect: nobody asks whether the partner has room.
ItemsFit_own(p) == CanStoreItems(p, Offered(Trader(p)), Offered(p))

\* setAcceptTradeMode marks the items of both sides before CanStoreItems is asked.
ItemsFit(p) ==
    /\ CanStoreItems(p, Offered(Trader(p)), Offered(p))
    /\ CanStoreItems(Trader(p), Offered(p), Offered(Trader(p)))

AcceptWithoutRoom(p) ==
    /\ AcceptSecond(p) /\ SpellsCanBeCast(p) /\ ~ItemsFit(p)
    /\ m_trade' = [m_trade EXCEPT ![p].accepted = FALSE, ![Trader(p)].accepted = FALSE]
    /\ UNCHANGED <<inventory, nearby, freed, soulbound>>

\* The item of a slot, as a set.
Lot(p, slot) == {m_trade[p].items[slot]} \cap bag[p]

\* One round of moveItems: both items of the slot are stored, or each goes
\* back to its owner if it still fits there.
MoveSlot(p, bags, slot) ==
    LET q == Trader(p)
        Fits(r, lot) == Cardinality(bags[r] \cup lot) <= BagSize
        Stored(r, lot) == bags[r] \cup (IF Fits(r, lot) THEN lot ELSE {})
    IN  IF Fits(q, Lot(p, slot)) /\ Fits(p, Lot(q, slot))
        THEN [bags EXCEPT ![p] = @ \cup Lot(q, slot), ![q] = @ \cup Lot(p, slot)]
        ELSE [bags EXCEPT ![p] = Stored(p, Lot(p, slot)), ![q] = Stored(q, Lot(q, slot))]

\* WorldSession::moveItems, after the items of both sides were removed.
moveItems(p) ==
    LET removed == [bag EXCEPT ![p] = @ \ Offered(p), ![Trader(p)] = @ \ Offered(Trader(p))]
        bags[slot \in 0..TradedCount] ==
            IF slot = 0 THEN removed ELSE MoveSlot(p, bags[slot - 1], slot)
    IN  bags[TradedCount]

\* The money of both after the exchange.
MovedMoney(p) ==
    LET q == Trader(p)
        mine == m_trade[p].money
        theirs == m_trade[q].money
    IN  [money EXCEPT ![p] = ModifyMoney(ModifyMoney(@, -mine), theirs),
                      ![q] = ModifyMoney(ModifyMoney(@, -theirs), mine)]

\* Removed items leave the update queue, stored ones enter the new owner's.
MovedQueue(p, bags) ==
    LET lots == Offered(p) \cup Offered(Trader(p))
    IN  [r \in Players |->
            IF r \in {p, Trader(p)}
            THEN (m_itemUpdateQueue[r] \ lots) \cup (lots \cap bags[r])
            ELSE m_itemUpdateQueue[r]]

\* Defect: only the player who accepts last is saved.
AcceptCompletes_savesOne(p) ==
    /\ AcceptSecond(p) /\ SpellsCanBeCast(p) /\ ItemsFit(p)
    /\ bag' = moveItems(p)
    /\ money' = MovedMoney(p)
    /\ DeleteTrade(p)
    /\ SaveInventoryAndGoldToDB({p}, bag', money', MovedQueue(p, bag'))
    /\ UNCHANGED <<online, nearby, soulbound>>

AcceptCompletes(p) ==
    /\ AcceptSecond(p) /\ SpellsCanBeCast(p) /\ ItemsFit(p)
    /\ bag' = moveItems(p)
    /\ money' = MovedMoney(p)
    /\ DeleteTrade(p)
    /\ SaveInventoryAndGoldToDB({p, Trader(p)}, bag', money', MovedQueue(p, bag'))
    /\ UNCHANGED <<online, nearby, soulbound>>

HandleAcceptTrade(p) ==
    \/ AcceptWithoutMoney(p)
    \/ AcceptFromPoorTrader(p)
    \/ AcceptIneligible(p)
    \/ AcceptFirst(p)
    \/ \E r \in Players : AcceptSpellFails(p, r)
    \/ AcceptWithoutRoom(p)
    \/ AcceptCompletes(p)

-----------------------------------------------------------------------------
(* What happens to the inventories meanwhile *)

\* An item is worn and binds (Player::EquipItem, Item::SetBinding).
EquipItem(p, i) ==
    /\ p \in online /\ i \in (bag[p] \cap BindOnEquip) \ soulbound
    /\ soulbound' = soulbound \cup {i}
    /\ m_itemUpdateQueue' = [m_itemUpdateQueue EXCEPT ![p] = @ \cup {i}]
    /\ UNCHANGED <<online, bag, money, rows, nearby, m_trade, freed>>

HandleDestroyItem(p, i) == DestroyItem(p, i) /\ UNCHANGED tradeVars

Autosave(p) == SaveToDB(p) /\ UNCHANGED tradeVars

Login(p) == LoadFromDB(p) /\ UNCHANGED tradeVars

\* WorldSession::LogoutPlayer; Player::CleanupsBeforeDelete cancels the trade.
LogoutPlayer(p) ==
    /\ SaveAndLeave(p) /\ TradeCancel(p)
    /\ UNCHANGED <<nearby, soulbound>>

Crash ==
    /\ online # {} /\ LoseMemory
    /\ m_trade' = [p \in Players |-> NULL]
    /\ freed' = {} /\ UNCHANGED nearby
    /\ \E unsaved \in SUBSET (soulbound \cap UNION {m_itemUpdateQueue[p] : p \in Players}) :
          soulbound' = soulbound \ unsaved

TradeStep ==
    \/ \E p, q \in Players : HandleInitiateTrade(p, q)
    \/ \E p \in Players :
          \/ \E gold \in Gold : HandleSetTradeGold(p, gold)
          \/ \E slot \in TradeSlots, i \in Items : HandleSetTradeItem(p, slot, i)
          \/ \E slot \in TradeSlots : HandleClearTradeItem(p, slot)
          \/ CastOnTradeItem(p)
          \/ HandleUnacceptTrade(p)
          \/ HandleCancelTrade(p)
          \/ HandleAcceptTrade(p)
          \/ \E i \in Items : EquipItem(p, i)
          \/ \E i \in Items : HandleDestroyItem(p, i)
          \/ Autosave(p)
          \/ Login(p)

-----------------------------------------------------------------------------
(* Properties *)

\* Whoever has a trade is in the world and so is the partner, whose trade is
\* with them: the handlers of TradeHandler.cpp use the partner's TradeData and
\* Player without a check, whoever logged out or cancelled meanwhile.
TradeIsMutual ==
    \A p \in Players : m_trade[p] # NULL =>
        LET q == Trader(p)
        IN  /\ p \in online /\ q \in online /\ q # p
            /\ m_trade[q] # NULL /\ Trader(q) = p

\* What one side of a trade sees of the other.
Shown(p) == <<m_trade[p].items, m_trade[p].money, m_trade[p].spell>>

\* An acceptance stands for the offers it was given for: if the table, the
\* money or the spell of either side changes, TradeData takes back the
\* acceptance of both.
AcceptStandsStep ==
    \A p \in Players :
        (m_trade[p] # NULL /\ m_trade'[p] # NULL) =>
            ((m_trade[p].accepted /\ m_trade'[p].accepted) =>
                (Shown(p)' = Shown(p) /\ (Shown(Trader(p)))' = Shown(Trader(p))))

\* A trade that ends has exchanged everything or nothing: each bag lost what
\* its owner offered and got what the partner offered, and so did the purses,
\* except for what does not fit below MAX_MONEY_AMOUNT. This is about the room
\* CanStoreItems promised before moveItems moves the slots one by one.
TradeIsExactStep ==
    \A p \in Players : (m_trade[p] # NULL /\ m_trade'[p] = NULL) =>
        LET q == Trader(p)
        IN  {p, q} \subseteq online' =>
              \/ UNCHANGED <<bag, money>>
              \/ /\ bag'[p] = (bag[p] \ Offered(p)) \cup Offered(q)
                 /\ bag'[q] = (bag[q] \ Offered(q)) \cup Offered(p)
                 /\ Cardinality(bag'[p]) <= BagSize
                 /\ \/ money'[p] = money[p] - m_trade[p].money + m_trade[q].money
                    \/ money'[p] = MaxMoney /\ money'[p] < money[p] - m_trade[p].money + m_trade[q].money

=============================================================================
