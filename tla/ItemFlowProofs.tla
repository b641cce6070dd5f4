--------------------------- MODULE ItemFlowProofs ---------------------------
(***************************************************************************)
(* Trades, loot and bags, for any number of players, items, slots and sums *)
(* of money: the two sides of a trade always fit together, an acceptance   *)
(* never outlives a change of what was accepted, and a trade exchanges all *)
(* or nothing (TradeInv); no item has two owners, in memory or in the rows,*)
(* and what differs from the rows is queued (ItemsInv); the rolls agree with*)
(* the votes and with the loot (RollsInv).                                 *)
(***************************************************************************)
EXTENDS ItemFlow, FiniteSetTheorems, TLAPS

\* The types the proof needs, of the trade objects and the memory they leave.
TradeType ==
    /\ m_trade \in [Players -> TradeData \cup {NULL}]
    /\ freed \subseteq Tables

TradeInv == TradeType /\ TradeIsMutual

\* What an action may do to the trades: it keeps them sound, and the
\* acceptances stand for what was shown.
Sound == TradeInv' /\ AcceptStandsStep

\* Two objects that show the same.
SameOffer(d, e) == d.items = e.items /\ d.money = e.money /\ d.spell = e.spell

\* Nobody's TradeData is NULL.
LEMMA DataIsNotNull == NULL \notin TradeData
BY TradeAssumption

\* A step that leaves the trades alone and takes no trader out of the world.
LEMMA TradesKept ==
    ASSUME TradeInv, UNCHANGED <<m_trade, freed>>,
           \A r \in Players : m_trade[r] # NULL => r \in online'
    PROVE  Sound
<1>1. TradeInv'
  BY DEF TradeInv, TradeType, TradeIsMutual, Trader, TradeData
<1>2. AcceptStandsStep
  BY DEF AcceptStandsStep, Shown, Trader
<1>3. QED
  BY <1>1, <1>2 DEF Sound

\* A step that replaces the objects of a pair by others of the same pair. The
\* acceptances are taken back or what is shown stays.
LEMMA PairChanged ==
    ASSUME TradeInv, NEW p \in Players, m_trade[p] # NULL, NEW q \in Players, q = Trader(p),
           NEW mine \in TradeData, NEW theirs \in TradeData, mine.trader = q, theirs.trader = p,
           m_trade' = [m_trade EXCEPT ![p] = mine, ![q] = theirs],
           UNCHANGED <<online, freed>>,
           \/ mine.accepted = FALSE /\ theirs.accepted = FALSE
           \/ SameOffer(mine, m_trade[p]) /\ SameOffer(theirs, m_trade[q])
    PROVE  Sound
<1>1. /\ p \in online /\ q \in online /\ q # p
      /\ m_trade[q] # NULL /\ m_trade[q].trader = p
  BY DEF TradeInv, TradeIsMutual, Trader
<1>2. m_trade'[p] = mine /\ m_trade'[q] = theirs
  BY <1>1 DEF TradeInv, TradeType
<1>3. \A r \in Players \ {p, q} : m_trade'[r] = m_trade[r]
  BY DEF TradeInv, TradeType
<1>4. \A r \in Players \ {p, q} : m_trade[r] # NULL =>
        /\ m_trade[r].trader \in Players \ {p, q}
        /\ m_trade[r].trader \in online /\ r \in online /\ m_trade[r].trader # r
        /\ m_trade[m_trade[r].trader] # NULL /\ m_trade[m_trade[r].trader].trader = r
  BY <1>1 DEF TradeInv, TradeType, TradeIsMutual, Trader, TradeData
<1>5. \A r \in Players \ {p, q} : m_trade[r] # NULL =>
        m_trade'[r] = m_trade[r] /\ m_trade'[m_trade[r].trader] = m_trade[m_trade[r].trader]
  BY <1>3, <1>4, Zenon
<1>6. TradeType'
  BY <1>1 DEF TradeInv, TradeType
<1>7. TradeIsMutual'
  <2>1. ASSUME NEW r \in Players, m_trade'[r] # NULL
        PROVE  /\ r \in online /\ m_trade'[r].trader \in online /\ m_trade'[r].trader # r
               /\ m_trade'[m_trade'[r].trader] # NULL /\ m_trade'[m_trade'[r].trader].trader = r
    <3>1. CASE r = p
      BY <1>1, <1>2, <3>1, DataIsNotNull
    <3>2. CASE r = q
      BY <1>1, <1>2, <3>2, DataIsNotNull, Zenon
    <3>3. CASE r \notin {p, q}
      <4>1. r \in Players \ {p, q} /\ m_trade[r] # NULL
        BY <1>3, <2>1, <3>3
      <4>2. m_trade'[r] = m_trade[r] /\ m_trade'[m_trade[r].trader] = m_trade[m_trade[r].trader]
        BY <1>5, <4>1, Zenon
      <4>3. QED
        BY <1>4, <4>1, <4>2
    <3>4. QED
      BY <3>1, <3>2, <3>3
  <2>2. QED
    BY <2>1, Zenon DEF TradeIsMutual, Trader
<1>8. AcceptStandsStep
  <2>1. ASSUME NEW r \in Players, m_trade[r] # NULL, m_trade'[r] # NULL,
               m_trade[r].accepted, m_trade'[r].accepted
        PROVE  Shown(r)' = Shown(r) /\ (Shown(Trader(r)))' = Shown(Trader(r))
    <3>1. CASE r = p
      BY <1>1, <1>2, <2>1, <3>1 DEF Shown, Trader, SameOffer
    <3>2. CASE r = q
      BY <1>1, <1>2, <2>1, <3>2 DEF Shown, Trader, SameOffer
    <3>3. CASE r \notin {p, q}
      <4>1. m_trade'[r] = m_trade[r] /\ m_trade'[m_trade[r].trader] = m_trade[m_trade[r].trader]
        BY <1>5, <2>1, <3>3, Zenon
      <4>2. QED
        BY <4>1 DEF Shown, Trader
    <3>4. QED
      BY <3>1, <3>2, <3>3, Zenon
  <2>2. QED
    BY <2>1 DEF AcceptStandsStep
<1>9. QED
  BY <1>6, <1>7, <1>8 DEF Sound, TradeInv

\* What is known of a trading player and the partner.
LEMMA Partners ==
    ASSUME TradeInv, NEW p \in Players, m_trade[p] # NULL
    PROVE  /\ Trader(p) \in Players /\ Trader(p) # p /\ m_trade[Trader(p)] # NULL
           /\ m_trade[p] \in TradeData /\ m_trade[Trader(p)] \in TradeData
           /\ m_trade[Trader(p)].trader = p /\ m_trade[p].trader = Trader(p)
           /\ p \in online /\ Trader(p) \in online
BY DEF TradeInv, TradeType, TradeIsMutual, Trader, TradeData

\* TradeData::SetMoney, SetSpell and SetItem take back both acceptances.
LEMMA OfferChanged ==
    ASSUME TradeInv, NEW p \in Players, m_trade[p] # NULL,
           NEW data \in TradeData, data.trader = Trader(p),
           ChangeOffer(p, data), UNCHANGED <<online, freed>>
    PROVE  Sound
<1> DEFINE mine == [data EXCEPT !.accepted = FALSE]
           theirs == [m_trade[Trader(p)] EXCEPT !.accepted = FALSE]
<1>1. mine \in TradeData /\ mine.trader = Trader(p) /\ mine.accepted = FALSE
  BY Zenon DEF TradeData
<1>2. theirs \in TradeData /\ theirs.trader = p /\ theirs.accepted = FALSE
  BY Partners, Zenon DEF TradeData
<1>3. m_trade' = [m_trade EXCEPT ![p] = mine, ![Trader(p)] = theirs]
  BY Partners, Zenon DEF ChangeOffer, TradeInv, TradeType
<1> HIDE DEF mine, theirs
<1>4. QED
  BY <1>1, <1>2, <1>3, Partners, PairChanged, Zenon

\* A step that only sets the acceptances of a pair.
SetFlags(p, f, g) == m_trade' = [m_trade EXCEPT ![p].accepted = f, ![Trader(p)].accepted = g]

LEMMA FlagsSet ==
    ASSUME TradeInv, NEW p \in Players, m_trade[p] # NULL, NEW f \in BOOLEAN, NEW g \in BOOLEAN,
           SetFlags(p, f, g), UNCHANGED <<online, freed>>
    PROVE  Sound
<1> DEFINE mine == [m_trade[p] EXCEPT !.accepted = f]
           theirs == [m_trade[Trader(p)] EXCEPT !.accepted = g]
<1>1. mine \in TradeData /\ mine.trader = Trader(p) /\ SameOffer(mine, m_trade[p])
  BY Partners DEF TradeData, SameOffer
<1>2. theirs \in TradeData /\ theirs.trader = p /\ SameOffer(theirs, m_trade[Trader(p)])
  BY Partners DEF TradeData, SameOffer
<1>3. m_trade' = [m_trade EXCEPT ![p] = mine, ![Trader(p)] = theirs]
  BY Partners, Zenon DEF SetFlags, TradeInv, TradeType
<1> HIDE DEF mine, theirs
<1>4. QED
  BY <1>1, <1>2, <1>3, Partners, PairChanged, Zenon

\* A step that sets one acceptance.
LEMMA FlagSet ==
    ASSUME TradeInv, NEW p \in Players, m_trade[p] # NULL, NEW f \in BOOLEAN,
           m_trade' = [m_trade EXCEPT ![p].accepted = f],
           UNCHANGED <<online, freed>>
    PROVE  Sound
<1>1. SetFlags(p, f, m_trade[Trader(p)].accepted)
  <2>1. m_trade[Trader(p)] = [m_trade[Trader(p)] EXCEPT !.accepted = m_trade[Trader(p)].accepted]
    BY Partners DEF TradeData
  <2>2. QED
    BY ZenonT(40), <2>1, Partners DEF SetFlags, TradeInv, TradeType
<1>2. m_trade[Trader(p)].accepted \in BOOLEAN
  BY Partners DEF TradeData
<1>3. QED
  BY <1>1, <1>2, FlagsSet

\* A trade that ends, while nobody outside of it leaves the world.
LEMMA TradeDeleted ==
    ASSUME TradeInv, NEW p \in Players, m_trade[p] # NULL, DeleteTrade(p),
           online \subseteq online' \cup {p, Trader(p)}
    PROVE  Sound
<1>1. PICK q \in Players : q = Trader(p)
  BY Partners
<1>2. m_trade'[p] = NULL /\ m_trade'[q] = NULL
  BY <1>1, Partners DEF DeleteTrade, TradeInv, TradeType
<1>3. \A r \in Players \ {p, q} : m_trade'[r] = m_trade[r]
  BY <1>1 DEF DeleteTrade, TradeInv, TradeType
<1>4. \A r \in Players \ {p, q} : m_trade[r] # NULL =>
        /\ m_trade[r].trader \in Players \ {p, q}
        /\ m_trade[r].trader \in online /\ r \in online /\ m_trade[r].trader # r
        /\ m_trade[m_trade[r].trader] # NULL /\ m_trade[m_trade[r].trader].trader = r
  BY <1>1, Partners DEF TradeInv, TradeType, TradeIsMutual, Trader, TradeData
<1>5. \A r \in Players \ {p, q} : m_trade[r] # NULL =>
        m_trade'[r] = m_trade[r] /\ m_trade'[m_trade[r].trader] = m_trade[m_trade[r].trader]
  BY <1>3, <1>4
<1>6. TradeType'
  BY Partners DEF DeleteTrade, TradeInv, TradeType, TradeData
<1>7. TradeIsMutual' /\ AcceptStandsStep
  <2>1. ASSUME NEW r \in Players, m_trade'[r] # NULL
        PROVE  /\ r \in online' /\ m_trade'[r].trader \in online' /\ m_trade'[r].trader # r
               /\ m_trade'[m_trade'[r].trader] # NULL /\ m_trade'[m_trade'[r].trader].trader = r
               /\ m_trade[r] # NULL
               /\ Shown(r)' = Shown(r) /\ (Shown(Trader(r)))' = Shown(Trader(r))
    <3>1. r \in Players \ {p, q} /\ m_trade[r] # NULL
      BY <1>2, <1>3, <2>1
    <3>2. m_trade'[r] = m_trade[r] /\ m_trade'[m_trade[r].trader] = m_trade[m_trade[r].trader]
      BY <1>5, <3>1
    <3>3. Shown(r)' = Shown(r) /\ (Shown(Trader(r)))' = Shown(Trader(r))
      BY <3>2 DEF Shown, Trader
    <3>4. QED
      BY <1>1, <1>4, <3>1, <3>2, <3>3
  <2>2. QED
    BY <2>1 DEF TradeIsMutual, Trader, AcceptStandsStep
<1>8. QED
  BY <1>6, <1>7 DEF Sound, TradeInv

LEMMA InitiateSound ==
    ASSUME TradeInv, NEW p \in Players, NEW q \in Players, HandleInitiateTrade(p, q)
    PROVE  Sound
<1>1. PICK a \in Tables, b \in Tables :
        m_trade' = [m_trade EXCEPT ![p] = NewTradeData(q, a), ![q] = NewTradeData(p, b)]
  <2>1. NoItems \in Tables
    BY DEF NoItems, Tables
  <2>2. QED
    BY <2>1, Zenon DEF HandleInitiateTrade, TradeInv, TradeType
<1>2. /\ p # q /\ p \in online /\ q \in online /\ m_trade[p] = NULL /\ m_trade[q] = NULL
      /\ UNCHANGED online /\ freed' = {}
  BY DEF HandleInitiateTrade, inventory
<1>3. /\ NewTradeData(q, a) \in TradeData /\ NewTradeData(q, a).trader = q
      /\ NewTradeData(p, b) \in TradeData /\ NewTradeData(p, b).trader = p
  BY DEF NewTradeData, TradeData
<1>4. m_trade'[p] = NewTradeData(q, a) /\ m_trade'[q] = NewTradeData(p, b)
  BY <1>1, <1>2 DEF TradeInv, TradeType
<1>5. \A r \in Players \ {p, q} : m_trade'[r] = m_trade[r]
  BY <1>1 DEF TradeInv, TradeType
<1>6. \A r \in Players \ {p, q} : m_trade[r] # NULL =>
        /\ m_trade[r].trader \in Players \ {p, q}
        /\ m_trade[r].trader \in online /\ r \in online /\ m_trade[r].trader # r
        /\ m_trade[m_trade[r].trader] # NULL /\ m_trade[m_trade[r].trader].trader = r
  BY <1>2 DEF TradeInv, TradeType, TradeIsMutual, Trader, TradeData
<1>7. \A r \in Players \ {p, q} : m_trade[r] # NULL =>
        m_trade'[r] = m_trade[r] /\ m_trade'[m_trade[r].trader] = m_trade[m_trade[r].trader]
  BY <1>5, <1>6
<1>8. TradeType'
  BY <1>1, <1>2, <1>3, Zenon DEF TradeInv, TradeType
<1>9. ASSUME NEW r \in Players, m_trade'[r] # NULL
      PROVE  /\ r \in online' /\ m_trade'[r].trader \in online' /\ m_trade'[r].trader # r
             /\ m_trade'[m_trade'[r].trader] # NULL /\ m_trade'[m_trade'[r].trader].trader = r
  <2>1. CASE r = p
    BY <1>2, <1>3, <1>4, <2>1, DataIsNotNull, Zenon
  <2>2. CASE r = q
    BY <1>2, <1>3, <1>4, <2>2, DataIsNotNull, Zenon
  <2>3. CASE r \notin {p, q}
    <3>1. m_trade'[r] = m_trade[r] /\ m_trade'[m_trade[r].trader] = m_trade[m_trade[r].trader]
      BY <1>5, <1>7, <1>9, <2>3, Zenon
    <3>2. QED
      BY <1>2, <1>6, <1>9, <2>3, <3>1, Zenon
  <2>4. QED
    BY <2>1, <2>2, <2>3, Zenon
<1>10. ASSUME NEW r \in Players, m_trade[r] # NULL
       PROVE  Shown(r)' = Shown(r) /\ (Shown(Trader(r)))' = Shown(Trader(r))
  <2>1. m_trade'[r] = m_trade[r] /\ m_trade'[m_trade[r].trader] = m_trade[m_trade[r].trader]
    BY <1>2, <1>7, <1>10
  <2>2. QED
    BY <2>1 DEF Shown, Trader
<1>11. QED
  BY <1>8, <1>9, <1>10 DEF Sound, TradeInv, TradeIsMutual, Trader, AcceptStandsStep

LEMMA SetItemSound ==
    ASSUME TradeInv, NEW p \in Players, m_trade[p] # NULL,
           NEW slot \in TradeSlots, NEW item \in Items \cup {NULL},
           SetItem(p, slot, item), UNCHANGED <<online, freed>>
    PROVE  Sound
<1> DEFINE mine == WithItem(m_trade[p], slot, item)
           theirs == WithoutSpell(m_trade[Trader(p)], slot = NonTraded)
<1>1. mine \in TradeData /\ mine.trader = Trader(p) /\ mine.accepted = FALSE
  <2>1. PICK d \in TradeData : d = m_trade[p] /\ d.trader = Trader(p)
    BY Partners
  <2>2. PICK t \in Tables : t = [d.items EXCEPT ![slot] = item]
    BY Zenon DEF TradeData, Tables
  <2>3. WithItem(d, slot, item) = [d EXCEPT !.items = t, !.accepted = FALSE, !.spell = FALSE]
    BY <2>2 DEF WithItem
  <2>4. QED
    BY <2>1, <2>3, Zenon DEF TradeData
<1>2. theirs \in TradeData /\ theirs.trader = p /\ theirs.accepted = FALSE
  <2>1. PICK d \in TradeData : d = m_trade[Trader(p)] /\ d.trader = p
    BY Partners
  <2>2. CASE slot = NonTraded
    <3>1. theirs = [d EXCEPT !.accepted = FALSE, !.spell = FALSE]
      BY <2>1, <2>2 DEF WithoutSpell
    <3>2. QED
      BY <2>1, <3>1, Zenon DEF TradeData
  <2>3. CASE slot # NonTraded
    <3>1. theirs = [d EXCEPT !.accepted = FALSE, !.spell = d.spell]
      BY <2>1, <2>3 DEF WithoutSpell
    <3>2. QED
      BY <2>1, <3>1, Zenon DEF TradeData
  <2>4. QED
    BY <2>2, <2>3, Zenon
<1>3. m_trade' = [m_trade EXCEPT ![p] = mine, ![Trader(p)] = theirs]
  BY Partners DEF SetItem, TradeInv, TradeType
<1> HIDE DEF mine, theirs
<1>4. QED
  BY <1>1, <1>2, <1>3, Partners, PairChanged, Zenon

\* One step of the proof for each handler.
LEMMA AcceptSound ==
    ASSUME TradeInv, NEW p \in Players, HandleAcceptTrade(p)
    PROVE  Sound
<1>1. CASE AcceptWithoutMoney(p)
  BY <1>1, FlagSet, Zenon DEF AcceptWithoutMoney, IsTrading, inventory
<1>2. CASE AcceptFromPoorTrader(p)
  BY <1>2, FlagsSet, Zenon DEF AcceptFromPoorTrader, SetFlags, IsTrading, inventory
<1>3. CASE AcceptIneligible(p)
  BY <1>3, FlagSet, Zenon DEF AcceptIneligible, IsTrading, inventory
<1>4. CASE AcceptFirst(p)
  BY <1>4, FlagSet, Zenon DEF AcceptFirst, IsTrading, inventory
<1>5. ASSUME NEW r \in Players, AcceptSpellFails(p, r)
      PROVE  Sound
  <2>1. m_trade[r] # NULL /\ UNCHANGED <<online, freed>>
        /\ ChangeOffer(r, [m_trade[r] EXCEPT !.spell = FALSE])
    BY <1>5, Partners DEF AcceptSpellFails, AcceptSecond, IsTrading, SetSpell, inventory
  <2>2. /\ [m_trade[r] EXCEPT !.spell = FALSE] \in TradeData
        /\ [m_trade[r] EXCEPT !.spell = FALSE].trader = Trader(r)
    <3>1. m_trade[r] \in TradeData /\ m_trade[r].trader = Trader(r)
      BY <2>1, Partners
    <3>2. QED
      BY <3>1, Zenon DEF TradeData
  <2>3. QED
    BY <2>1, <2>2, OfferChanged, Zenon
<1>6. CASE AcceptWithoutRoom(p)
  BY <1>6, FlagsSet, Zenon DEF AcceptWithoutRoom, AcceptSecond, SetFlags, IsTrading, inventory
<1>7. CASE AcceptCompletes(p)
  BY <1>7, TradeDeleted DEF AcceptCompletes, AcceptSecond, IsTrading
<1>8. QED
  BY <1>1, <1>2, <1>3, <1>4, <1>5, <1>6, <1>7 DEF HandleAcceptTrade

LEMMA HandlersSound ==
    ASSUME TradeInv, TradeStep
    PROVE  Sound
<1>1. ASSUME NEW p \in Players, NEW q \in Players, HandleInitiateTrade(p, q)
      PROVE  Sound
  BY <1>1, InitiateSound
<1>2. ASSUME NEW p \in Players, NEW gold \in Gold, HandleSetTradeGold(p, gold)
      PROVE  Sound
  <2>1. m_trade[p] # NULL /\ UNCHANGED <<online, freed>>
        /\ ChangeOffer(p, [m_trade[p] EXCEPT !.money = gold])
    BY <1>2 DEF HandleSetTradeGold, SetMoney, IsTrading, inventory
  <2>2. /\ [m_trade[p] EXCEPT !.money = gold] \in TradeData
        /\ [m_trade[p] EXCEPT !.money = gold].trader = Trader(p)
    BY <2>1, Partners DEF TradeData
  <2>3. QED
    BY <2>1, <2>2, OfferChanged, Zenon
<1>3. ASSUME NEW p \in Players, NEW slot \in TradeSlots, NEW i \in Items,
             HandleSetTradeItem(p, slot, i)
      PROVE  Sound
  BY <1>3, SetItemSound DEF HandleSetTradeItem, IsTrading, inventory
<1>4. ASSUME NEW p \in Players, NEW slot \in TradeSlots, HandleClearTradeItem(p, slot)
      PROVE  Sound
  BY <1>4, SetItemSound DEF HandleClearTradeItem, IsTrading, inventory
<1>5. ASSUME NEW p \in Players, CastOnTradeItem(p)
      PROVE  Sound
  <2>1. m_trade[p] # NULL /\ UNCHANGED <<online, freed>>
        /\ ChangeOffer(p, [m_trade[p] EXCEPT !.spell = TRUE])
    BY <1>5 DEF CastOnTradeItem, SetSpell, IsTrading, inventory
  <2>2. /\ [m_trade[p] EXCEPT !.spell = TRUE] \in TradeData
        /\ [m_trade[p] EXCEPT !.spell = TRUE].trader = Trader(p)
    BY ZenonT(40), <2>1, Partners DEF TradeData
  <2>3. QED
    BY <2>1, <2>2, OfferChanged, Zenon
<1>6. ASSUME NEW p \in Players, HandleUnacceptTrade(p)
      PROVE  Sound
  BY <1>6, FlagSet, Zenon DEF HandleUnacceptTrade, IsTrading, inventory
<1>7. ASSUME NEW p \in Players, HandleCancelTrade(p)
      PROVE  Sound
  BY <1>7, TradeDeleted DEF HandleCancelTrade, TradeCancel, IsTrading, inventory
<1>8. ASSUME NEW p \in Players, HandleAcceptTrade(p)
      PROVE  Sound
  BY <1>8, AcceptSound
<1>9. ASSUME NEW p \in Players,
             (\E i \in Items : EquipItem(p, i) \/ HandleDestroyItem(p, i)) \/ Autosave(p) \/ Login(p)
      PROVE  Sound
  <2>1. UNCHANGED <<m_trade, freed>> /\ online \subseteq online'
    BY <1>9 DEF EquipItem, HandleDestroyItem, DestroyItem, Autosave, SaveToDB, Login, LoadFromDB,
                tradeVars
  <2>2. QED
    BY <2>1, TradesKept DEF TradeInv, TradeIsMutual
<1>10. QED
  BY <1>1, <1>2, <1>3, <1>4, <1>5, <1>6, <1>7, <1>8, <1>9, Zenon DEF TradeStep

LEMMA LootLeavesTrades ==
    ASSUME LootNext, UNCHANGED tradeVars
    PROVE  UNCHANGED <<online, m_trade, freed>>
BY DEF LootNext, GroupLoot, HandleLootRoll, StoreLootItem, Leave, EndRoll, RemoveCorpse,
       DoLootRelease, inventory, tradeVars

LEMMA StepSound ==
    ASSUME TradeInv, [Next]_allVars
    PROVE  Sound
<1>1. CASE TradeStep
  BY <1>1, HandlersSound
<1>2. CASE LootNext /\ UNCHANGED tradeVars
  BY <1>2, LootLeavesTrades, TradesKept DEF TradeInv, TradeIsMutual
<1>3. ASSUME NEW p \in Players, Logout(p)
      PROVE  Sound
  <2>1. TradeCancel(p) /\ online' = online \ {p}
    BY <1>3 DEF Logout, LogoutPlayer, SaveAndLeave
  <2>2. CASE m_trade[p] # NULL
    BY <2>1, <2>2, TradeDeleted DEF TradeCancel
  <2>3. CASE m_trade[p] = NULL
    BY <2>1, <2>3, TradesKept DEF TradeCancel, TradeInv, TradeIsMutual
  <2>4. QED
    BY <2>2, <2>3
<1>4. CASE Restart
  BY <1>4 DEF Restart, Crash, Sound, TradeInv, TradeType, TradeIsMutual, AcceptStandsStep
<1>5. CASE UNCHANGED allVars
  BY <1>5, TradesKept DEF allVars, inventory, tradeVars, TradeInv, TradeIsMutual
<1>6. QED
  BY <1>1, <1>2, <1>3, <1>4, <1>5 DEF Next

LEMMA TradeInvCorrect == Spec => []TradeInv
<1>1. Init => TradeInv
  BY DEF Init, TradeInit, TradeInv, TradeType, TradeIsMutual
<1>2. TradeInv /\ [Next]_allVars => TradeInv'
  BY StepSound DEF Sound
<1>3. QED
  BY <1>1, <1>2, PTL DEF Spec

\* Whatever the order in which players offer, accept, cancel, log out and come
\* back, whoever has a trade has a partner in the world who has the same trade:
\* no handler of TradeHandler.cpp reaches a deleted Player or TradeData.
THEOREM TradeIsMutualCorrect == Spec => []TradeIsMutual
<1>1. TradeInv => TradeIsMutual
  BY DEF TradeInv
<1>2. QED
  BY <1>1, TradeInvCorrect, PTL

\* No step of any player leaves an acceptance standing after what it was given
\* for has changed, also across acceptances that were refused.
THEOREM AcceptStandsCorrect == Spec => AcceptStands
<1>1. TradeInv /\ [Next]_allVars => [AcceptStandsStep]_allVars
  BY StepSound DEF Sound
<1>2. QED
  BY <1>1, TradeInvCorrect, PTL DEF Spec, AcceptStands

-----------------------------------------------------------------------------
(* Induction, and functions defined by recursion on a number *)

\* The library's least element of a set of finite sets, for the sets 0..k.
LEMMA Induction ==
    ASSUME NEW S, 0 \in S, \A n \in Nat : n \in S => n + 1 \in S
    PROVE  Nat \subseteq S
<1> SUFFICES ASSUME NEW m \in Nat, m \notin S PROVE FALSE
  OBVIOUS
<1> DEFINE T == {0..k : k \in Nat \ S}
<1>1. T \subseteq FiniteSubsetsOf(Nat)
  <2> SUFFICES ASSUME NEW k \in Nat PROVE 0..k \in SUBSET Nat /\ IsFiniteSet(0..k)
    BY DEF FiniteSubsetsOf
  <2> QED
    BY FS_Interval
<1>2. T # {}
  OBVIOUS
<1>3. PICK x \in T : \A y \in T : <<y, x>> \notin StrictSubsetOrdering(Nat)
  BY <1>1, <1>2, FS_StrictSubsetOrderingWellFounded, WFMin, Zenon
<1>4. PICK k \in Nat \ S : x = 0..k
  OBVIOUS
<1>5. k # 0 /\ k - 1 \in Nat \ S
  <2>1. k # 0
    OBVIOUS
  <2>2. k - 1 \in Nat /\ (k - 1) + 1 = k
    BY <2>1
  <2>3. QED
    BY <2>1, <2>2
<1>6. 0..(k - 1) \in T /\ 0..(k - 1) \subseteq 0..k /\ 0..(k - 1) # 0..k
  <2>1. k \in 0..k /\ k \notin 0..(k - 1)
    BY <1>5
  <2>2. QED
    BY <1>5, <2>1
<1>7. <<0..(k - 1), 0..k>> \in StrictSubsetOrdering(Nat)
  BY <1>6 DEF StrictSubsetOrdering
<1>8. QED
  BY <1>3, <1>4, <1>6, <1>7, Zenon

\* The runs of N steps from a first value, in which step n does what F[n] says.
Runs(S, N, first, F) ==
    {h \in [0..N -> S] : h[0] = first /\ \A n \in 1..N : h[n] = F[n][h[n - 1]]}

\* There is such a run, which makes a definition by recursion mean something.
LEMMA RunExists ==
    ASSUME NEW S, NEW first \in S, NEW N \in Nat, NEW F \in [1..N -> [S -> S]]
    PROVE  Runs(S, N, first, F) # {}
<1> DEFINE Run(h, m) == h \in [0..m -> S] /\ h[0] = first /\ \A n \in 1..m : h[n] = F[n][h[n - 1]]
           Lengths == {m \in Nat : m <= N => \E h : Run(h, m)}
<1>1. 0 \in Lengths
  <2>1. Run([n \in 0..0 |-> first], 0)
    OBVIOUS
  <2>2. QED
    BY <2>1, Zenon
<1>2. ASSUME NEW m \in Nat, m \in Lengths PROVE m + 1 \in Lengths
  <2> SUFFICES ASSUME m + 1 <= N PROVE \E h : Run(h, m + 1)
    OBVIOUS
  <2>1. PICK g : Run(g, m)
    BY <1>2
  <2> DEFINE h == [n \in 0..(m + 1) |-> IF n = m + 1 THEN F[m + 1][g[m]] ELSE g[n]]
  <2>2. g[m] \in S /\ m + 1 \in 1..N
    BY <2>1
  <2>3. F[m + 1][g[m]] \in S
    BY <2>2
  <2>4. h \in [0..(m + 1) -> S]
    BY <2>1, <2>3
  <2>5. ASSUME NEW n \in 1..(m + 1) PROVE h[n] = F[n][h[n - 1]]
    <3>1. CASE n = m + 1
      BY <3>1
    <3>2. CASE n # m + 1
      BY <2>1, <3>2
    <3>3. QED
      BY <3>1, <3>2, Zenon
  <2>6. h[0] = first
    BY <2>1
  <2> HIDE DEF h
  <2>7. QED
    BY <2>4, <2>5, <2>6, Zenon
<1> HIDE DEF Run
<1>3. Nat \subseteq Lengths
  BY <1>1, <1>2, Induction, Zenon
<1>4. \E h : Run(h, N)
  BY <1>3
<1>5. QED
  BY <1>4 DEF Run, Runs

-----------------------------------------------------------------------------
(* moveItems *)

Bags == [Players -> SUBSET Items]

\* The items of the first n slots of a table that are in the bag of its owner.
Given(r, n) == {m_trade[r].items[s] : s \in 1..n} \cap bag[r]

LEMMA MoveSlotType ==
    ASSUME TradeInv, bag \in Bags, NEW p \in Players, m_trade[p] # NULL,
           NEW b \in Bags, NEW slot
    PROVE  MoveSlot(p, b, slot) \in Bags
<1>1. PICK q \in Players : q = Trader(p) /\ q # p
  BY Partners
<1>2. Lot(p, slot) \subseteq Items /\ Lot(q, slot) \subseteq Items
  BY DEF Lot, Bags
<1>3. QED
  BY <1>1, <1>2, Zenon DEF MoveSlot, Bags

\* A slot whose two items fit.
LEMMA MoveSlotFits ==
    ASSUME NEW p \in Players, NEW q \in Players, q = Trader(p), q # p,
           NEW b \in Bags, NEW slot,
           Cardinality(b[q] \cup Lot(p, slot)) <= BagSize,
           Cardinality(b[p] \cup Lot(q, slot)) <= BagSize
    PROVE  MoveSlot(p, b, slot) = [b EXCEPT ![p] = @ \cup Lot(q, slot), ![q] = @ \cup Lot(p, slot)]
  BY Zenon DEF MoveSlot

\* What is known of the bags after each slot of moveItems.
LEMMA MoveItemsRun ==
    ASSUME TradeInv, bag \in Bags, NEW p \in Players, m_trade[p] # NULL
    PROVE  \E bags :
             /\ bags[0] = [bag EXCEPT ![p] = @ \ Offered(p), ![Trader(p)] = @ \ Offered(Trader(p))]
             /\ \A slot \in 1..TradedCount : bags[slot] = MoveSlot(p, bags[slot - 1], slot)
             /\ moveItems(p) = bags[TradedCount]
<1> DEFINE removed == [bag EXCEPT ![p] = @ \ Offered(p), ![Trader(p)] = @ \ Offered(Trader(p))]
           F == [slot \in 1..TradedCount |-> [b \in Bags |-> MoveSlot(p, b, slot)]]
           bags == CHOOSE bags : bags = [slot \in 0..TradedCount |->
                       IF slot = 0 THEN removed ELSE MoveSlot(p, bags[slot - 1], slot)]
<1>1. TradedCount \in Nat
  BY TradeAssumption, Zenon
<1>2. removed \in Bags
  BY Partners DEF Bags
<1>3. F \in [1..TradedCount -> [Bags -> Bags]]
  BY MoveSlotType
<1>4. PICK h \in [0..TradedCount -> Bags] :
        h[0] = removed /\ \A slot \in 1..TradedCount : h[slot] = F[slot][h[slot - 1]]
  <2> HIDE DEF F, removed
  <2>1. Runs(Bags, TradedCount, removed, F) # {}
    BY <1>1, <1>2, <1>3, RunExists, Zenon
  <2>2. QED
    BY <2>1 DEF Runs
<1>5. ASSUME NEW slot \in 1..TradedCount PROVE h[slot] = MoveSlot(p, h[slot - 1], slot)
  <2>1. h[slot - 1] \in Bags
    BY <1>1
  <2>2. F[slot][h[slot - 1]] = MoveSlot(p, h[slot - 1], slot)
    BY <2>1
  <2>3. QED
    BY <1>4, <2>2
<1>6. moveItems(p) = bags[TradedCount]
  BY DEF moveItems
<1> HIDE DEF removed
<1>7. h = [slot \in 0..TradedCount |->
             IF slot = 0 THEN removed ELSE MoveSlot(p, h[slot - 1], slot)]
  BY <1>1, <1>4, <1>5
<1>8. bags = [slot \in 0..TradedCount |->
                IF slot = 0 THEN removed ELSE MoveSlot(p, bags[slot - 1], slot)]
  BY <1>7, Zenon
<1> HIDE DEF bags
<1>9. bags[0] = removed
  BY <1>1, <1>8
<1>10. ASSUME NEW slot \in 1..TradedCount PROVE bags[slot] = MoveSlot(p, bags[slot - 1], slot)
  BY <1>1, <1>8
<1>11. QED
  BY <1>6, <1>9, <1>10, Zenon DEF removed

\* The exchange: CanStoreItems has found room for all items of the other side,
\* so that there is room for those of the first slots, and no item goes back.
LEMMA MoveItemsExact ==
    ASSUME TradeInv, bag \in Bags, NEW p \in Players, m_trade[p] # NULL, ItemsFit(p),
           NEW q \in Players, q = Trader(p)
    PROVE  moveItems(p) = [bag EXCEPT ![p] = (@ \ Offered(p)) \cup Offered(q),
                                      ![q] = (@ \ Offered(q)) \cup Offered(p)]
<1> DEFINE After(n) == [bag EXCEPT ![p] = (@ \ Offered(p)) \cup Given(q, n),
                                   ![q] = (@ \ Offered(q)) \cup Given(p, n)]
<1>1. q # p /\ TradedCount \in Nat /\ BagSize \in Nat /\ IsFiniteSet(Items)
  BY Partners, TradeAssumption, ItemFlowAssumption
<1>2. PICK bags : /\ bags[0] = [bag EXCEPT ![p] = @ \ Offered(p), ![q] = @ \ Offered(q)]
                  /\ \A slot \in 1..TradedCount : bags[slot] = MoveSlot(p, bags[slot - 1], slot)
                  /\ moveItems(p) = bags[TradedCount]
  BY MoveItemsRun, Zenon
<1>3. \A r : Given(r, 0) = {} /\ Given(r, TradedCount) = Offered(r)
  BY DEF Given, Offered, TradedSlots
<1>4. ASSUME NEW r \in Players, NEW n \in 1..TradedCount
      PROVE  Given(r, n) = Given(r, n - 1) \cup Lot(r, n) /\ Given(r, n) \subseteq Offered(r)
  <2>1. \A s \in 1..n : s \in 1..TradedCount /\ (s \in 1..(n - 1) \/ s = n)
    BY <1>1
  <2>2. \A s \in 1..(n - 1) : s \in 1..n
    BY <1>1
  <2>3. n \in 1..n
    BY <1>1
  <2>4. QED
    BY <2>1, <2>2, <2>3 DEF Given, Lot, Offered, TradedSlots
<1>5. ASSUME NEW n \in 1..TradedCount, bags[n - 1] = After(n - 1)
      PROVE  bags[n] = After(n)
  <2>1. After(n - 1) \in Bags
    BY DEF Bags, Given
  <2>2. /\ After(n - 1)[p] \cup Lot(q, n) \subseteq (bag[p] \ Offered(p)) \cup Offered(q)
        /\ After(n - 1)[q] \cup Lot(p, n) \subseteq (bag[q] \ Offered(q)) \cup Offered(p)
    BY <1>1, <1>4, Zenon DEF Bags
  <2>3. /\ IsFiniteSet((bag[p] \ Offered(p)) \cup Offered(q))
        /\ IsFiniteSet((bag[q] \ Offered(q)) \cup Offered(p))
    <3>1. /\ (bag[p] \ Offered(p)) \cup Offered(q) \subseteq Items
          /\ (bag[q] \ Offered(q)) \cup Offered(p) \subseteq Items
      BY Zenon DEF Bags, Offered
    <3>2. QED
      BY <1>1, <3>1, FS_Subset, Zenon
  <2>4. /\ Cardinality((bag[p] \ Offered(p)) \cup Offered(q)) <= BagSize
        /\ Cardinality((bag[q] \ Offered(q)) \cup Offered(p)) <= BagSize
    BY DEF ItemsFit, CanStoreItems
  <2>5. ASSUME NEW s, NEW t, s \subseteq t, IsFiniteSet(t), Cardinality(t) <= BagSize
        PROVE  Cardinality(s) <= BagSize
    <3>1. IsFiniteSet(s) /\ Cardinality(s) <= Cardinality(t)
      BY <2>5, FS_Subset, Zenon
    <3>2. Cardinality(s) \in Nat /\ Cardinality(t) \in Nat
      BY <2>5, <3>1, FS_CardinalityType, Zenon
    <3>3. QED
      BY <1>1, <2>5, <3>1, <3>2
  <2>6. PICK b \in Bags : b = After(n - 1)
    BY <2>1, Zenon
  <2>7. /\ b[p] = (bag[p] \ Offered(p)) \cup Given(q, n - 1)
        /\ b[q] = (bag[q] \ Offered(q)) \cup Given(p, n - 1)
        /\ \A r \in Players \ {p, q} : b[r] = bag[r]
    BY <1>1, <2>6, Zenon DEF Bags
  <2> HIDE DEF After
  <2>8. Cardinality(b[q] \cup Lot(p, n)) <= BagSize /\ Cardinality(b[p] \cup Lot(q, n)) <= BagSize
    BY <2>2, <2>3, <2>4, <2>5, <2>6, Zenon
  <2>9. bags[n] = [b EXCEPT ![p] = @ \cup Lot(q, n), ![q] = @ \cup Lot(p, n)]
    <3>1. bags[n] = MoveSlot(p, b, n)
      BY <1>2, <1>5, <2>6, Zenon
    <3>2. QED
      BY <1>1, <2>8, <3>1, MoveSlotFits
  <2>10. /\ bags[n] \in Bags
         /\ bags[n][p] = (bag[p] \ Offered(p)) \cup Given(q, n)
         /\ bags[n][q] = (bag[q] \ Offered(q)) \cup Given(p, n)
         /\ \A r \in Players \ {p, q} : bags[n][r] = bag[r]
    <3>1. Lot(p, n) \subseteq Items /\ Lot(q, n) \subseteq Items
      BY Zenon DEF Lot, Bags
    <3>2. QED
      BY <1>1, <1>4, <2>7, <2>9, <3>1 DEF Bags
  <2>11. /\ After(n) \in Bags
         /\ After(n)[p] = (bag[p] \ Offered(p)) \cup Given(q, n)
         /\ After(n)[q] = (bag[q] \ Offered(q)) \cup Given(p, n)
         /\ \A r \in Players \ {p, q} : After(n)[r] = bag[r]
    BY <1>1 DEF After, Bags, Given
  <2>12. \A r \in Players : bags[n][r] = After(n)[r]
    BY <2>10, <2>11, Zenon
  <2>13. QED
    BY <2>10, <2>11, <2>12 DEF Bags
<1> DEFINE Done == {n \in Nat : n <= TradedCount => bags[n] = After(n)}
<1>6. 0 \in Done
  BY <1>1, <1>2, <1>3, Zenon DEF Bags
<1>7. ASSUME NEW n \in Nat, n \in Done PROVE n + 1 \in Done
  <2> SUFFICES ASSUME n + 1 <= TradedCount PROVE bags[n + 1] = After(n + 1)
    OBVIOUS
  <2>1. n + 1 \in 1..TradedCount /\ (n + 1) - 1 = n /\ bags[n] = After(n)
    BY <1>1, <1>7
  <2> HIDE DEF After
  <2>2. QED
    BY <1>5, <2>1
<1> HIDE DEF After
<1>8. Nat \subseteq Done
  BY <1>6, <1>7, Induction, Zenon
<1>9. moveItems(p) = After(TradedCount)
  BY <1>1, <1>2, <1>8
<1>10. QED
  BY <1>3, <1>9, Zenon DEF After

-----------------------------------------------------------------------------
(* Bags, rows and update queues *)

Vote == Votes \cup {NOT_EMITED_YET}

RollsOf(voters) ==
    [playerVote : [voters -> Vote], totalPlayersRolling : Int,
     totalNeed : Int, totalGreed : Int, totalPass : Int]

Rolls == UNION {RollsOf(voters) : voters \in SUBSET Players}

BagsType ==
    /\ online \subseteq Players
    /\ bag \in Bags /\ m_itemUpdateQueue \in Bags /\ dbBag \in Bags
    /\ money \in [Players -> 0..MaxMoney] /\ dbMoney \in [Players -> 0..MaxMoney]

LootType ==
    /\ is_looted \subseteq LootItems /\ is_blocked \subseteq LootItems
    /\ unlootedCount \in 0..255 /\ m_groupLootTimer \in BOOLEAN
    /\ RollId \in [LootItems -> Rolls \cup {NULL}]

\* DiskFollows and OneOwner for bags b and update queues q, strengthened: a
\* queue has only items its player holds in the bag or in a row, and nobody
\* has in the bag what another one has a row for.
Kept(b, q) ==
    /\ \A p \in Players \ online : b[p] = {} /\ q[p] = {}
    /\ \A p \in Players : q[p] \subseteq b[p] \cup dbBag[p]
    /\ \A p \in online : b[p] \ dbBag[p] \subseteq q[p] /\ dbBag[p] \ b[p] \subseteq q[p]
    /\ \A p, r \in Players : p # r => (b[p] \cup dbBag[p]) \cap (b[r] \cup dbBag[r]) = {}

\* Nobody has what is still in the corpse.
Apart(b, looted) == \A p \in Players : (b[p] \cup dbBag[p]) \cap (LootItems \ looted) = {}

ItemsInv ==
    /\ BagsType
    /\ Kept(bag, m_itemUpdateQueue)
    /\ corpse \in {"unopened", "open"} => Apart(bag, is_looted)

\* The update queues q of the players to save have every item whose row is not
\* where the bags b have it, and no row of the others.
Savable(saved, b, q) ==
    /\ \A p \in saved : b[p] \ dbBag[p] \subseteq q[p]
    /\ \A p \in saved : dbBag[p] \ b[p] \subseteq UNION {q[r] : r \in saved}
    /\ \A p \in saved, r \in Players \ saved : q[p] \cap dbBag[r] = {}
    /\ \A p, r \in saved : p # r => q[r] \cap (b[p] \ q[p]) = {}

Saves(saved, b, m, q) ==
    /\ dbBag' = [p \in Players |-> IF p \in saved THEN b[p] ELSE dbBag[p]]
    /\ m_itemUpdateQueue' = [p \in Players |-> IF p \in saved THEN {} ELSE q[p]]
    /\ dbMoney' = [p \in Players |-> IF p \in saved THEN m[p] ELSE dbMoney[p]]

\* One transaction that saves some players: their rows become their bags, and
\* the rows of the others stay.
LEMMA Saved ==
    ASSUME dbBag \in Bags, NEW b \in Bags, NEW q \in Bags, NEW m, NEW saved \in SUBSET Players,
           Savable(saved, b, q), SaveInventoryAndGoldToDB(saved, b, m, q)
    PROVE  Saves(saved, b, m, q)
<1> DEFINE written == UNION {q[r] : r \in saved}
<1>1. ASSUME NEW p \in saved PROVE (dbBag[p] \ written) \cup (q[p] \cap b[p]) = b[p]
  <2>1. q[p] \subseteq written /\ dbBag[p] \ written \subseteq b[p]
    BY DEF Savable
  <2>2. ASSUME NEW i \in b[p], i \notin q[p] PROVE i \in dbBag[p] \ written
    BY <2>2 DEF Savable
  <2>3. QED
    BY <2>1, <2>2, Zenon
<1>2. ASSUME NEW p \in Players \ saved PROVE dbBag[p] \ written = dbBag[p]
  BY DEF Savable
<1>3. \A p \in Players : dbBag'[p] = IF p \in saved THEN b[p] ELSE dbBag[p]
  BY <1>1, <1>2, Zenon DEF SaveInventoryAndGoldToDB
<1>4. dbBag' = [p \in Players |-> dbBag'[p]]
  BY DEF SaveInventoryAndGoldToDB
<1>5. dbBag' = [p \in Players |-> IF p \in saved THEN b[p] ELSE dbBag[p]]
  BY <1>3, <1>4, Zenon
<1>6. QED
  BY <1>5, Zenon DEF SaveInventoryAndGoldToDB, Saves

\* Player::SaveToDB of one player with what the player has.
LEMMA SavedOne ==
    ASSUME BagsType, Kept(bag, m_itemUpdateQueue), NEW p \in online,
           SaveInventoryAndGoldToDB({p}, bag, money, m_itemUpdateQueue)
    PROVE  /\ dbBag' = [r \in Players |-> IF r = p THEN bag[r] ELSE dbBag[r]]
           /\ m_itemUpdateQueue' = [r \in Players |-> IF r = p THEN {} ELSE m_itemUpdateQueue[r]]
           /\ dbMoney' = [r \in Players |-> IF r = p THEN money[r] ELSE dbMoney[r]]
<1>1. p \in Players /\ {p} \in SUBSET Players
  BY Zenon DEF BagsType
<1>2. UNION {m_itemUpdateQueue[r] : r \in {p}} = m_itemUpdateQueue[p]
  BY Zenon
<1>3. /\ \A r \in {p} : bag[r] \ dbBag[r] \subseteq m_itemUpdateQueue[r]
      /\ \A r \in {p} : dbBag[r] \ bag[r] \subseteq UNION {m_itemUpdateQueue[s] : s \in {p}}
      /\ \A r \in {p}, s \in Players \ {p} : m_itemUpdateQueue[r] \cap dbBag[s] = {}
      /\ \A r, s \in {p} : r # s => m_itemUpdateQueue[s] \cap (bag[r] \ m_itemUpdateQueue[r]) = {}
  BY <1>1, <1>2 DEF Kept
<1>4. Savable({p}, bag, m_itemUpdateQueue)
  BY <1>3, Zenon DEF Savable
<1>5. dbBag \in Bags /\ bag \in Bags /\ m_itemUpdateQueue \in Bags
  BY DEF BagsType
<1>6. Saves({p}, bag, money, m_itemUpdateQueue)
  BY <1>1, <1>4, <1>5, Saved, Zenon
<1>7. QED
  BY <1>6 DEF Saves

\* A new item for a player in the world.
LEMMA ItemAdded ==
    ASSUME BagsType, NEW b \in Bags, NEW q \in Bags, NEW looted, Kept(b, q), Apart(b, looted),
           NEW i \in LootItems, i \notin looted, NEW p \in online
    PROVE  LET c == [b EXCEPT ![p] = @ \cup {i}]
               d == [q EXCEPT ![p] = @ \cup {i}]
           IN  c \in Bags /\ d \in Bags /\ Kept(c, d) /\ Apart(c, looted \cup {i})
<1> DEFINE c == [b EXCEPT ![p] = @ \cup {i}]
           d == [q EXCEPT ![p] = @ \cup {i}]
<1>1. p \in Players /\ i \in Items
  BY ItemFlowAssumption DEF BagsType
<1>2. c \in Bags /\ d \in Bags
  BY <1>1 DEF Bags
<1>3. /\ c[p] = b[p] \cup {i} /\ d[p] = q[p] \cup {i}
      /\ \A r \in Players \ {p} : c[r] = b[r] /\ d[r] = q[r]
  BY <1>1, Zenon DEF Bags
<1>4. \A r \in Players : i \notin b[r] \cup dbBag[r]
  BY Zenon DEF Apart
<1> HIDE DEF c, d
<1>5. Kept(c, d)
  <2>1. \A r \in Players \ online : c[r] = {} /\ d[r] = {}
    BY <1>3, Zenon DEF Kept
  <2>2. \A r \in Players : d[r] \subseteq c[r] \cup dbBag[r]
    BY <1>3, Zenon DEF Kept
  <2>3. \A r \in online : c[r] \ dbBag[r] \subseteq d[r] /\ dbBag[r] \ c[r] \subseteq d[r]
    BY <1>3, Zenon DEF Kept, BagsType
  <2>4. ASSUME NEW r \in Players, NEW s \in Players, r # s
        PROVE  (c[r] \cup dbBag[r]) \cap (c[s] \cup dbBag[s]) = {}
    <3>1. (b[r] \cup dbBag[r]) \cap (b[s] \cup dbBag[s]) = {}
      BY <2>4, Zenon DEF Kept
    <3>2. QED
      BY <1>3, <1>4, <2>4, <3>1, Zenon
  <2>5. QED
    BY <2>1, <2>2, <2>3, <2>4, Zenon DEF Kept
<1>6. Apart(c, looted \cup {i})
  BY <1>1, <1>3, Zenon DEF Apart
<1>7. QED
  BY <1>2, <1>5, <1>6, Zenon DEF c, d

\* What a step does to bags, rows and queues: it keeps them together, and apart
\* from a corpse it leaves alone.
ItemsKept ==
    /\ BagsType' /\ Kept(bag, m_itemUpdateQueue)'
    /\ UNCHANGED is_looted /\ Apart(bag, is_looted) => Apart(bag, is_looted)'

LEMMA NothingMoved ==
    ASSUME ItemsInv, UNCHANGED inventory
    PROVE  ItemsKept
  BY Zenon DEF ItemsInv, ItemsKept, BagsType, Kept, Apart, inventory, rows

\* An item in the bag is queued.
LEMMA EquipKeeps ==
    ASSUME ItemsInv, NEW p \in Players, NEW i \in Items, EquipItem(p, i)
    PROVE  ItemsKept
<1>1. /\ p \in online /\ i \in bag[p]
      /\ m_itemUpdateQueue' = [m_itemUpdateQueue EXCEPT ![p] = @ \cup {i}]
      /\ UNCHANGED <<online, bag, money, dbBag, dbMoney>>
  BY Zenon DEF EquipItem, rows
<1>2. BagsType'
  BY <1>1, Zenon DEF ItemsInv, BagsType, Bags
<1>3. /\ m_itemUpdateQueue'[p] = m_itemUpdateQueue[p] \cup {i}
      /\ \A r \in Players \ {p} : m_itemUpdateQueue'[r] = m_itemUpdateQueue[r]
  BY <1>1, Zenon DEF ItemsInv, BagsType, Bags
<1>4. Kept(bag, m_itemUpdateQueue)'
  BY <1>1, <1>3 DEF ItemsInv, BagsType, Kept
<1>5. QED
  BY <1>1, <1>2, <1>4, Zenon DEF ItemsKept, Apart

LEMMA DestroyKeeps ==
    ASSUME ItemsInv, NEW p \in Players, NEW i \in Items, DestroyItem(p, i)
    PROVE  ItemsKept
<1>1. /\ p \in online /\ i \in bag[p] /\ bag' = [bag EXCEPT ![p] = @ \ {i}]
      /\ m_itemUpdateQueue' =
           [m_itemUpdateQueue EXCEPT ![p] = IF i \in dbBag[p] THEN @ \cup {i} ELSE @ \ {i}]
      /\ UNCHANGED <<online, money, dbBag, dbMoney>>
  BY DEF DestroyItem, rows
<1>2. BagsType'
  BY <1>1, Zenon DEF ItemsInv, BagsType, Bags
<1>3. /\ bag'[p] = bag[p] \ {i}
      /\ m_itemUpdateQueue'[p] = IF i \in dbBag[p] THEN m_itemUpdateQueue[p] \cup {i}
                                 ELSE m_itemUpdateQueue[p] \ {i}
      /\ \A r \in Players \ {p} : bag'[r] = bag[r] /\ m_itemUpdateQueue'[r] = m_itemUpdateQueue[r]
  BY <1>1, Zenon DEF ItemsInv, BagsType, Bags
<1>4. \A r \in Players : bag'[r] \subseteq bag[r]
  BY <1>3, Zenon
<1>5. Kept(bag, m_itemUpdateQueue)'
  <2>1. \A r \in Players \ online : bag'[r] = {} /\ m_itemUpdateQueue'[r] = {}
    BY <1>1, <1>3, Zenon DEF ItemsInv, Kept
  <2>2. \A r \in Players : m_itemUpdateQueue'[r] \subseteq bag'[r] \cup dbBag[r]
    <3>1. \A r \in Players : m_itemUpdateQueue[r] \subseteq bag[r] \cup dbBag[r]
      BY Zenon DEF ItemsInv, Kept
    <3>2. m_itemUpdateQueue'[p] \subseteq bag'[p] \cup dbBag[p]
      BY <1>3, <3>1, Zenon
    <3>3. QED
      BY <1>3, <3>1, <3>2, Zenon
  <2>3. \A r \in online : bag'[r] \ dbBag[r] \subseteq m_itemUpdateQueue'[r]
                          /\ dbBag[r] \ bag'[r] \subseteq m_itemUpdateQueue'[r]
    BY <1>3 DEF ItemsInv, BagsType, Kept
  <2>4. \A r, s \in Players : r # s => (bag'[r] \cup dbBag[r]) \cap (bag'[s] \cup dbBag[s]) = {}
    BY <1>4 DEF ItemsInv, Kept
  <2>5. QED
    BY <1>1, <2>1, <2>2, <2>3, <2>4, Zenon DEF Kept
<1>6. QED
  BY <1>1, <1>2, <1>4, <1>5, Zenon DEF ItemsKept, Apart

LEMMA SaveKeeps ==
    ASSUME ItemsInv, NEW p \in Players, SaveToDB(p)
    PROVE  ItemsKept
<1>1. p \in online /\ SaveInventoryAndGoldToDB({p}, bag, money, m_itemUpdateQueue)
      /\ UNCHANGED <<online, bag, money>>
  BY Zenon DEF SaveToDB
<1>2. /\ dbBag' = [r \in Players |-> IF r = p THEN bag[r] ELSE dbBag[r]]
      /\ m_itemUpdateQueue' = [r \in Players |-> IF r = p THEN {} ELSE m_itemUpdateQueue[r]]
      /\ dbMoney' = [r \in Players |-> IF r = p THEN money[r] ELSE dbMoney[r]]
  BY <1>1, SavedOne, Zenon DEF ItemsInv
<1>3. BagsType'
  BY <1>1, <1>2, Zenon DEF ItemsInv, BagsType, Bags
<1>4. /\ dbBag'[p] = bag[p] /\ m_itemUpdateQueue'[p] = {}
      /\ \A r \in Players \ {p} : dbBag'[r] = dbBag[r] /\ m_itemUpdateQueue'[r] = m_itemUpdateQueue[r]
  BY <1>2, Zenon
<1>5. \A r \in Players : bag[r] \cup dbBag'[r] \subseteq bag[r] \cup dbBag[r]
  BY <1>4, Zenon
<1>6. Kept(bag, m_itemUpdateQueue)'
  <2>1. \A r \in Players \ online : bag[r] = {} /\ m_itemUpdateQueue'[r] = {}
    BY <1>4, Zenon DEF ItemsInv, Kept
  <2>2. \A r \in Players : m_itemUpdateQueue'[r] \subseteq bag[r] \cup dbBag'[r]
    BY <1>4, Zenon DEF ItemsInv, Kept
  <2>3. \A r \in online : bag[r] \ dbBag'[r] \subseteq m_itemUpdateQueue'[r]
                          /\ dbBag'[r] \ bag[r] \subseteq m_itemUpdateQueue'[r]
    BY <1>4 DEF ItemsInv, BagsType, Kept
  <2>4. \A r, s \in Players : r # s => (bag[r] \cup dbBag'[r]) \cap (bag[s] \cup dbBag'[s]) = {}
    BY <1>5, Zenon DEF ItemsInv, Kept
  <2>5. QED
    BY <1>1, <2>1, <2>2, <2>3, <2>4, Zenon DEF Kept
<1>7. QED
  BY <1>1, <1>3, <1>5, <1>6, Zenon DEF ItemsKept, Apart


LEMMA LoginKeeps ==
    ASSUME ItemsInv, NEW p \in Players, LoadFromDB(p)
    PROVE  ItemsKept
<1>1. /\ p \notin online /\ online' = online \cup {p}
      /\ bag' = [bag EXCEPT ![p] = dbBag[p]] /\ money' = [money EXCEPT ![p] = dbMoney[p]]
      /\ UNCHANGED <<m_itemUpdateQueue, dbBag, dbMoney>>
  BY DEF LoadFromDB, rows
<1>2. BagsType'
  BY <1>1, Zenon DEF ItemsInv, BagsType, Bags
<1>3. bag'[p] = dbBag[p] /\ \A r \in Players \ {p} : bag'[r] = bag[r]
  BY <1>1, Zenon DEF ItemsInv, BagsType, Bags
<1>4. m_itemUpdateQueue[p] = {}
  BY <1>1, Zenon DEF ItemsInv, Kept
<1>5. \A r \in Players : bag'[r] \cup dbBag[r] \subseteq bag[r] \cup dbBag[r]
  BY <1>3, Zenon
<1>6. Kept(bag, m_itemUpdateQueue)'
  <2>1. \A r \in Players \ online' : bag'[r] = {} /\ m_itemUpdateQueue[r] = {}
    BY <1>1, <1>3 DEF ItemsInv, Kept
  <2>2. \A r \in Players : m_itemUpdateQueue[r] \subseteq bag'[r] \cup dbBag[r]
    BY <1>3, <1>4, Zenon DEF ItemsInv, Kept
  <2>3. \A r \in online' : bag'[r] \ dbBag[r] \subseteq m_itemUpdateQueue[r]
                           /\ dbBag[r] \ bag'[r] \subseteq m_itemUpdateQueue[r]
    BY <1>1, <1>3, Zenon DEF ItemsInv, BagsType, Kept
  <2>4. \A r, s \in Players : r # s => (bag'[r] \cup dbBag[r]) \cap (bag'[s] \cup dbBag[s]) = {}
    BY <1>5, Zenon DEF ItemsInv, Kept
  <2>5. QED
    BY <1>1, <2>1, <2>2, <2>3, <2>4, Zenon DEF Kept
<1>7. QED
  BY <1>1, <1>2, <1>5, <1>6, Zenon DEF ItemsKept, Apart

LEMMA LeaveKeeps ==
    ASSUME ItemsInv, NEW p \in Players, SaveAndLeave(p)
    PROVE  ItemsKept
<1>1. /\ p \in online /\ online' = online \ {p}
      /\ SaveInventoryAndGoldToDB({p}, bag, money, m_itemUpdateQueue)
      /\ bag' = [bag EXCEPT ![p] = {}] /\ money' = [money EXCEPT ![p] = 0]
  BY Zenon DEF SaveAndLeave
<1>2. /\ dbBag' = [r \in Players |-> IF r = p THEN bag[r] ELSE dbBag[r]]
      /\ m_itemUpdateQueue' = [r \in Players |-> IF r = p THEN {} ELSE m_itemUpdateQueue[r]]
      /\ dbMoney' = [r \in Players |-> IF r = p THEN money[r] ELSE dbMoney[r]]
  BY <1>1, SavedOne, Zenon DEF ItemsInv
<1>3. BagsType'
  BY <1>1, <1>2, MoneyAssumption DEF ItemsInv, BagsType, Bags
<1>4. /\ dbBag'[p] = bag[p] /\ m_itemUpdateQueue'[p] = {} /\ bag'[p] = {}
      /\ \A r \in Players \ {p} :
            dbBag'[r] = dbBag[r] /\ m_itemUpdateQueue'[r] = m_itemUpdateQueue[r] /\ bag'[r] = bag[r]
  BY <1>1, <1>2, Zenon DEF ItemsInv, BagsType, Bags
<1>5. \A r \in Players : bag'[r] \cup dbBag'[r] \subseteq bag[r] \cup dbBag[r]
  BY <1>4, Zenon
<1>6. Kept(bag, m_itemUpdateQueue)'
  <2>1. \A r \in Players \ online' : bag'[r] = {} /\ m_itemUpdateQueue'[r] = {}
    BY <1>1, <1>4 DEF ItemsInv, Kept
  <2>2. \A r \in Players : m_itemUpdateQueue'[r] \subseteq bag'[r] \cup dbBag'[r]
    BY <1>4, Zenon DEF ItemsInv, Kept
  <2>3. \A r \in online' : bag'[r] \ dbBag'[r] \subseteq m_itemUpdateQueue'[r]
                           /\ dbBag'[r] \ bag'[r] \subseteq m_itemUpdateQueue'[r]
    BY <1>1, <1>4, Zenon DEF ItemsInv, BagsType, Kept
  <2>4. \A r, s \in Players : r # s => (bag'[r] \cup dbBag'[r]) \cap (bag'[s] \cup dbBag'[s]) = {}
    BY <1>5, Zenon DEF ItemsInv, Kept
  <2>5. QED
    BY <2>1, <2>2, <2>3, <2>4, Zenon DEF Kept
<1>7. QED
  BY <1>3, <1>5, <1>6, Zenon DEF ItemsKept, Apart

LEMMA CrashKeeps ==
    ASSUME ItemsInv, LoseMemory
    PROVE  ItemsKept
<1>1. /\ online' = {} /\ UNCHANGED <<dbBag, dbMoney>>
      /\ bag' = [r \in Players |-> {}] /\ m_itemUpdateQueue' = [r \in Players |-> {}]
      /\ money' = [r \in Players |-> 0]
  BY DEF LoseMemory, rows
<1>2. BagsType'
  BY <1>1, MoneyAssumption DEF ItemsInv, BagsType, Bags
<1>3. Kept(bag, m_itemUpdateQueue)'
  BY <1>1, Zenon DEF ItemsInv, Kept
<1>4. QED
  BY <1>1, <1>2, <1>3, Zenon DEF ItemsKept, Apart

\* The exchange, seen from both sides.
Exchanged(p, q) ==
    /\ bag' \in Bags
    /\ bag'[p] = (bag[p] \ Offered(p)) \cup Offered(q)
    /\ bag'[q] = (bag[q] \ Offered(q)) \cup Offered(p)
    /\ \A r \in Players \ {p, q} : bag'[r] = bag[r]

LEMMA TradeExchanges ==
    ASSUME TradeInv, BagsType, NEW p \in Players, AcceptCompletes(p)
    PROVE  /\ m_trade[p] # NULL /\ Trader(p) \in Players /\ Trader(p) # p
           /\ Exchanged(p, Trader(p))
<1>1. m_trade[p] # NULL /\ ItemsFit(p) /\ bag' = moveItems(p)
  BY Zenon DEF AcceptCompletes, AcceptSecond, IsTrading
<1>2. PICK q \in Players : q = Trader(p) /\ q # p
  BY <1>1, Partners, Zenon
<1>3. bag' = [bag EXCEPT ![p] = (@ \ Offered(p)) \cup Offered(q),
                         ![q] = (@ \ Offered(q)) \cup Offered(p)]
  BY <1>1, <1>2, MoveItemsExact, Zenon DEF BagsType
<1>4. Offered(p) \subseteq Items /\ Offered(q) \subseteq Items
  BY Zenon DEF Offered, BagsType, Bags
<1>5. Exchanged(p, q)
  BY <1>2, <1>3, <1>4 DEF Exchanged, BagsType, Bags
<1>6. QED
  BY <1>1, <1>2, <1>5, Zenon


LEMMA ModifyMoneyType ==
    ASSUME NEW m \in 0..MaxMoney, NEW d \in Int
    PROVE  ModifyMoney(m, d) \in 0..MaxMoney
BY MoneyAssumption DEF ModifyMoney

\* One purse pays what is in it and gets some money.
LEMMA PurseExact ==
    ASSUME NEW m \in 0..MaxMoney, NEW mine \in Nat, NEW theirs \in Nat, m >= mine
    PROVE  LET n == ModifyMoney(ModifyMoney(m, -mine), theirs)
           IN  \/ n = m - mine + theirs
               \/ n = MaxMoney /\ n < m - mine + theirs
<1>1. ModifyMoney(m, -mine) = m - mine
  BY MoneyAssumption DEF ModifyMoney
<1>2. QED
  BY <1>1, MoneyAssumption DEF ModifyMoney

LEMMA MovedMoneyIs ==
    ASSUME TradeInv, BagsType, NEW p \in Players, m_trade[p] # NULL,
           NEW q \in Players, q = Trader(p)
    PROVE  /\ MovedMoney(p) \in [Players -> 0..MaxMoney]
           /\ MovedMoney(p)[p] =
                ModifyMoney(ModifyMoney(money[p], -m_trade[p].money), m_trade[q].money)
           /\ MovedMoney(p)[q] =
                ModifyMoney(ModifyMoney(money[q], -m_trade[q].money), m_trade[p].money)
<1> DEFINE x == ModifyMoney(ModifyMoney(money[p], -m_trade[p].money), m_trade[q].money)
           y == ModifyMoney(ModifyMoney(money[q], -m_trade[q].money), m_trade[p].money)
<1>1. q # p /\ m_trade[p].money \in Nat /\ m_trade[q].money \in Nat
  BY Partners, TradeAssumption DEF TradeData
<1>2. money[p] \in 0..MaxMoney /\ money[q] \in 0..MaxMoney
  BY DEF BagsType
<1>3. x \in 0..MaxMoney /\ y \in 0..MaxMoney
  <2>1. \A n \in Nat : n \in Int /\ -n \in Int
    OBVIOUS
  <2>2. /\ ModifyMoney(money[p], -m_trade[p].money) \in 0..MaxMoney
        /\ ModifyMoney(money[q], -m_trade[q].money) \in 0..MaxMoney
    BY <1>1, <1>2, <2>1, ModifyMoneyType, Zenon
  <2>3. QED
    BY <1>1, <2>1, <2>2, ModifyMoneyType, Zenon
<1>4. MovedMoney(p) = [money EXCEPT ![p] = x, ![q] = y]
  BY <1>1, Zenon DEF MovedMoney, BagsType
<1> HIDE DEF x, y
<1>5. MovedMoney(p) \in [Players -> 0..MaxMoney] /\ MovedMoney(p)[p] = x /\ MovedMoney(p)[q] = y
  BY <1>1, <1>3, <1>4, Zenon DEF BagsType
<1>6. QED
  BY <1>5, Zenon DEF x, y

\* Both players of a trade that completes are saved in one transaction, and
\* with it the rows of the items that went from one to the other.
LEMMA TradeKeeps ==
    ASSUME TradeInv, ItemsInv, NEW p \in Players, AcceptCompletes(p)
    PROVE  ItemsKept
<1>1. PICK q \in Players : q = Trader(p) /\ q # p
  BY TradeExchanges DEF ItemsInv
<1>2. PICK A, B : A = Offered(p) /\ B = Offered(q) /\ A \subseteq bag[p] /\ B \subseteq bag[q]
  BY Zenon DEF Offered
<1>3. PICK b \in Bags :
        /\ b = bag'
        /\ b[p] = (bag[p] \ A) \cup B /\ b[q] = (bag[q] \ B) \cup A
        /\ \A r \in Players \ {p, q} : b[r] = bag[r]
  BY <1>1, <1>2, TradeExchanges, Zenon DEF Exchanged, ItemsInv
<1>4. /\ p \in online /\ q \in online /\ m_trade[p] # NULL /\ UNCHANGED online
      /\ SaveInventoryAndGoldToDB({p, q}, b, money', MovedQueue(p, b))
      /\ money' = MovedMoney(p)
  <2>1. m_trade[p] # NULL /\ p \in online
    BY DEF AcceptCompletes, AcceptSecond, IsTrading
  <2>2. q \in online
    BY <1>1, <2>1, Zenon DEF TradeInv, TradeIsMutual
  <2>3. QED
    BY <1>1, <1>3, <2>1, <2>2, Zenon DEF AcceptCompletes
<1>5. /\ bag[p] \cap bag[q] = {} /\ bag[p] \cap dbBag[q] = {} /\ dbBag[p] \cap bag[q] = {}
      /\ dbBag[p] \cap dbBag[q] = {}
      /\ \A r \in Players \ {p, q} : /\ (bag[p] \cup dbBag[p]) \cap (bag[r] \cup dbBag[r]) = {}
                                     /\ (bag[q] \cup dbBag[q]) \cap (bag[r] \cup dbBag[r]) = {}
  BY <1>1, Zenon DEF ItemsInv, Kept
<1>6. /\ m_itemUpdateQueue[p] \subseteq bag[p] \cup dbBag[p]
      /\ m_itemUpdateQueue[q] \subseteq bag[q] \cup dbBag[q]
      /\ bag[p] \ dbBag[p] \subseteq m_itemUpdateQueue[p] /\ dbBag[p] \ bag[p] \subseteq m_itemUpdateQueue[p]
      /\ bag[q] \ dbBag[q] \subseteq m_itemUpdateQueue[q] /\ dbBag[q] \ bag[q] \subseteq m_itemUpdateQueue[q]
  BY <1>4, Zenon DEF ItemsInv, Kept
<1>7. PICK mq \in Bags :
        /\ mq = MovedQueue(p, b)
        /\ mq[p] = (m_itemUpdateQueue[p] \ (A \cup B)) \cup B
        /\ mq[q] = (m_itemUpdateQueue[q] \ (A \cup B)) \cup A
        /\ \A r \in Players \ {p, q} : mq[r] = m_itemUpdateQueue[r]
  <2>1. (A \cup B) \cap b[p] = B /\ (A \cup B) \cap b[q] = A
    BY <1>2, <1>3, <1>5, Zenon
  <2>2. /\ MovedQueue(p, b)[p] = (m_itemUpdateQueue[p] \ (A \cup B)) \cup ((A \cup B) \cap b[p])
        /\ MovedQueue(p, b)[q] = (m_itemUpdateQueue[q] \ (A \cup B)) \cup ((A \cup B) \cap b[q])
        /\ \A r \in Players \ {p, q} : MovedQueue(p, b)[r] = m_itemUpdateQueue[r]
    BY <1>1, <1>2, Zenon DEF MovedQueue
  <2>3. MovedQueue(p, b) \in Bags
    <3>1. A \cup B \subseteq Items
      BY <1>2 DEF ItemsInv, BagsType, Bags
    <3>2. QED
      BY <1>1, <1>2, <3>1, Zenon DEF MovedQueue, ItemsInv, BagsType, Bags
  <2>4. QED
    BY <2>1, <2>2, <2>3, Zenon
<1>8. /\ dbBag' = [r \in Players |-> IF r \in {p, q} THEN b[r] ELSE dbBag[r]]
      /\ m_itemUpdateQueue' = [r \in Players |-> IF r \in {p, q} THEN {} ELSE mq[r]]
      /\ dbMoney' = [r \in Players |-> IF r \in {p, q} THEN money'[r] ELSE dbMoney[r]]
  <2>1. b[p] \ dbBag[p] \subseteq mq[p] /\ b[q] \ dbBag[q] \subseteq mq[q]
    BY <1>2, <1>3, <1>5, <1>6, <1>7, Zenon
  <2>2. dbBag[p] \ b[p] \subseteq mq[p] \cup mq[q] /\ dbBag[q] \ b[q] \subseteq mq[p] \cup mq[q]
    BY <1>2, <1>3, <1>5, <1>6, <1>7, Zenon
  <2>3. UNION {mq[r] : r \in {p, q}} = mq[p] \cup mq[q]
    OBVIOUS
  <2>4. \A r \in Players \ {p, q} : mq[p] \cap dbBag[r] = {} /\ mq[q] \cap dbBag[r] = {}
    BY <1>2, <1>5, <1>6, <1>7, Zenon
  <2>5. mq[q] \cap (b[p] \ mq[p]) = {} /\ mq[p] \cap (b[q] \ mq[q]) = {}
    BY <1>2, <1>3, <1>5, <1>6, <1>7
  <2>6. /\ \A r \in {p, q} : b[r] \ dbBag[r] \subseteq mq[r]
        /\ \A r \in {p, q} : dbBag[r] \ b[r] \subseteq UNION {mq[s] : s \in {p, q}}
        /\ \A r \in {p, q}, s \in Players \ {p, q} : mq[r] \cap dbBag[s] = {}
        /\ \A r, s \in {p, q} : r # s => mq[s] \cap (b[r] \ mq[r]) = {}
    <3>1. \A r \in {p, q} : b[r] \ dbBag[r] \subseteq mq[r]
      BY <2>1
    <3>2. \A r \in {p, q} : dbBag[r] \ b[r] \subseteq UNION {mq[s] : s \in {p, q}}
      BY Zenon, <2>2, <2>3
    <3>3. \A r \in {p, q}, s \in Players \ {p, q} : mq[r] \cap dbBag[s] = {}
      BY <2>4, Zenon
    <3>4. \A r, s \in {p, q} : r # s => mq[s] \cap (b[r] \ mq[r]) = {}
      BY <2>5
    <3>5. QED
      BY <3>1, <3>2, <3>3, <3>4, Zenon
  <2>7. SaveInventoryAndGoldToDB({p, q}, b, money', mq) /\ {p, q} \in SUBSET Players
        /\ dbBag \in Bags /\ b \in Bags /\ mq \in Bags
    BY <1>3, <1>4, <1>7, Zenon DEF ItemsInv, BagsType
  <2>8. Savable({p, q}, b, mq)
    BY <2>6, Zenon DEF Savable
  <2>9. Saves({p, q}, b, money', mq)
    BY <2>7, <2>8, Saved, Zenon
  <2>10. QED
    BY <2>9, Zenon DEF Saves
<1>9. BagsType'
  <2>1. money' \in [Players -> 0..MaxMoney]
    BY <1>1, <1>4, MovedMoneyIs, Zenon DEF ItemsInv
  <2>2. dbMoney' \in [Players -> 0..MaxMoney]
    BY <1>8, <2>1, Zenon DEF ItemsInv, BagsType
  <2>3. QED
    BY <1>3, <1>4, <1>8, <2>1, <2>2, Zenon DEF ItemsInv, BagsType, Bags
<1>10. /\ dbBag'[p] = b[p] /\ dbBag'[q] = b[q]
       /\ m_itemUpdateQueue'[p] = {} /\ m_itemUpdateQueue'[q] = {}
       /\ \A r \in Players \ {p, q} :
             dbBag'[r] = dbBag[r] /\ m_itemUpdateQueue'[r] = m_itemUpdateQueue[r]
  BY <1>7, <1>8
<1>11. Kept(bag, m_itemUpdateQueue)'
  <2> DEFINE Row(r) == /\ b[r] = bag[r] /\ dbBag'[r] = dbBag[r]
                       /\ m_itemUpdateQueue'[r] = m_itemUpdateQueue[r]
             Written(r) == dbBag'[r] = b[r] /\ m_itemUpdateQueue'[r] = {}
  <2>0. \A r \in Players : Row(r) \/ (Written(r) /\ r \in online)
    BY <1>3, <1>4, <1>10, Zenon
  <2>1. \A r \in Players \ online : b[r] = {} /\ m_itemUpdateQueue'[r] = {}
    BY <2>0, Zenon DEF ItemsInv, Kept
  <2>2. \A r \in Players : m_itemUpdateQueue'[r] \subseteq b[r] \cup dbBag'[r]
    <3>1. \A r \in Players : m_itemUpdateQueue[r] \subseteq bag[r] \cup dbBag[r]
      BY Zenon DEF ItemsInv, Kept
    <3>2. QED
      BY <2>0, <3>1, Zenon
  <2>3. \A r \in online : b[r] \ dbBag'[r] \subseteq m_itemUpdateQueue'[r]
                          /\ dbBag'[r] \ b[r] \subseteq m_itemUpdateQueue'[r]
    <3>1. \A r \in online : r \in Players /\ bag[r] \ dbBag[r] \subseteq m_itemUpdateQueue[r]
                            /\ dbBag[r] \ bag[r] \subseteq m_itemUpdateQueue[r]
      BY DEF ItemsInv, BagsType, Kept
    <3>2. QED
      BY <2>0, <3>1, Zenon
  <2> HIDE DEF Row, Written
  <2>4. b[p] \cap b[q] = {}
    BY <1>2, <1>3, <1>5, Zenon
  <2>5. \A r \in Players \ {p, q} : b[p] \cap (bag[r] \cup dbBag[r]) = {}
                                    /\ b[q] \cap (bag[r] \cup dbBag[r]) = {}
    BY <1>2, <1>3, <1>5, Zenon
  <2>6. \A r, s \in Players \ {p, q} : r # s =>
          (b[r] \cup dbBag'[r]) \cap (b[s] \cup dbBag'[s]) = {}
    BY <1>3, <1>10 DEF ItemsInv, Kept
  <2>7. \A r \in Players \ {p, q} : b[r] \cup dbBag'[r] = bag[r] \cup dbBag[r]
    BY <1>3, <1>10, Zenon
  <2>8. b[p] \cup dbBag'[p] = b[p] /\ b[q] \cup dbBag'[q] = b[q]
    BY <1>10, Zenon
  <2>9. \A r, s \in Players : r # s => (b[r] \cup dbBag'[r]) \cap (b[s] \cup dbBag'[s]) = {}
    BY <2>4, <2>5, <2>6, <2>7, <2>8, Zenon
  <2>10. QED
    BY <1>3, <1>4, <2>1, <2>2, <2>3, <2>9, Zenon DEF Kept
<1>12. ASSUME UNCHANGED is_looted, Apart(bag, is_looted) PROVE Apart(bag, is_looted)'
  <2>1. \A r \in Players : b[r] \cup dbBag'[r] \subseteq bag[r] \cup dbBag[r] \cup bag[p] \cup bag[q]
    BY <1>2, <1>3, <1>10, Zenon
  <2>2. QED
    BY <1>3, <1>12, <2>1, Zenon DEF Apart
<1>13. QED
  BY <1>9, <1>11, <1>12, Zenon DEF ItemsKept


-----------------------------------------------------------------------------
(* Rolls *)

\* What a roll changes, as a record of its parts.
State(b, q, looted, blocked, unlooted, rolls) ==
    [bag |-> b, queue |-> q, looted |-> looted, blocked |-> blocked,
     unlooted |-> unlooted, rolls |-> rolls]

States ==
    [bag : Bags, queue : Bags, looted : SUBSET LootItems, blocked : SUBSET LootItems,
     unlooted : 0..255, rolls : [LootItems -> Rolls \cup {NULL}]]

\* A record in which items are kept together and apart from the corpse.
KeptIn(now) == now \in States /\ Kept(now.bag, now.queue) /\ Apart(now.bag, now.looted)

\* What the end of the roll for an item may do.
Ended(now, then, i) ==
    /\ then.rolls = [now.rolls EXCEPT ![i] = NULL]
    /\ now.blocked \ {i} \subseteq then.blocked
    /\ then.looted \subseteq now.looted \cup {i}

LEMMA Parts ==
    ASSUME NEW now \in States
    PROVE  now = State(now.bag, now.queue, now.looted, now.blocked, now.unlooted, now.rolls)
BY Zenon DEF States, State

LEMMA StateParts ==
    ASSUME NEW b, NEW q, NEW l, NEW k, NEW u, NEW r
    PROVE  /\ State(b, q, l, k, u, r).bag = b /\ State(b, q, l, k, u, r).queue = q
           /\ State(b, q, l, k, u, r).looted = l /\ State(b, q, l, k, u, r).blocked = k
           /\ State(b, q, l, k, u, r).rolls = r
BY Zenon DEF State

LEMMA StateType ==
    ASSUME NEW b \in Bags, NEW q \in Bags, NEW l \in SUBSET LootItems, NEW k \in SUBSET LootItems,
           NEW u \in 0..255, NEW r \in [LootItems -> Rolls \cup {NULL}]
    PROVE  State(b, q, l, k, u, r) \in States
BY DEF State, States

LEMMA KeptState ==
    ASSUME NEW b \in Bags, NEW q \in Bags, NEW l \in SUBSET LootItems, NEW k \in SUBSET LootItems,
           NEW u \in 0..255, NEW r \in [LootItems -> Rolls \cup {NULL}],
           Kept(b, q), Apart(b, l)
    PROVE  KeptIn(State(b, q, l, k, u, r))
<1>1. State(b, q, l, k, u, r) \in States
  BY StateType, Zenon
<1>2. /\ State(b, q, l, k, u, r).bag = b /\ State(b, q, l, k, u, r).queue = q
      /\ State(b, q, l, k, u, r).looted = l
  BY DEF State
<1>3. QED
  BY <1>1, <1>2, Zenon DEF KeptIn

LEMMA RemoveItemIs ==
    ASSUME NEW b, NEW q, NEW l, NEW k, NEW u, NEW r, NEW i, NEW now, now = State(b, q, l, k, u, r)
    PROVE  RemoveItem(now, i) = State(b, q, l \cup {i}, k, (u - 1) % 256, r)
<1>1. PICK x, n : x = l \cup {i} /\ n = (u - 1) % 256
  BY Zenon
<1>2. now.looted = l /\ now.unlooted = u
  BY DEF State
<1>3. RemoveItem(now, i) = [now EXCEPT !.looted = x, !.unlooted = n]
  BY Zenon, <1>1, <1>2 DEF RemoveItem
<1>4. PICK t : t = [now EXCEPT !.looted = x]
  BY Zenon
<1>5. t = State(b, q, x, k, u, r)
  BY <1>4 DEF State
<1>6. [now EXCEPT !.looted = x, !.unlooted = n] = [t EXCEPT !.unlooted = n]
  BY <1>4
<1>7. [t EXCEPT !.unlooted = n] = State(b, q, x, k, n, r)
  BY <1>5 DEF State
<1>8. QED
  BY <1>1, <1>3, <1>6, <1>7, Zenon

LEMMA StoreNewItemIs ==
    ASSUME NEW b \in Bags, NEW q \in Bags, NEW l, NEW k, NEW u, NEW r, NEW i, NEW p \in Players,
           NEW now, now = State(b, q, l, k, u, r)
    PROVE  StoreNewItem(now, i, p) =
             State([b EXCEPT ![p] = @ \cup {i}], [q EXCEPT ![p] = @ \cup {i}],
                   l \cup {i}, k, (u - 1) % 256, r)
<1>1. PICK x, n, c, d :
        /\ x = l \cup {i} /\ n = (u - 1) % 256
        /\ c = [b EXCEPT ![p] = @ \cup {i}] /\ d = [q EXCEPT ![p] = @ \cup {i}]
  BY Zenon
<1>2. PICK s : s = RemoveItem(now, i) /\ s = State(b, q, x, k, n, r)
  BY <1>1, RemoveItemIs
<1>3. s.bag = b /\ s.queue = q
  BY <1>2 DEF State
<1>4. PICK t : t = [s EXCEPT !.bag = c]
  BY Zenon
<1>5. t = State(c, q, x, k, n, r)
  BY <1>2, <1>4 DEF State
<1>6. [t EXCEPT !.queue = d] = State(c, d, x, k, n, r)
  BY <1>5 DEF State
<1>7. StoreNewItem(now, i, p) = [s EXCEPT !.bag[p] = @ \cup {i}, !.queue[p] = @ \cup {i}]
  BY <1>2 DEF StoreNewItem
<1>8. [s EXCEPT !.bag[p] = @ \cup {i}, !.queue[p] = @ \cup {i}] = [s EXCEPT !.bag = c, !.queue = d]
  BY <1>1, <1>3, Zenon
<1>9. QED
  BY <1>1, <1>4, <1>6, <1>7, <1>8, Zenon

LEMMA Uint8 ==
    ASSUME NEW u \in 0..255
    PROVE  (u - 1) % 256 \in 0..255
OBVIOUS

\* The item goes to a winner in the world, or there is no room for it.
LEMMA Awarded ==
    ASSUME BagsType, NEW now, KeptIn(now), NEW i \in LootItems, i \notin now.looted,
           NEW winner \in online
    PROVE  /\ KeptIn(Award(now, i, winner))
           /\ Award(now, i, winner).rolls = now.rolls
           /\ now.blocked \ {i} \subseteq Award(now, i, winner).blocked
           /\ Award(now, i, winner).looted \subseteq now.looted \cup {i}
<1>1. PICK b, q, l, k, u, r :
        /\ now = State(b, q, l, k, u, r)
        /\ b \in Bags /\ q \in Bags /\ l \subseteq LootItems /\ k \subseteq LootItems
        /\ u \in 0..255 /\ r \in [LootItems -> Rolls \cup {NULL}]
        /\ Kept(b, q) /\ Apart(b, l) /\ i \notin l
        /\ now.blocked = k /\ now.looted = l /\ now.rolls = r
  BY Parts DEF KeptIn, States
<1>2. CASE CanStoreNewItem(now, i, winner)
  <2> DEFINE c == [b EXCEPT ![winner] = @ \cup {i}]
             d == [q EXCEPT ![winner] = @ \cup {i}]
  <2>1. c \in Bags /\ d \in Bags /\ Kept(c, d) /\ Apart(c, l \cup {i})
    BY <1>1, ItemAdded, Zenon
  <2>2. Award(now, i, winner) = State(c, d, l \cup {i}, k, (u - 1) % 256, r)
    <3>1. winner \in Players
      BY DEF BagsType
    <3>2. Award(now, i, winner) = StoreNewItem(now, i, winner)
      BY <1>2 DEF Award
    <3>3. QED
      BY <1>1, <3>1, <3>2, StoreNewItemIs
  <2>3. (u - 1) % 256 \in 0..255
    BY <1>1, Uint8, Zenon
  <2> HIDE DEF c, d
  <2>4. QED
    <3>1. PICK m, n : m = l \cup {i} /\ n = (u - 1) % 256
      BY Zenon
    <3>2. m \in SUBSET LootItems /\ k \in SUBSET LootItems /\ n \in 0..255
      BY <1>1, <2>3, <3>1, Zenon
    <3>3. Apart(c, m)
      BY <2>1, <3>1, Zenon
    <3>4. KeptIn(State(c, d, m, k, n, r))
      BY <1>1, <2>1, <3>2, <3>3, KeptState, Zenon
    <3>5. Award(now, i, winner) = State(c, d, m, k, n, r)
      BY <2>2, <3>1, Zenon
    <3>6. /\ State(c, d, m, k, n, r).rolls = r /\ State(c, d, m, k, n, r).blocked = k
          /\ State(c, d, m, k, n, r).looted = m
      BY DEF State
    <3>7. KeptIn(Award(now, i, winner))
      BY <3>4, <3>5, Zenon
    <3>8. /\ Award(now, i, winner).rolls = r /\ Award(now, i, winner).blocked = k
          /\ Award(now, i, winner).looted = m
      BY <3>5, <3>6, Zenon
    <3>9. now.blocked \ {i} \subseteq k /\ m = now.looted \cup {i} /\ r = now.rolls
      BY <1>1, <3>1, Zenon
    <3>10. QED
      BY <3>7, <3>8, <3>9, Zenon
<1>3. CASE ~CanStoreNewItem(now, i, winner)
  <2>1. Award(now, i, winner) = State(b, q, l, k \ {i}, u, r)
    BY <1>1, <1>3 DEF Award, State
  <2>2. PICK m \in SUBSET LootItems : m = k \ {i}
    BY <1>1, Zenon
  <2>3. l \in SUBSET LootItems
    BY <1>1
  <2>4. KeptIn(State(b, q, l, m, u, r))
    BY <1>1, <2>2, <2>3, KeptState, Zenon
  <2>5. Award(now, i, winner) = State(b, q, l, m, u, r)
    BY <2>1, <2>2, Zenon
  <2>6. /\ State(b, q, l, m, u, r).rolls = r /\ State(b, q, l, m, u, r).blocked = m
        /\ State(b, q, l, m, u, r).looted = l
    BY DEF State
  <2>7. QED
    BY <1>1, <2>2, <2>4, <2>5, <2>6, Zenon
<1>4. QED
  BY <1>2, <1>3, Zenon

\* Group::CountTheRoll: whoever wins, the roll is over and nothing gets lost.
LEMMA Counted ==
    ASSUME BagsType, NEW now, KeptIn(now), NEW i \in LootItems, i \notin now.looted,
           NEW roll, roll.totalNeed \in Nat, roll.totalGreed \in Nat, NEW winner
    PROVE  KeptIn(CountTheRoll(now, i, roll, winner))
           /\ Ended(now, CountTheRoll(now, i, roll, winner), i)
<1> DEFINE ended == [now EXCEPT !.rolls[i] = NULL]
           result == CountTheRoll(now, i, roll, winner)
<1>1. PICK b, q, l, k, u, r :
        /\ now = State(b, q, l, k, u, r)
        /\ b \in Bags /\ q \in Bags /\ l \subseteq LootItems /\ k \subseteq LootItems
        /\ u \in 0..255 /\ r \in [LootItems -> Rolls \cup {NULL}]
        /\ Kept(b, q) /\ Apart(b, l) /\ i \notin l
        /\ now.blocked = k /\ now.looted = l /\ now.rolls = r
  BY Parts DEF KeptIn, States
<1>2. PICK e \in [LootItems -> Rolls \cup {NULL}] : e = [r EXCEPT ![i] = NULL]
  BY <1>1, Zenon
<1>3. ended = State(b, q, l, k, u, e)
  BY <1>1, <1>2 DEF State
<1>4. KeptIn(ended) /\ ended.looted = l /\ ended.blocked = k /\ ended.rolls = e
  BY <1>1, <1>2, <1>3 DEF KeptIn, States, State
<1>5. \/ result = [ended EXCEPT !.blocked = @ \ {i}]
      \/ result = ended
      \/ winner \in online /\ result = Award(ended, i, winner)
      \/ result = RemoveItem(ended, i)
  BY DEF CountTheRoll
<1> HIDE DEF ended, result
<1>6. CASE result = [ended EXCEPT !.blocked = @ \ {i}]
  <2>1. result = State(b, q, l, k \ {i}, u, e)
    BY <1>3, <1>6, Zenon DEF State
  <2>2. QED
    <3>1. KeptIn(result)
      <4>1. PICK m \in SUBSET LootItems : m = k \ {i}
        BY <1>1, Zenon
      <4>2. l \in SUBSET LootItems
        BY <1>1
      <4>3. KeptIn(State(b, q, l, m, u, e))
        BY <1>1, <1>2, <4>1, <4>2, KeptState, Zenon
      <4>4. QED
        BY <2>1, <4>1, <4>3, Zenon
    <3>2. Ended(now, result, i)
      <4>1. result.rolls = e /\ result.looted = l /\ result.blocked = k \ {i}
        BY <2>1 DEF State
      <4>2. QED
        BY <1>1, <1>2, <4>1, Zenon DEF Ended
    <3>3. QED
      BY <3>1, <3>2 DEF result
<1>7. CASE result = ended
  BY <1>1, <1>2, <1>4, <1>7, Zenon DEF Ended, result
<1>8. CASE winner \in online /\ result = Award(ended, i, winner)
  <2>1. /\ KeptIn(result) /\ result.rolls = e
        /\ k \ {i} \subseteq result.blocked /\ result.looted \subseteq l \cup {i}
    <3>1. winner \in online /\ i \notin ended.looted /\ KeptIn(ended) /\ BagsType
      BY <1>1, <1>4, <1>8, Zenon
    <3>2. QED
      BY <1>4, <1>8, <3>1, Awarded
  <2>2. Ended(now, result, i)
    BY <1>1, <1>2, <2>1, Zenon DEF Ended
  <2>3. QED
    BY <2>1, <2>2, Zenon DEF result
<1>9. CASE result = RemoveItem(ended, i)
  <2>1. result = State(b, q, l \cup {i}, k, (u - 1) % 256, e)
    BY <1>3, <1>9, RemoveItemIs
  <2>2. (u - 1) % 256 \in 0..255
    BY <1>1, Uint8, Zenon
  <2>3. Apart(b, l \cup {i})
    BY <1>1 DEF Apart
  <2>4. KeptIn(result)
    <3>1. PICK m, n : m = l \cup {i} /\ n = (u - 1) % 256
      BY Zenon
    <3>2. m \in SUBSET LootItems /\ k \in SUBSET LootItems /\ n \in 0..255
      BY <1>1, <2>2, <3>1, Zenon
    <3>3. Apart(b, m)
      BY <2>3, <3>1, Zenon
    <3>4. KeptIn(State(b, q, m, k, n, e))
      BY <1>1, <1>2, <3>2, <3>3, KeptState, Zenon
    <3>5. QED
      BY <2>1, <3>1, <3>4, Zenon
  <2>5. Ended(now, result, i)
    <3>1. result.rolls = e /\ result.looted = l \cup {i} /\ result.blocked = k
      BY <2>1, Zenon DEF State
    <3>2. QED
      BY <1>1, <1>2, <3>1, Zenon DEF Ended
  <2>6. QED
    BY <2>4, <2>5 DEF result
<1>10. QED
  BY <1>5, <1>6, <1>7, <1>8, <1>9, Zenon


\* Every open roll has sound totals, and nothing is taken before the corpse is open.
RollsInv ==
    /\ LootType /\ RollIsSound
    /\ corpse = "unopened" => is_looted = {}

\* The kinds of votes the totals count.
Need == {"NEED"}
Greed == {"GREED", "DISENCHANT"}
Pass == {"PASS"}

\* A roll whose totals cover its votes.
SoundRoll(roll) ==
    /\ roll.totalPlayersRolling = Cardinality(DOMAIN roll.playerVote)
    /\ roll.totalNeed >= Cardinality(Voters(roll, Need))
    /\ roll.totalGreed >= Cardinality(Voters(roll, Greed))
    /\ roll.totalPass >= Cardinality(Voters(roll, Pass))

LEMMA SoundIs ==
    RollIsSound <=> \A i \in LootItems : RollId[i] # NULL =>
                        i \in is_blocked \ is_looted /\ SoundRoll(RollId[i])
BY DEF RollIsSound, SoundRoll, Need, Greed, Pass

LEMMA RollParts ==
    ASSUME NEW roll \in Rolls
    PROVE  /\ DOMAIN roll.playerVote \subseteq Players
           /\ roll.playerVote \in [DOMAIN roll.playerVote -> Vote]
           /\ IsFiniteSet(DOMAIN roll.playerVote)
           /\ roll.totalPlayersRolling \in Int /\ roll.totalNeed \in Int
           /\ roll.totalGreed \in Int /\ roll.totalPass \in Int
<1>1. PICK voters \in SUBSET Players : roll \in RollsOf(voters)
  BY Zenon DEF Rolls
<1>2. IsFiniteSet(voters)
  BY ItemFlowAssumption, FS_Subset, Zenon
<1>3. QED
  BY <1>1, <1>2 DEF RollsOf

\* The totals that decide a roll are no negative numbers.
LEMMA TotalsAreNat ==
    ASSUME NEW roll \in Rolls, SoundRoll(roll)
    PROVE  roll.totalNeed \in Nat /\ roll.totalGreed \in Nat
<1>1. ASSUME NEW kinds PROVE Cardinality(Voters(roll, kinds)) \in Nat
  BY RollParts, FS_Subset, FS_CardinalityType, Zenon DEF Voters
<1>2. QED
  BY <1>1, RollParts DEF SoundRoll

\* Who of the players in D cast a vote of some kinds.
Cast(D, f, kinds) == {r \in D : f[r] \in kinds}

\* The votes f and g of the players in D differ at most in the one of p.
AgreeBut(p, D, f, g) == \A r \in D \ {p} : g[r] = f[r]

\* One vote of f changes, and the total of a kind of votes counts it if it is of that kind.
LEMMA VoteCounted ==
    ASSUME NEW D, IsFiniteSet(D), NEW p \in D, NEW f, NEW g, NEW kinds,
           AgreeBut(p, D, f, g),
           NEW n \in Int, n >= Cardinality(Cast(D, f, kinds))
    PROVE  (IF g[p] \in kinds THEN n + 1 ELSE n) >= Cardinality(Cast(D, g, kinds))
<1> DEFINE old == Cast(D, f, kinds)
           new == Cast(D, g, kinds)
<1>1. IsFiniteSet(old) /\ IsFiniteSet(new)
  BY FS_Subset, Zenon DEF Cast
<1>2. Cardinality(old) \in Nat /\ Cardinality(new) \in Nat
  BY <1>1, FS_CardinalityType, Zenon
<1>3. CASE g[p] \in kinds
  <2>1. new \subseteq old \cup {p}
    BY Zenon DEF AgreeBut, Cast
  <2>2. IsFiniteSet(old \cup {p}) /\ Cardinality(old \cup {p}) \in Nat
        /\ Cardinality(old \cup {p}) <= Cardinality(old) + 1
    <3>1. IsFiniteSet(old \cup {p})
          /\ Cardinality(old \cup {p}) = IF p \in old THEN Cardinality(old) ELSE Cardinality(old) + 1
      BY <1>1, FS_AddElement, Zenon
    <3>2. QED
      BY <1>2, <3>1
  <2>3. Cardinality(new) <= Cardinality(old \cup {p})
    BY <2>1, <2>2, FS_Subset, Zenon
  <2> HIDE DEF old, new
  <2>4. Cardinality(new) <= n + 1
    BY <1>2, <2>2, <2>3 DEF old
  <2>5. QED
    BY <1>2, <1>3, <2>4, Zenon DEF new
<1>4. CASE g[p] \notin kinds
  <2>1. new \subseteq old
    BY <1>4, Zenon DEF AgreeBut, Cast
  <2>2. Cardinality(new) <= Cardinality(old)
    BY <1>1, <2>1, FS_Subset, Zenon
  <2> HIDE DEF old, new
  <2>3. Cardinality(new) <= n
    BY <1>2, <2>2 DEF old
  <2>4. QED
    BY <1>2, <1>4, <2>3, Zenon DEF new
<1>5. QED
  BY <1>3, <1>4, Zenon

\* The vote of p goes, and the total of a kind of votes with it.
LEMMA VoteGone ==
    ASSUME NEW D, IsFiniteSet(D), NEW p \in D, NEW f, NEW kinds,
           NEW n \in Int, n >= Cardinality(Cast(D, f, kinds))
    PROVE  (IF f[p] \in kinds THEN n - 1 ELSE n) >= Cardinality(Cast(D \ {p}, f, kinds))
<1> DEFINE old == Cast(D, f, kinds)
           new == Cast(D \ {p}, f, kinds)
<1>1. IsFiniteSet(old)
  BY FS_Subset, Zenon DEF Cast
<1>2. Cardinality(old) \in Nat /\ new = old \ {p} /\ (p \in old <=> f[p] \in kinds)
  BY <1>1, FS_CardinalityType DEF Cast
<1>3. Cardinality(old \ {p}) = IF p \in old THEN Cardinality(old) - 1 ELSE Cardinality(old)
  BY <1>1, FS_RemoveElement, Zenon
<1> HIDE DEF old, new
<1>4. n >= Cardinality(old)
  BY Zenon DEF old
<1>5. (IF f[p] \in kinds THEN n - 1 ELSE n) >= Cardinality(new)
  <2>1. CASE f[p] \in kinds
    BY <1>2, <1>3, <1>4, <2>1
  <2>2. CASE f[p] \notin kinds
    BY <1>2, <1>3, <1>4, <2>2, Zenon
  <2>3. QED
    BY <2>1, <2>2, Zenon
<1>6. QED
  BY <1>5, Zenon DEF new


\* A roll as a record of its parts.
RollOf(votes, players, need, greed, pass) ==
    [playerVote |-> votes, totalPlayersRolling |-> players,
     totalNeed |-> need, totalGreed |-> greed, totalPass |-> pass]

LEMMA RollIs ==
    ASSUME NEW roll \in Rolls
    PROVE  roll = RollOf(roll.playerVote, roll.totalPlayersRolling,
                         roll.totalNeed, roll.totalGreed, roll.totalPass)
BY DEF Rolls, RollsOf, RollOf

LEMMA RollOfType ==
    ASSUME NEW D \in SUBSET Players, NEW votes \in [D -> Vote], NEW players \in Int,
           NEW need \in Int, NEW greed \in Int, NEW pass \in Int
    PROVE  RollOf(votes, players, need, greed, pass) \in Rolls
<1>1. RollOf(votes, players, need, greed, pass) \in RollsOf(D)
  BY Zenon DEF RollOf, RollsOf
<1>2. QED
  BY <1>1, Zenon DEF Rolls

LEMMA SoundRollOf ==
    ASSUME NEW D, NEW votes, DOMAIN votes = D, NEW players, NEW need, NEW greed, NEW pass,
           players = Cardinality(D),
           need >= Cardinality(Cast(D, votes, Need)),
           greed >= Cardinality(Cast(D, votes, Greed)),
           pass >= Cardinality(Cast(D, votes, Pass))
    PROVE  SoundRoll(RollOf(votes, players, need, greed, pass))
BY Zenon DEF SoundRoll, RollOf, Voters, Cast

\* What CountRollVote makes of a roll.
Voted(roll, p, choice) ==
    [roll EXCEPT
       !.playerVote[p] = choice,
       !.totalNeed = IF choice = "NEED" THEN @ + 1 ELSE @,
       !.totalGreed = IF choice \in {"GREED", "DISENCHANT"} THEN @ + 1 ELSE @,
       !.totalPass = IF choice = "PASS" THEN @ + 1 ELSE @]

LEMMA VotedIs ==
    ASSUME NEW roll \in Rolls, NEW p \in DOMAIN roll.playerVote, NEW choice
    PROVE  Voted(roll, p, choice) =
             RollOf([roll.playerVote EXCEPT ![p] = choice], roll.totalPlayersRolling,
                    IF choice = "NEED" THEN roll.totalNeed + 1 ELSE roll.totalNeed,
                    IF choice \in {"GREED", "DISENCHANT"} THEN roll.totalGreed + 1 ELSE roll.totalGreed,
                    IF choice = "PASS" THEN roll.totalPass + 1 ELSE roll.totalPass)
<1>1. PICK v, a, b, c :
        /\ v = [roll.playerVote EXCEPT ![p] = choice]
        /\ a = IF choice = "NEED" THEN roll.totalNeed + 1 ELSE roll.totalNeed
        /\ b = IF choice \in {"GREED", "DISENCHANT"} THEN roll.totalGreed + 1 ELSE roll.totalGreed
        /\ c = IF choice = "PASS" THEN roll.totalPass + 1 ELSE roll.totalPass
  BY Zenon
<1>2. Voted(roll, p, choice) =
        [roll EXCEPT !.playerVote = v, !.totalNeed = a, !.totalGreed = b, !.totalPass = c]
  BY <1>1, Zenon DEF Voted
<1>3. PICK s : s = [roll EXCEPT !.playerVote = v]
  BY Zenon
<1>4. PICK t : t = [s EXCEPT !.totalNeed = a]
  BY Zenon
<1>5. PICK w : w = [t EXCEPT !.totalGreed = b]
  BY Zenon
<1>6. Voted(roll, p, choice) = [w EXCEPT !.totalPass = c]
  BY <1>2, <1>3, <1>4, <1>5, Zenon
<1>7. s = RollOf(v, roll.totalPlayersRolling, roll.totalNeed, roll.totalGreed, roll.totalPass)
  BY <1>3, RollIs DEF RollOf
<1>8. t = RollOf(v, roll.totalPlayersRolling, a, roll.totalGreed, roll.totalPass)
  BY <1>4, <1>7 DEF RollOf
<1>9. w = RollOf(v, roll.totalPlayersRolling, a, b, roll.totalPass)
  BY <1>5, <1>8 DEF RollOf
<1>10. Voted(roll, p, choice) = RollOf(v, roll.totalPlayersRolling, a, b, c)
  BY <1>6, <1>9, Zenon DEF RollOf
<1>11. QED
  BY <1>1, <1>10

\* A vote, the first one of its player or not, leaves the roll sound.
LEMMA VotedSound ==
    ASSUME NEW roll \in Rolls, SoundRoll(roll), NEW p, p \in DOMAIN roll.playerVote,
           NEW choice \in Votes
    PROVE  Voted(roll, p, choice) \in Rolls /\ SoundRoll(Voted(roll, p, choice))
<1>1. PICK D, f :
        /\ D = DOMAIN roll.playerVote /\ D \subseteq Players /\ IsFiniteSet(D)
        /\ f = roll.playerVote /\ f \in [D -> Vote] /\ p \in D
  BY RollParts
<1>2. PICK g : g = [f EXCEPT ![p] = choice]
  BY Zenon
<1>3. p \in D /\ choice \in Vote /\ IsFiniteSet(D)
  BY <1>1, Zenon DEF Vote
<1>4. g \in [D -> Vote] /\ g[p] = choice
  BY <1>1, <1>2, <1>3, Zenon
<1>5. AgreeBut(p, D, f, g)
  BY <1>1, <1>2, <1>3, Zenon DEF AgreeBut
<1>6. PICK a \in Int, b \in Int, c \in Int :
        /\ a = IF g[p] \in Need THEN roll.totalNeed + 1 ELSE roll.totalNeed
        /\ b = IF g[p] \in Greed THEN roll.totalGreed + 1 ELSE roll.totalGreed
        /\ c = IF g[p] \in Pass THEN roll.totalPass + 1 ELSE roll.totalPass
  BY RollParts
<1>7. Voted(roll, p, choice) = RollOf(g, roll.totalPlayersRolling, a, b, c)
  BY <1>1, <1>2, <1>4, <1>6, VotedIs DEF Need, Greed, Pass
<1>8. /\ roll.totalNeed >= Cardinality(Cast(D, f, Need))
      /\ roll.totalGreed >= Cardinality(Cast(D, f, Greed))
      /\ roll.totalPass >= Cardinality(Cast(D, f, Pass))
      /\ roll.totalPlayersRolling = Cardinality(D)
  BY <1>1 DEF SoundRoll, Voters, Cast
<1>9. ASSUME NEW kinds, NEW n \in Int, n >= Cardinality(Cast(D, f, kinds))
      PROVE  (IF g[p] \in kinds THEN n + 1 ELSE n) >= Cardinality(Cast(D, g, kinds))
  BY <1>3, <1>5, <1>9, VoteCounted, Zenon
<1>10. a >= Cardinality(Cast(D, g, Need))
  BY <1>6, <1>8, <1>9, RollParts, Zenon
<1>11. b >= Cardinality(Cast(D, g, Greed))
  BY <1>6, <1>8, <1>9, RollParts, Zenon
<1>12. c >= Cardinality(Cast(D, g, Pass))
  BY <1>6, <1>8, <1>9, RollParts, Zenon
<1>13. SoundRoll(RollOf(g, roll.totalPlayersRolling, a, b, c))
  BY <1>4, <1>8, <1>10, <1>11, <1>12, SoundRollOf, Zenon
<1>14. RollOf(g, roll.totalPlayersRolling, a, b, c) \in Rolls
  BY <1>1, <1>4, <1>6, RollParts, RollOfType, Zenon
<1>15. QED
  BY <1>7, <1>13, <1>14, Zenon

\* The roll without the vote of a player who leaves.
LEMMA WithoutVoteSound ==
    ASSUME NEW roll \in Rolls, SoundRoll(roll), NEW p
    PROVE  WithoutVote(roll, p) \in Rolls \cup {NULL}
           /\ (WithoutVote(roll, p) # NULL => SoundRoll(WithoutVote(roll, p)))
<1>1. CASE roll = NULL \/ p \notin DOMAIN roll.playerVote
  BY <1>1, Zenon DEF WithoutVote
<1>2. CASE roll # NULL /\ p \in DOMAIN roll.playerVote
  <2>1. PICK D, f :
          /\ D = DOMAIN roll.playerVote /\ D \subseteq Players /\ IsFiniteSet(D)
          /\ f = roll.playerVote /\ f \in [D -> Vote] /\ p \in D
    BY <1>2, RollParts
  <2>2. PICK g \in [D \ {p} -> Vote] : g = [q \in D \ {p} |-> f[q]]
    BY <2>1, Zenon
  <2>3. PICK a \in Int, b \in Int, c \in Int :
          /\ a = IF f[p] \in Need THEN roll.totalNeed - 1 ELSE roll.totalNeed
          /\ b = IF f[p] \in Greed THEN roll.totalGreed - 1 ELSE roll.totalGreed
          /\ c = IF f[p] \in Pass THEN roll.totalPass - 1 ELSE roll.totalPass
    <3>1. PICK t \in Int, u \in Int, v \in Int :
            t = roll.totalNeed /\ u = roll.totalGreed /\ v = roll.totalPass
      BY <1>2, RollParts, Zenon
    <3>2. t - 1 \in Int /\ u - 1 \in Int /\ v - 1 \in Int
      OBVIOUS
    <3> QED
      BY <3>1, <3>2, Zenon
  <2>4. WithoutVote(roll, p) = RollOf(g, roll.totalPlayersRolling - 1, a, b, c)
    BY <1>2, <2>1, <2>2, <2>3, SMTT(30) DEF WithoutVote, RollOf, Need, Greed, Pass
  <2>5. /\ roll.totalNeed >= Cardinality(Cast(D, f, Need))
        /\ roll.totalGreed >= Cardinality(Cast(D, f, Greed))
        /\ roll.totalPass >= Cardinality(Cast(D, f, Pass))
        /\ roll.totalPlayersRolling = Cardinality(D)
    BY <2>1, Zenon DEF SoundRoll, Voters, Cast
  <2>6. ASSUME NEW kinds, NEW n \in Int, n >= Cardinality(Cast(D, f, kinds))
        PROVE  (IF f[p] \in kinds THEN n - 1 ELSE n) >= Cardinality(Cast(D \ {p}, f, kinds))
    BY <2>1, <2>6, VoteGone, Zenon
  <2>7. a >= Cardinality(Cast(D \ {p}, f, Need))
    BY <2>3, <2>5, <2>6, RollParts, Zenon
  <2>8. b >= Cardinality(Cast(D \ {p}, f, Greed))
    BY <2>3, <2>5, <2>6, RollParts, Zenon
  <2>9. c >= Cardinality(Cast(D \ {p}, f, Pass))
    BY <2>3, <2>5, <2>6, RollParts, Zenon
  <2>10. \A kinds : Cast(D \ {p}, g, kinds) = Cast(D \ {p}, f, kinds)
    <3>1. \A q \in D \ {p} : g[q] = f[q]
      BY <2>2, Zenon
    <3>2. QED
      BY Zenon, <3>1 DEF Cast
  <2>11. roll.totalPlayersRolling - 1 = Cardinality(D \ {p})
    BY <2>1, <2>5, FS_RemoveElement, Zenon
  <2>12. SoundRoll(RollOf(g, roll.totalPlayersRolling - 1, a, b, c))
    BY <2>2, <2>7, <2>8, <2>9, <2>10, <2>11, SoundRollOf, Zenon
  <2>13. RollOf(g, roll.totalPlayersRolling - 1, a, b, c) \in Rolls
    <3>0. PICK n \in Int : n = roll.totalPlayersRolling
      BY RollParts, Zenon
    <3>1. roll.totalPlayersRolling - 1 \in Int /\ D \ {p} \in SUBSET Players
      <4>1. n - 1 \in Int
        OBVIOUS
      <4>2. QED
        BY <2>1, <3>0, <4>1, Zenon
    <3>2. QED
      BY <2>2, <2>3, <3>1, RollOfType, Zenon
  <2>14. QED
    BY <2>4, <2>12, <2>13, Zenon
<1>3. QED
  BY <1>1, <1>2, Zenon


-----------------------------------------------------------------------------
(* The steps of the loot *)

FlowInv == ItemsInv /\ RollsInv

\* The rolls of a record, each for an item that is blocked and not taken.
SoundIn(now) ==
    \A i \in LootItems : now.rolls[i] # NULL =>
        i \in now.blocked \ now.looted /\ SoundRoll(now.rolls[i])

LEMMA NowIs ==
    Now = State(bag, m_itemUpdateQueue, is_looted, is_blocked, unlootedCount, RollId)
BY DEF Now, State

LEMMA NowKept ==
    ASSUME FlowInv, corpse = "open"
    PROVE  KeptIn(Now) /\ SoundIn(Now)
<1>1. KeptIn(Now)
  BY NowIs, Zenon DEF State, FlowInv, ItemsInv, BagsType, RollsInv, LootType, KeptIn, States
<1>2. SoundIn(Now)
  BY NowIs, SoundIs, Zenon DEF State, FlowInv, RollsInv, SoundIn
<1>3. QED
  BY <1>1, <1>2, Zenon

\* What follows if a handler leaves such a record.
LEMMA RecordKeeps ==
    ASSUME FlowInv, corpse = "open", NEW then, KeptIn(then), SoundIn(then), Becomes(then),
           UNCHANGED <<online, money, rows, corpse>>, m_groupLootTimer' \in BOOLEAN
    PROVE  FlowInv'
<1>1. /\ bag' = then.bag /\ m_itemUpdateQueue' = then.queue
      /\ is_looted' = then.looted /\ is_blocked' = then.blocked
      /\ unlootedCount' = then.unlooted /\ RollId' = then.rolls
      /\ UNCHANGED <<online, money, dbBag, dbMoney, corpse>>
  BY Zenon DEF Becomes, rows
<1>2. BagsType' /\ LootType'
  BY <1>1, Zenon DEF FlowInv, ItemsInv, BagsType, LootType, KeptIn, States
<1>3. Kept(bag, m_itemUpdateQueue)' /\ Apart(bag, is_looted)'
  BY <1>1, Zenon DEF KeptIn, Kept, Apart
<1>4. RollIsSound'
  BY <1>1, Zenon DEF SoundIn, SoundRoll, RollIsSound, Voters, Need, Greed, Pass
<1>5. QED
  BY <1>1, <1>2, <1>3, <1>4, Zenon DEF FlowInv, ItemsInv, RollsInv

\* The end of one roll leaves the other ones as they are.
LEMMA OthersSound ==
    ASSUME NEW now \in States, SoundIn(now), NEW then, NEW i \in LootItems, Ended(now, then, i)
    PROVE  SoundIn(then)
<1>1. then.rolls[i] = NULL /\ \A j \in LootItems \ {i} : then.rolls[j] = now.rolls[j]
  BY Zenon DEF Ended, States
<1>2. \A j \in LootItems \ {i} : j \in now.blocked \ now.looted => j \in then.blocked \ then.looted
  BY DEF Ended
<1>3. QED
  BY <1>1, <1>2, Zenon DEF SoundIn

LEMMA LootRollKeeps ==
    ASSUME FlowInv, NEW p \in Players, NEW i \in LootItems, NEW choice \in Votes,
           HandleLootRoll(p, i, choice)
    PROVE  FlowInv'
<1>1. /\ corpse = "open" /\ RollId[i] # NULL /\ p \in DOMAIN RollId[i].playerVote
      /\ UNCHANGED <<online, money, rows, corpse>> /\ m_groupLootTimer' \in BOOLEAN
      /\ CountRollVote(p, i, choice)
  BY DEF HandleLootRoll, FlowInv, RollsInv, LootType
<1>2. PICK new : new = Voted(RollId[i], p, choice)
  BY Zenon
<1>3. KeptIn(Now) /\ SoundIn(Now) /\ Now \in States
  BY <1>1, NowKept, Zenon DEF KeptIn
<1>4. RollId[i] \in Rolls /\ SoundRoll(RollId[i]) /\ i \in is_blocked \ is_looted
  BY <1>1, SoundIs, Zenon DEF FlowInv, RollsInv, LootType
<1>5. new \in Rolls /\ SoundRoll(new)
  BY <1>1, <1>2, <1>4, VotedSound, Zenon
<1>6. \/ \E winner \in MaxGuid(new) : Becomes(CountTheRoll(Now, i, new, winner))
      \/ Becomes([Now EXCEPT !.rolls[i] = new])
  BY <1>1, <1>2, Zenon DEF CountRollVote, Voted
<1>7. ASSUME NEW winner \in MaxGuid(new), Becomes(CountTheRoll(Now, i, new, winner))
      PROVE  FlowInv'
  <2>1. PICK then : then = CountTheRoll(Now, i, new, winner)
    BY Zenon
  <2>2. i \notin Now.looted
    BY <1>4, NowIs DEF State
  <2>3. KeptIn(then) /\ Ended(Now, then, i)
    BY <1>3, <1>5, <2>1, <2>2, TotalsAreNat, Counted, Zenon DEF FlowInv, ItemsInv
  <2>4. SoundIn(then)
    BY <1>3, <2>3, OthersSound, Zenon
  <2>5. QED
    BY <1>1, <1>7, <2>1, <2>3, <2>4, RecordKeeps, Zenon
<1>8. CASE Becomes([Now EXCEPT !.rolls[i] = new])
  <2>1. PICK rolls : rolls = [RollId EXCEPT ![i] = new]
    BY Zenon
  <2>2. /\ rolls \in [LootItems -> Rolls \cup {NULL}] /\ rolls[i] = new
        /\ \A j \in LootItems \ {i} : rolls[j] = RollId[j]
    BY <1>5, <2>1 DEF FlowInv, RollsInv, LootType
  <2>3. PICK then : then = [Now EXCEPT !.rolls[i] = new]
    BY Zenon
  <2>4. then = State(bag, m_itemUpdateQueue, is_looted, is_blocked, unlootedCount, rolls)
    BY <2>1, <2>3, NowIs, Zenon DEF State
  <2>5. KeptIn(then)
    BY <1>3, <2>2, <2>4, NowIs, Zenon DEF KeptIn, States, State
  <2>6. SoundIn(then)
    BY <1>3, <1>4, <1>5, <2>2, <2>4, NowIs, Zenon DEF SoundIn, State
  <2>7. QED
    BY <1>1, <1>8, <2>3, <2>5, <2>6, RecordKeeps, Zenon
<1>9. QED
  BY <1>6, <1>7, <1>8, Zenon

\* Nobody takes what is rolled for: it is blocked.
LEMMA StoreLootKeeps ==
    ASSUME FlowInv, NEW p \in Players, NEW i \in LootItems, StoreLootItem(p, i)
    PROVE  FlowInv'
<1>1. /\ corpse = "open" /\ p \in online /\ i \notin is_looted /\ i \notin is_blocked
      /\ UNCHANGED <<online, money, rows, corpse>> /\ m_groupLootTimer' \in BOOLEAN
      /\ Becomes(StoreNewItem(Now, i, p)) /\ CanStoreNewItem(Now, i, p)
  BY Zenon DEF StoreLootItem, FlowInv, RollsInv, LootType
<1>2. KeptIn(Now) /\ SoundIn(Now) /\ i \notin Now.looted
  BY <1>1, NowKept, NowIs, Zenon DEF State
<1>3. PICK now, then : now = Now /\ then = Award(now, i, p) /\ then = StoreNewItem(now, i, p)
  BY <1>1, Zenon DEF Award
<1>4. /\ KeptIn(then) /\ then.rolls = Now.rolls
      /\ Now.blocked \ {i} \subseteq then.blocked /\ then.looted \subseteq Now.looted \cup {i}
  <2>1. BagsType /\ p \in online
    BY <1>1, Zenon DEF FlowInv, ItemsInv
  <2>2. KeptIn(now) /\ i \notin now.looted
    BY <1>2, <1>3, Zenon
  <2>3. /\ KeptIn(Award(now, i, p)) /\ Award(now, i, p).rolls = now.rolls
        /\ now.blocked \ {i} \subseteq Award(now, i, p).blocked
        /\ Award(now, i, p).looted \subseteq now.looted \cup {i}
    BY <2>1, <2>2, Awarded
  <2>4. QED
    BY <1>3, <2>3, Zenon
<1>5. Now.rolls[i] = NULL
  BY <1>1, <1>2, NowIs DEF SoundIn, State
<1>6. SoundIn(then)
  BY <1>2, <1>4, <1>5 DEF SoundIn
<1>7. QED
  BY <1>1, <1>3, <1>4, <1>6, RecordKeeps, Zenon


\* The order of the items names each of them once.
LEMMA LootOrderIs ==
    /\ Cardinality(LootItems) \in Nat
    /\ LootOrder \in [1..Cardinality(LootItems) -> LootItems]
    /\ \A m, n \in 1..Cardinality(LootItems) : m # n => LootOrder[m] # LootOrder[n]
    /\ \A i \in LootItems : \E n \in 1..Cardinality(LootItems) : LootOrder[n] = i
<1>1. IsFiniteSet(LootItems)
  BY ItemFlowAssumption, FS_Subset, Zenon
<1>2. /\ Cardinality(LootItems) \in Nat
      /\ Bijection(1..Cardinality(LootItems), LootItems) # {}
  BY <1>1, FS_CardinalityType, Zenon DEF ExistsBijection
<1>3. LootOrder \in Bijection(1..Cardinality(LootItems), LootItems)
  BY <1>2, Zenon DEF LootOrder
<1>4. QED
  BY <1>2, <1>3 DEF Bijection, Injection, Surjection, IsInjective

\* The end of one roll in a record from which the roll has not gone.
LEMMA EndedRollKeeps ==
    ASSUME FlowInv, NEW now, KeptIn(now), NEW i \in LootItems, NEW winner,
           now.rolls[i] = RollId[i], RollId[i] # NULL => i \notin now.looted
    PROVE  KeptIn(EndedRoll(now, i, winner)) /\ Ended(now, EndedRoll(now, i, winner), i)
<1>1. CASE RollId[i] = NULL
  <2>1. EndedRoll(now, i, winner) = now
    BY <1>1, Zenon DEF EndedRoll
  <2>2. now.rolls = [now.rolls EXCEPT ![i] = NULL]
    BY <1>1, Zenon DEF KeptIn, States
  <2>3. QED
    BY <2>1, <2>2, Zenon DEF Ended
<1>2. CASE RollId[i] # NULL
  <2>1. RollId[i] \in Rolls /\ SoundRoll(RollId[i]) /\ BagsType
    BY <1>2, SoundIs DEF FlowInv, ItemsInv, RollsInv, LootType
  <2>2. EndedRoll(now, i, winner) = CountTheRoll(now, i, RollId[i], winner)
    BY <1>2, Zenon DEF EndedRoll
  <2>3. QED
    BY <1>2, <2>1, <2>2, TotalsAreNat, Counted, Zenon
<1>3. QED
  BY <1>1, <1>2, Zenon

\* The type alone, for any record of the right type.
LEMMA EndedRollType ==
    ASSUME FlowInv, NEW now \in States, NEW i \in LootItems, NEW winner
    PROVE  EndedRoll(now, i, winner) \in States
<1> DEFINE ended == [now EXCEPT !.rolls[i] = NULL]
           result == CountTheRoll(now, i, RollId[i], winner)
<1>1. PICK b, q, l, k, u, r :
        /\ now = State(b, q, l, k, u, r)
        /\ b \in Bags /\ q \in Bags /\ l \subseteq LootItems /\ k \subseteq LootItems
        /\ u \in 0..255 /\ r \in [LootItems -> Rolls \cup {NULL}]
  BY Parts DEF States
<1>2. PICK e \in [LootItems -> Rolls \cup {NULL}] : e = [r EXCEPT ![i] = NULL]
  BY <1>1, Zenon
<1>3. ended = State(b, q, l, k, u, e)
  BY <1>1, <1>2 DEF State
<1>4. PICK m, n, x : m = l \cup {i} /\ n = (u - 1) % 256 /\ x = k \ {i}
  BY Zenon
<1> /\ m \in SUBSET LootItems /\ l \in SUBSET LootItems
    /\ k \in SUBSET LootItems /\ x \in SUBSET LootItems /\ n \in 0..255
  <2>1. n \in 0..255
    BY <1>1, <1>4, Uint8, Zenon
  <2>2. QED
    BY <1>1, <1>4, <2>1, Zenon
<1>5. CASE RollId[i] = NULL
  BY <1>5, Zenon DEF EndedRoll
<1>6. CASE RollId[i] # NULL
  <2>1. RollId[i].totalNeed \in Nat /\ RollId[i].totalGreed \in Nat
    BY <1>6, SoundIs, TotalsAreNat, Zenon DEF FlowInv, RollsInv, LootType
  <2>2. \/ result = [ended EXCEPT !.blocked = @ \ {i}]
        \/ result = ended
        \/ winner \in online /\ result = Award(ended, i, winner)
        \/ result = RemoveItem(ended, i)
    BY <2>1 DEF CountTheRoll
  <2>3. EndedRoll(now, i, winner) = result
    BY <1>6, Zenon DEF EndedRoll
  <2> HIDE DEF ended, result
  <2>4. CASE result = [ended EXCEPT !.blocked = @ \ {i}]
    <3>1. result = State(b, q, l, k \ {i}, u, e)
      BY <1>3, <2>4, Zenon DEF State
    <3>2. QED
      <4>1. State(b, q, l, x, u, e) \in States
        BY <1>1, <1>2, StateType, Zenon
      <4>2. QED
        BY <1>4, <2>3, <3>1, <4>1, Zenon
  <2>5. CASE result = ended
    <3>1. State(b, q, l, k, u, e) \in States
      BY <1>1, <1>2, StateType, Zenon
    <3>2. QED
      BY <1>3, <2>3, <2>5, <3>1
  <2>6. CASE winner \in online /\ result = Award(ended, i, winner)
    <3>1. winner \in Players /\ i \in Items
      BY <2>6, ItemFlowAssumption, Zenon DEF FlowInv, ItemsInv, BagsType
    <3>2. CASE result = StoreNewItem(ended, i, winner)
      <4> DEFINE c == [b EXCEPT ![winner] = @ \cup {i}]
                 d == [q EXCEPT ![winner] = @ \cup {i}]
      <4>1. c \in Bags /\ d \in Bags
        BY <1>1, <3>1, Zenon DEF Bags
      <4>2. result = State(c, d, l \cup {i}, k, (u - 1) % 256, e)
        <5>1. StoreNewItem(ended, i, winner) = State(c, d, l \cup {i}, k, (u - 1) % 256, e)
          <6>1. b \in Bags /\ q \in Bags /\ winner \in Players
            BY <1>1, <3>1, Zenon
          <6>2. QED
            BY <1>3, <6>1, StoreNewItemIs
        <5>2. QED
          BY <3>2, <5>1, Zenon
      <4> HIDE DEF c, d
      <4>3. QED
        <5>1. State(c, d, m, k, n, e) \in States
          BY <1>2, <4>1, StateType, Zenon
        <5>2. QED
          BY <1>4, <2>3, <4>2, <5>1, Zenon
    <3>3. CASE result = [ended EXCEPT !.blocked = @ \ {i}]
      BY <2>4, <3>3, Zenon
    <3>4. QED
      BY <2>6, <3>2, <3>3, Zenon DEF Award
  <2>7. CASE result = RemoveItem(ended, i)
    <3>1. result = State(b, q, l \cup {i}, k, (u - 1) % 256, e)
      BY <1>3, <2>7, RemoveItemIs
    <3>2. QED
      <4>1. State(b, q, m, k, n, e) \in States
        BY <1>1, <1>2, StateType, Zenon
      <4>2. QED
        BY <1>4, <2>3, <3>1, <4>1, Zenon
  <2>8. QED
    BY <2>2, <2>4, <2>5, <2>6, <2>7, Zenon
<1>7. QED
  BY <1>5, <1>6, Zenon


\* What is known of the records between the rolls that Group::EndRoll ends.
LEMMA EndedRollsRun ==
    ASSUME FlowInv, corpse = "open", NEW winner
    PROVE  \E ended :
             /\ ended[0] = Now
             /\ \A n \in 1..Cardinality(LootItems) :
                   ended[n] = EndedRoll(ended[n - 1], LootOrder[n], winner[LootOrder[n]])
             /\ EndedRolls(winner) = ended[Cardinality(LootItems)]
<1> DEFINE N == Cardinality(LootItems)
           F == [n \in 1..N |-> [now \in States |->
                    EndedRoll(now, LootOrder[n], winner[LootOrder[n]])]]
           ended == CHOOSE ended : ended = [n \in 0..N |->
                       IF n = 0 THEN Now
                       ELSE EndedRoll(ended[n - 1], LootOrder[n], winner[LootOrder[n]])]
<1>1. N \in Nat
  BY LootOrderIs, Zenon
<1>2. Now \in States
  BY NowKept, Zenon DEF KeptIn
<1>3. F \in [1..N -> [States -> States]]
  BY LootOrderIs, EndedRollType, Zenon
<1>4. PICK h \in [0..N -> States] : h[0] = Now /\ \A n \in 1..N : h[n] = F[n][h[n - 1]]
  <2> HIDE DEF F, N
  <2>1. Runs(States, N, Now, F) # {}
    BY <1>1, <1>2, <1>3, RunExists, Zenon
  <2>2. QED
    BY <2>1, Zenon DEF Runs
<1>5. ASSUME NEW n \in 1..N
      PROVE  h[n] = EndedRoll(h[n - 1], LootOrder[n], winner[LootOrder[n]])
  <2>1. h[n - 1] \in States
    BY <1>1
  <2>2. F[n][h[n - 1]] = EndedRoll(h[n - 1], LootOrder[n], winner[LootOrder[n]])
    BY <2>1
  <2>3. QED
    BY <1>4, <2>2, Zenon
<1>6. EndedRolls(winner) = ended[N]
  BY Zenon DEF EndedRolls
<1> HIDE DEF N
<1>7. h = [n \in 0..N |-> IF n = 0 THEN Now
                          ELSE EndedRoll(h[n - 1], LootOrder[n], winner[LootOrder[n]])]
  BY <1>1, <1>4, <1>5
<1>8. ended = [n \in 0..N |-> IF n = 0 THEN Now
                              ELSE EndedRoll(ended[n - 1], LootOrder[n], winner[LootOrder[n]])]
  BY <1>7, Zenon
<1> HIDE DEF ended
<1>9. ended[0] = Now
  BY <1>1, <1>8
<1>10. ASSUME NEW n \in 1..N
       PROVE  ended[n] = EndedRoll(ended[n - 1], LootOrder[n], winner[LootOrder[n]])
  BY <1>1, <1>8
<1>11. QED
  BY <1>6, <1>9, <1>10, Zenon DEF N

\* After n rolls: they are over, and the others are as they were.
HalfEnded(now, n) ==
    /\ KeptIn(now)
    /\ \A m \in 1..n : now.rolls[LootOrder[m]] = NULL
    /\ \A m \in (n + 1)..Cardinality(LootItems) :
          /\ now.rolls[LootOrder[m]] = RollId[LootOrder[m]]
          /\ RollId[LootOrder[m]] # NULL => LootOrder[m] \notin now.looted

LEMMA EndedRollsKeep ==
    ASSUME FlowInv, corpse = "open", NEW winner
    PROVE  KeptIn(EndedRolls(winner)) /\ SoundIn(EndedRolls(winner))
<1> DEFINE N == Cardinality(LootItems)
<1>1. N \in Nat /\ LootOrder \in [1..N -> LootItems]
      /\ \A m, n \in 1..N : m # n => LootOrder[m] # LootOrder[n]
  BY LootOrderIs
<1>2. PICK ended : /\ ended[0] = Now
                   /\ \A n \in 1..N :
                         ended[n] = EndedRoll(ended[n - 1], LootOrder[n], winner[LootOrder[n]])
                   /\ EndedRolls(winner) = ended[N]
  BY EndedRollsRun, Zenon
<1> DEFINE Done == {n \in Nat : n <= N => HalfEnded(ended[n], n)}
<1>3. 0 \in Done
  <2>1. KeptIn(Now) /\ SoundIn(Now)
    BY NowKept, Zenon
  <2>2. Now.rolls = RollId /\ Now.looted = is_looted
    BY NowIs, Zenon DEF State
  <2>3. \A m \in 1..N : RollId[LootOrder[m]] # NULL => LootOrder[m] \notin is_looted
    BY <1>1, <2>1, <2>2, Zenon DEF SoundIn
  <2>4. HalfEnded(Now, 0)
    <3>1. 0 + 1 = 1 /\ 1..0 = {}
      OBVIOUS
    <3>2. QED
      BY <2>1, <2>2, <2>3, <3>1, Zenon DEF HalfEnded
  <2>5. QED
    BY <1>2, <2>4, Zenon
<1>4. ASSUME NEW n \in Nat, n \in Done PROVE n + 1 \in Done
  <2> SUFFICES ASSUME n + 1 <= N PROVE HalfEnded(ended[n + 1], n + 1)
    OBVIOUS
  <2>1. n + 1 \in 1..N /\ (n + 1) - 1 = n /\ n + 1 \in (n + 1)..N /\ HalfEnded(ended[n], n)
    BY <1>1, <1>4
  <2>2. PICK i \in LootItems : i = LootOrder[n + 1]
    BY <1>1, <2>1, Zenon
  <2>3. PICK now, then : now = ended[n] /\ then = ended[n + 1]
    OBVIOUS
  <2>4. /\ KeptIn(now) /\ now.rolls[i] = RollId[i] /\ (RollId[i] # NULL => i \notin now.looted)
        /\ then = EndedRoll(now, i, winner[i])
    BY <1>2, <2>1, <2>2, <2>3, Zenon DEF HalfEnded
  <2>5. KeptIn(then) /\ Ended(now, then, i)
    BY <2>4, EndedRollKeeps, Zenon
  <2>6. then.rolls[i] = NULL /\ \A j \in LootItems \ {i} : then.rolls[j] = now.rolls[j]
    BY <2>4, <2>5, Zenon DEF Ended, KeptIn, States
  <2>7. ASSUME NEW m \in 1..N, m # n + 1
        PROVE  LootOrder[m] \in LootItems \ {i}
    BY <1>1, <2>1, <2>2, <2>7, Zenon
  <2>8. ASSUME NEW m \in 1..(n + 1) PROVE then.rolls[LootOrder[m]] = NULL
    <3>1. CASE m = n + 1
      BY <2>2, <2>6, <3>1, Zenon
    <3>2. CASE m # n + 1
      <4>1. m \in 1..n /\ m \in 1..N
        BY <1>1, <2>1, <3>2
      <4>2. now.rolls[LootOrder[m]] = NULL
        BY <2>1, <2>3, <4>1, Zenon DEF HalfEnded
      <4>3. QED
        BY <2>6, <2>7, <3>2, <4>1, <4>2, Zenon
    <3>3. QED
      BY <3>1, <3>2, Zenon
  <2>9. ASSUME NEW m \in ((n + 1) + 1)..N
        PROVE  /\ then.rolls[LootOrder[m]] = RollId[LootOrder[m]]
               /\ RollId[LootOrder[m]] # NULL => LootOrder[m] \notin then.looted
    <3>1. m \in 1..N /\ m \in (n + 1)..N /\ m # n + 1
      BY <1>1, <2>1
    <3>2. /\ now.rolls[LootOrder[m]] = RollId[LootOrder[m]]
          /\ RollId[LootOrder[m]] # NULL => LootOrder[m] \notin now.looted
      BY <2>1, <2>3, <3>1, Zenon DEF HalfEnded
    <3>3. LootOrder[m] \in LootItems \ {i}
      BY <2>7, <3>1, Zenon
    <3>4. then.rolls[LootOrder[m]] = now.rolls[LootOrder[m]]
      BY <2>6, <3>3, Zenon
    <3>5. LootOrder[m] \notin now.looted => LootOrder[m] \notin then.looted
      BY <2>5, <3>3, Zenon DEF Ended
    <3>6. QED
      BY <3>2, <3>4, <3>5, Zenon
  <2>10. HalfEnded(then, n + 1)
    BY Zenon, <2>5, <2>8, <2>9, <1>1 DEF HalfEnded
  <2>11. QED
    BY Zenon, <2>3, <2>10
<1>5. Nat \subseteq Done
  BY <1>3, <1>4, Induction, Zenon
<1>6. HalfEnded(EndedRolls(winner), N)
  BY <1>1, <1>2, <1>5
<1>7. \A i \in LootItems : EndedRolls(winner).rolls[i] = NULL
  BY <1>6, LootOrderIs DEF HalfEnded
<1>8. QED
  BY <1>6, <1>7, Zenon DEF HalfEnded, SoundIn


LEMMA EndRollKeeps ==
    ASSUME FlowInv, EndRoll
    PROVE  FlowInv'
<1>1. PICK winner : Becomes(IF corpse = "open" THEN EndedRolls(winner) ELSE Now)
  BY DEF EndRoll
<1>2. UNCHANGED <<online, money, rows, corpse>> /\ m_groupLootTimer' \in BOOLEAN
  BY Zenon DEF EndRoll
<1>3. CASE corpse = "open"
  BY <1>1, <1>2, <1>3, EndedRollsKeep, RecordKeeps, Zenon
<1>4. CASE corpse # "open"
  <2>1. UNCHANGED <<bag, m_itemUpdateQueue, is_looted, is_blocked, unlootedCount, RollId>>
    BY <1>1, <1>4, Zenon DEF Becomes, Now
  <2>2. UNCHANGED <<online, money, dbBag, dbMoney, corpse>>
    BY <1>2 DEF rows
  <2>3. ItemsInv'
    BY <2>1, <2>2, Zenon DEF FlowInv, ItemsInv, BagsType, Kept, Apart
  <2>4. RollsInv'
    BY <1>2, <2>1, <2>2, Zenon DEF FlowInv, RollsInv, LootType, RollIsSound, Voters
  <2>5. QED
    BY <2>3, <2>4, Zenon DEF FlowInv
<1>5. QED
  BY <1>3, <1>4, Zenon

\* The roll that GroupLoot opens for every item.
LEMMA NewRollSound ==
    ASSUME NEW near \in SUBSET Players, NEW passing \in SUBSET near
    PROVE  LET roll == [playerVote |-> [p \in near |-> IF p \in passing THEN "PASS" ELSE NOT_EMITED_YET],
                        totalPlayersRolling |-> Cardinality(near),
                        totalNeed |-> 0, totalGreed |-> 0, totalPass |-> Cardinality(passing)]
           IN  roll \in Rolls /\ SoundRoll(roll)
<1>1. PICK f : f = [p \in near |-> IF p \in passing THEN "PASS" ELSE NOT_EMITED_YET]
  BY Zenon
<1>2. f \in [near -> Vote]
  BY <1>1, Zenon DEF Vote, Votes
<1>3. IsFiniteSet(near) /\ IsFiniteSet(passing)
  BY ItemFlowAssumption, FS_Subset, Zenon
<1>4. Cardinality(near) \in Nat /\ Cardinality(passing) \in Nat
  BY <1>3, FS_CardinalityType, Zenon
<1>5. Cast(near, f, Need) = {} /\ Cast(near, f, Greed) = {} /\ Cast(near, f, Pass) = passing
  BY <1>1, Zenon DEF Cast, Need, Greed, Pass, NOT_EMITED_YET
<1>6. Cardinality({}) = 0
  BY FS_EmptySet, Zenon
<1>7. /\ 0 >= Cardinality(Cast(near, f, Need)) /\ 0 >= Cardinality(Cast(near, f, Greed))
      /\ Cardinality(passing) >= Cardinality(Cast(near, f, Pass))
  BY <1>4, <1>5, <1>6
<1>8. SoundRoll(RollOf(f, Cardinality(near), 0, 0, Cardinality(passing)))
  BY <1>2, <1>7, SoundRollOf, Zenon
<1>9. RollOf(f, Cardinality(near), 0, 0, Cardinality(passing)) \in Rolls
  BY <1>2, <1>4, RollOfType
<1>10. QED
  BY <1>1, <1>8, <1>9, Zenon DEF RollOf

LEMMA GroupLootKeeps ==
    ASSUME FlowInv, NEW near \in SUBSET Players, NEW passing \in SUBSET Players,
           GroupLoot(near, passing)
    PROVE  FlowInv'
<1>1. /\ corpse = "unopened" /\ corpse' = "open" /\ passing \subseteq near
      /\ is_blocked' = LootItems /\ m_groupLootTimer' = TRUE
      /\ UNCHANGED <<inventory, is_looted, unlootedCount>>
  BY DEF GroupLoot
<1>2. PICK roll \in Rolls : SoundRoll(roll) /\ RollId' = [i \in LootItems |-> roll]
  BY <1>1, NewRollSound, Zenon DEF GroupLoot
<1>3. is_looted = {}
  BY <1>1, Zenon DEF FlowInv, RollsInv
<1>4. ItemsInv'
  BY <1>1, NothingMoved, Zenon DEF FlowInv, ItemsInv, ItemsKept
<1>5. LootType'
  BY <1>1, <1>2, Zenon DEF FlowInv, RollsInv, LootType
<1>6. RollIsSound'
  BY <1>1, <1>2, <1>3, Zenon DEF SoundRoll, RollIsSound, Voters, Need, Greed, Pass
<1>7. QED
  BY <1>1, <1>4, <1>5, <1>6, Zenon DEF FlowInv, RollsInv

\* The rolls when a member leaves the group, or the group is disbanded.
LEMMA MemberRemoved ==
    ASSUME RollsInv, NEW p, RemoveMember(p),
           UNCHANGED <<corpse, is_looted, is_blocked, unlootedCount, m_groupLootTimer>>
    PROVE  RollsInv'
<1>1. \A i \in LootItems : RollId[i] \in Rolls \cup {NULL}
        /\ (RollId[i] # NULL => SoundRoll(RollId[i]) /\ i \in is_blocked \ is_looted)
  BY SoundIs, Zenon DEF RollsInv, LootType
<1>2. WithoutVote(NULL, p) = NULL
  BY Zenon DEF WithoutVote
<1>3. \A i \in LootItems :
        /\ WithoutVote(RollId[i], p) \in Rolls \cup {NULL}
        /\ WithoutVote(RollId[i], p) # NULL => RollId[i] # NULL /\ SoundRoll(WithoutVote(RollId[i], p))
  BY <1>1, <1>2, WithoutVoteSound, Zenon
<1>4. /\ RollId' \in [LootItems -> Rolls \cup {NULL}]
      /\ \A i \in LootItems : RollId'[i] # NULL => RollId[i] # NULL /\ SoundRoll(RollId'[i])
  <2>1. CASE RollId' = [i \in LootItems |-> WithoutVote(RollId[i], p)]
    BY <1>3, <2>1, Zenon
  <2>2. CASE RollId' = [i \in LootItems |-> NULL]
    BY <2>2, Zenon
  <2>3. QED
    BY <2>1, <2>2, Zenon DEF RemoveMember
<1>5. RollIsSound'
  BY <1>1, <1>4, Zenon DEF SoundRoll, RollIsSound, Voters, Need, Greed, Pass
<1>6. QED
  BY <1>4, <1>5, Zenon DEF RollsInv, LootType

\* Steps that leave the rolls alone.
LEMMA RollsStay ==
    ASSUME RollsInv, UNCHANGED <<is_looted, is_blocked, unlootedCount, RollId, m_groupLootTimer>>,
           corpse' # "unopened" \/ corpse' = corpse
    PROVE  RollsInv'
BY Zenon DEF RollsInv, LootType, RollIsSound, Voters

LEMMA LootKeeps ==
    ASSUME FlowInv, LootNext
    PROVE  FlowInv'
<1>1. ASSUME NEW near \in SUBSET Players, NEW passing \in SUBSET Players, GroupLoot(near, passing)
      PROVE  FlowInv'
  BY <1>1, GroupLootKeeps, Zenon
<1>2. ASSUME NEW p \in Players, NEW i \in LootItems, NEW choice \in Votes, HandleLootRoll(p, i, choice)
      PROVE  FlowInv'
  BY <1>2, LootRollKeeps, Zenon
<1>3. ASSUME NEW p \in Players, NEW i \in LootItems, StoreLootItem(p, i)
      PROVE  FlowInv'
  BY <1>3, StoreLootKeeps, Zenon
<1>4. ASSUME NEW p \in Players, Leave(p)
      PROVE  FlowInv'
  <2>1. ItemsInv'
    BY <1>4, NothingMoved, Zenon DEF Leave, FlowInv, ItemsInv, ItemsKept
  <2>2. RollsInv'
    BY <1>4, MemberRemoved, Zenon DEF Leave, FlowInv
  <2>3. QED
    BY <2>1, <2>2, Zenon DEF FlowInv
<1>5. CASE EndRoll
  BY <1>5, EndRollKeeps, Zenon
<1>6. CASE RemoveCorpse
  <2>1. ItemsInv'
    BY <1>6, NothingMoved, Zenon DEF RemoveCorpse, FlowInv, ItemsInv, ItemsKept
  <2>2. RollsInv'
    BY <1>6, RollsStay, Zenon DEF RemoveCorpse, FlowInv
  <2>3. QED
    BY <2>1, <2>2 DEF FlowInv
<1>7. CASE DoLootRelease
  <2>1. ItemsInv'
    BY <1>7, NothingMoved, Zenon DEF DoLootRelease, FlowInv, ItemsInv, ItemsKept
  <2>2. RollsInv'
    BY <1>7, RollsStay, Zenon DEF DoLootRelease, FlowInv
  <2>3. QED
    BY <2>1, <2>2 DEF FlowInv
<1>8. QED
  BY <1>1, <1>2, <1>3, <1>4, <1>5, <1>6, <1>7, Zenon DEF LootNext


-----------------------------------------------------------------------------
(* All steps *)

\* The handlers that move no item.
LEMMA AcceptMoves ==
    ASSUME NEW p \in Players, HandleAcceptTrade(p)
    PROVE  UNCHANGED inventory \/ AcceptCompletes(p)
BY Zenon DEF HandleAcceptTrade, AcceptWithoutMoney, AcceptFromPoorTrader, AcceptIneligible, AcceptFirst,
       AcceptSpellFails, AcceptWithoutRoom

LEMMA TradeStepKeeps ==
    ASSUME TradeInv, ItemsInv, TradeStep
    PROVE  ItemsKept
<1>1. ASSUME NEW p \in Players, NEW q \in Players, HandleInitiateTrade(p, q)
      PROVE  ItemsKept
  BY <1>1, NothingMoved, Zenon DEF HandleInitiateTrade
<1>2. ASSUME NEW p \in Players,
             \/ \E gold \in Gold : HandleSetTradeGold(p, gold)
             \/ \E slot \in TradeSlots, i \in Items : HandleSetTradeItem(p, slot, i)
             \/ \E slot \in TradeSlots : HandleClearTradeItem(p, slot)
             \/ CastOnTradeItem(p)
             \/ HandleUnacceptTrade(p)
             \/ HandleCancelTrade(p)
      PROVE  ItemsKept
  <2>1. UNCHANGED inventory
    BY <1>2, Zenon DEF HandleSetTradeGold, HandleSetTradeItem, HandleClearTradeItem, CastOnTradeItem,
                HandleUnacceptTrade, HandleCancelTrade
  <2>2. QED
    BY <2>1, NothingMoved, Zenon
<1>3. ASSUME NEW p \in Players, HandleAcceptTrade(p)
      PROVE  ItemsKept
  BY <1>3, AcceptMoves, NothingMoved, TradeKeeps, Zenon
<1>4. ASSUME NEW p \in Players, NEW i \in Items, EquipItem(p, i)
      PROVE  ItemsKept
  BY <1>4, EquipKeeps, Zenon
<1>5. ASSUME NEW p \in Players, NEW i \in Items, HandleDestroyItem(p, i)
      PROVE  ItemsKept
  BY <1>5, DestroyKeeps, Zenon DEF HandleDestroyItem
<1>6. ASSUME NEW p \in Players, Autosave(p)
      PROVE  ItemsKept
  BY <1>6, SaveKeeps, Zenon DEF Autosave
<1>7. ASSUME NEW p \in Players, Login(p)
      PROVE  ItemsKept
  BY <1>7, LoginKeeps, Zenon DEF Login
<1>8. QED
  BY <1>1, <1>2, <1>3, <1>4, <1>5, <1>6, <1>7, Zenon DEF TradeStep

LEMMA FlowStep ==
    ASSUME TradeInv, FlowInv, [Next]_allVars
    PROVE  FlowInv'
<1>1. CASE TradeStep /\ UNCHANGED lootVars
  <2>1. ItemsKept /\ UNCHANGED <<corpse, is_looted>>
    BY <1>1, TradeStepKeeps, Zenon DEF FlowInv, lootVars
  <2>2. RollsInv'
    BY <1>1, RollsStay, Zenon DEF FlowInv, lootVars
  <2>3. QED
    BY <2>1, <2>2, Zenon DEF FlowInv, ItemsInv, ItemsKept
<1>2. CASE LootNext
  BY <1>2, LootKeeps, Zenon
<1>3. ASSUME NEW p \in Players, Logout(p)
      PROVE  FlowInv'
  <2>1. /\ SaveAndLeave(p) /\ (RemoveMember(p) \/ UNCHANGED RollId)
        /\ UNCHANGED <<corpse, is_looted, is_blocked, unlootedCount, m_groupLootTimer>>
    BY <1>3, Zenon DEF Logout, LogoutPlayer, LogoutFromGroup
  <2>2. ItemsKept
    BY <2>1, LeaveKeeps, Zenon DEF FlowInv
  <2>3. RollsInv'
    BY <2>1, MemberRemoved, RollsStay, Zenon DEF FlowInv
  <2>4. QED
    BY <2>1, <2>2, <2>3, Zenon DEF FlowInv, ItemsInv, ItemsKept
<1>4. CASE Restart
  <2>1. LoseMemory /\ LoseCorpse
    BY <1>4, Zenon DEF Restart, Crash
  <2>2. ItemsKept /\ corpse' = "removed"
    BY <2>1, CrashKeeps, Zenon DEF FlowInv, LoseCorpse
  <2>3. RollsInv'
    BY <2>1, Zenon DEF LoseCorpse, FlowInv, RollsInv, LootType, RollIsSound
  <2>4. QED
    BY <2>2, <2>3, Zenon DEF FlowInv, ItemsInv, ItemsKept
<1>5. CASE UNCHANGED allVars
  <2>1. UNCHANGED inventory /\ UNCHANGED lootVars
    BY <1>5, Zenon DEF allVars
  <2>2. ItemsKept /\ UNCHANGED <<corpse, is_looted>>
    BY <2>1, NothingMoved, Zenon DEF FlowInv, lootVars
  <2>3. RollsInv'
    BY <2>1, RollsStay, Zenon DEF FlowInv, lootVars
  <2>4. QED
    BY <2>2, <2>3 DEF FlowInv, ItemsInv, ItemsKept
<1>6. QED
  BY <1>1, <1>2, <1>3, <1>4, <1>5, Zenon DEF Next

LEMMA FlowInit ==
    ASSUME Init
    PROVE  FlowInv
<1>1. /\ online = Players /\ bag = Owned /\ dbBag = Owned
      /\ money = StartMoney /\ dbMoney = StartMoney /\ m_itemUpdateQueue = [p \in Players |-> {}]
  BY Zenon DEF Init, InventoryInit
<1>2. /\ is_looted = {} /\ is_blocked = {} /\ unlootedCount = Cardinality(LootItems)
      /\ RollId = [i \in LootItems |-> NULL] /\ m_groupLootTimer = FALSE
  BY Zenon DEF Init, LootInit
<1>3. /\ Owned \in [Players -> SUBSET (Items \ LootItems)]
      /\ \A p, q \in Players : p # q => Owned[p] \cap Owned[q] = {}
      /\ StartMoney \in [Players -> 0..MaxMoney]
  BY ItemFlowAssumption, Zenon
<1>4. unlootedCount \in 0..255
  <2>1. Cardinality(LootItems) \in Nat /\ Cardinality(LootItems) <= 255
    BY LootOrderIs, ItemFlowAssumption, Zenon
  <2>2. QED
    BY <1>2, <2>1
<1>5. BagsType
  BY <1>1, <1>3, Zenon DEF BagsType, Bags
<1>6. Kept(bag, m_itemUpdateQueue) /\ Apart(bag, is_looted)
  BY <1>1, <1>2, <1>3, Zenon DEF Kept, Apart
<1>7. RollsInv
  BY <1>2, <1>4, Zenon DEF RollsInv, LootType, RollIsSound
<1>8. QED
  BY <1>5, <1>6, <1>7, Zenon DEF FlowInv, ItemsInv

LEMMA FlowInvCorrect == Spec => [](TradeInv /\ FlowInv)
<1>1. Init => FlowInv
  BY FlowInit, Zenon
<1>2. TradeInv /\ FlowInv /\ [Next]_allVars => FlowInv'
  BY FlowStep
<1>3. QED
  BY <1>1, <1>2, TradeInvCorrect, PTL DEF Spec

\* No item ever has two owners or is owned and in the corpse, in the bags of
\* the players in the world and the rows of the others taken together: after
\* any trades, rolls, saves, logouts and restarts, between any two handlers.
THEOREM OneOwnerCorrect == Spec => []OneOwner
<1>1. FlowInv => OneOwner
  <2> SUFFICES ASSUME FlowInv PROVE OneOwner
    OBVIOUS
  <2>1. \A p, q \in Players : p # q =>
          (bag[p] \cup dbBag[p]) \cap (bag[q] \cup dbBag[q]) = {}
    BY Zenon DEF FlowInv, ItemsInv, Kept
  <2>2. corpse = "open" => \A p \in Players : (bag[p] \cup dbBag[p]) \cap (LootItems \ is_looted) = {}
    BY Zenon DEF FlowInv, ItemsInv, Apart
  <2>3. QED
    BY <2>1, <2>2, Zenon DEF OneOwner
<1>2. QED
  BY <1>1, FlowInvCorrect, PTL

\* The rows of a player in the world differ from the bag only in items that are
\* queued for Player::SaveInventoryAndGoldToDB, and nothing is queued for a
\* player who is not in the world, whatever was traded, rolled for or lost.
THEOREM DiskFollowsCorrect == Spec => []DiskFollows
<1>1. FlowInv => DiskFollows
  BY DEF FlowInv, ItemsInv, Kept, DiskFollows
<1>2. QED
  BY <1>1, FlowInvCorrect, PTL

\* The totals of an open roll cover its votes and its item is blocked and still
\* there, however often players vote, leave, log out or fill their bags: the
\* uint8 totals that Group::RemoveMember takes a vote from never wrap.
THEOREM RollIsSoundCorrect == Spec => []RollIsSound
<1>1. FlowInv => RollIsSound
  BY DEF FlowInv, RollsInv
<1>2. QED
  BY <1>1, FlowInvCorrect, PTL


\* What TradeIsExactStep says of one side of a trade.
Exact(p, q) ==
    /\ bag'[p] = (bag[p] \ Offered(p)) \cup Offered(q)
    /\ bag'[q] = (bag[q] \ Offered(q)) \cup Offered(p)
    /\ Cardinality(bag'[p]) <= BagSize
    /\ \/ money'[p] = money[p] - m_trade[p].money + m_trade[q].money
       \/ money'[p] = MaxMoney /\ money'[p] < money[p] - m_trade[p].money + m_trade[q].money

\* An acceptance that completes the trade is exact for both sides.
LEMMA CompletesExact ==
    ASSUME TradeInv, FlowInv, NEW p \in Players, AcceptCompletes(p)
    PROVE  /\ m_trade[p] # NULL /\ Trader(p) \in Players /\ Trader(Trader(p)) = p
           /\ Exact(p, Trader(p)) /\ Exact(Trader(p), p)
           /\ \A r \in Players \ {p, Trader(p)} : m_trade'[r] = m_trade[r]
<1>1. BagsType
  BY Zenon DEF FlowInv, ItemsInv
<1>2. PICK q \in Players : q = Trader(p) /\ q # p /\ m_trade[p] # NULL /\ Exchanged(p, q)
  BY <1>1, TradeExchanges, Zenon
<1>3. m_trade[q] # NULL /\ Trader(q) = p
  BY <1>2 DEF TradeInv, TradeIsMutual
<1>4. Cardinality(bag'[p]) <= BagSize /\ Cardinality(bag'[q]) <= BagSize
  <2>1. /\ Cardinality((bag[p] \ Offered(p)) \cup Offered(q)) <= BagSize
        /\ Cardinality((bag[q] \ Offered(q)) \cup Offered(p)) <= BagSize
    BY <1>2, Zenon DEF AcceptCompletes, ItemsFit, CanStoreItems
  <2>2. QED
    BY <1>2, <2>1, Zenon DEF Exchanged
<1>5. /\ m_trade[p].money \in Nat /\ m_trade[q].money \in Nat
      /\ money[p] \in 0..MaxMoney /\ money[q] \in 0..MaxMoney
  BY <1>1, <1>2, Partners, TradeAssumption DEF TradeData, BagsType
<1>6. money[p] >= m_trade[p].money /\ money[q] >= m_trade[q].money
  BY <1>2, Zenon DEF AcceptCompletes, AcceptSecond, CanAccept, BothCanPay, HasEnoughMoney
<1>7. /\ money'[p] = ModifyMoney(ModifyMoney(money[p], -m_trade[p].money), m_trade[q].money)
      /\ money'[q] = ModifyMoney(ModifyMoney(money[q], -m_trade[q].money), m_trade[p].money)
  BY <1>1, <1>2, MovedMoneyIs, Zenon DEF AcceptCompletes
<1>8. \/ money'[p] = money[p] - m_trade[p].money + m_trade[q].money
      \/ money'[p] = MaxMoney /\ money'[p] < money[p] - m_trade[p].money + m_trade[q].money
  BY <1>5, <1>6, <1>7, PurseExact, Zenon
<1>9. \/ money'[q] = money[q] - m_trade[q].money + m_trade[p].money
      \/ money'[q] = MaxMoney /\ money'[q] < money[q] - m_trade[q].money + m_trade[p].money
  BY <1>5, <1>6, <1>7, PurseExact, Zenon
<1>10. Exact(p, q) /\ Exact(q, p)
  BY <1>2, <1>4, <1>8, <1>9, Zenon DEF Exact, Exchanged
<1>11. \A r \in Players \ {p, q} : m_trade'[r] = m_trade[r]
  BY <1>2 DEF AcceptCompletes, DeleteTrade, TradeInv, TradeType
<1>12. QED
  BY <1>2, <1>3, <1>10, <1>11, Zenon

LEMMA ExactIs ==
    ASSUME \A p \in Players : (m_trade[p] # NULL /\ m_trade'[p] = NULL) =>
              \/ ~({p, Trader(p)} \subseteq online')
              \/ UNCHANGED <<bag, money>>
              \/ Exact(p, Trader(p))
    PROVE  TradeIsExactStep
BY Zenon DEF TradeIsExactStep, Exact

\* No step of TradeStep but an acceptance moves items while a trade ends.
LEMMA TradeStepExact ==
    ASSUME TradeInv, FlowInv, TradeStep
    PROVE  TradeIsExactStep
<1>1. CASE UNCHANGED inventory
  BY <1>1, ExactIs, Zenon DEF inventory
<1>2. CASE UNCHANGED m_trade
  BY <1>2, ExactIs, Zenon
<1>3. ASSUME NEW r \in Players, AcceptCompletes(r)
      PROVE  TradeIsExactStep
  <2>1. ASSUME NEW p \in Players, m_trade[p] # NULL, m_trade'[p] = NULL
        PROVE  Exact(p, Trader(p))
    <3>1. p \in {r, Trader(r)}
      BY <1>3, <2>1, CompletesExact, Zenon
    <3>2. QED
      BY <1>3, <3>1, CompletesExact, Zenon
  <2>2. QED
    BY <2>1, ExactIs, Zenon
<1>4. UNCHANGED inventory \/ UNCHANGED m_trade \/ \E r \in Players : AcceptCompletes(r)
  BY AcceptMoves, Zenon DEF TradeStep, HandleInitiateTrade, HandleSetTradeGold, HandleSetTradeItem,
       HandleClearTradeItem, CastOnTradeItem, HandleUnacceptTrade, HandleCancelTrade,
       EquipItem, HandleDestroyItem, Autosave, Login, tradeVars
<1>5. QED
  BY <1>1, <1>2, <1>3, <1>4, Zenon

LEMMA StepExact ==
    ASSUME TradeInv, FlowInv, [Next]_allVars
    PROVE  TradeIsExactStep
<1>1. CASE TradeStep
  BY <1>1, TradeStepExact, Zenon
<1>2. CASE UNCHANGED tradeVars
  BY <1>2, ExactIs, Zenon DEF tradeVars
<1>3. ASSUME NEW r \in Players, Logout(r)
      PROVE  TradeIsExactStep
  <2>1. TradeCancel(r) /\ r \notin online'
    BY <1>3, Zenon DEF Logout, LogoutPlayer, SaveAndLeave
  <2>2. CASE m_trade[r] = NULL
    BY <2>1, <2>2, ExactIs, Zenon DEF TradeCancel
  <2>3. CASE m_trade[r] # NULL
    <3>1. PICK q \in Players : q = Trader(r) /\ Trader(q) = r
      BY <2>3, Partners, Zenon DEF TradeInv, TradeIsMutual
    <3>2. \A p \in Players \ {r, q} : m_trade'[p] = m_trade[p]
      BY <2>1, <2>3, <3>1, Zenon DEF TradeCancel, DeleteTrade, TradeInv, TradeType
    <3>3. \A p \in Players : (m_trade[p] # NULL /\ m_trade'[p] = NULL) => r \in {p, Trader(p)}
      BY <3>1, <3>2, Zenon
    <3>4. QED
      BY <2>1, <3>3, ExactIs, Zenon
  <2>4. QED
    BY <2>2, <2>3, Zenon
<1>4. CASE Restart
  BY <1>4, ExactIs, Zenon DEF Restart, Crash, LoseMemory
<1>5. CASE UNCHANGED allVars
  BY <1>5, <1>2 DEF allVars
<1>6. QED
  BY <1>1, <1>2, <1>3, <1>4, <1>5, Zenon DEF Next

\* A trade that ends between players who stay in the world has exchanged
\* everything or nothing, for any number of slots and any size of the bags: the
\* room that CanStoreItems finds before the items are removed is enough for
\* every slot that moveItems stores after it.
THEOREM TradeIsExactCorrect == Spec => TradeIsExact
<1>1. TradeInv /\ FlowInv /\ [Next]_allVars => [TradeIsExactStep]_allVars
  BY StepExact, Zenon
<1>2. QED
  BY <1>1, FlowInvCorrect, PTL DEF Spec, TradeIsExact


\* Only EquipItem binds an item.
LEMMA SoulboundStep ==
    ASSUME soulbound \subseteq Items, [Next]_allVars
    PROVE  soulbound' \subseteq Items
<1>1. soulbound' \subseteq soulbound \/ \E p \in Players, i \in Items : EquipItem(p, i)
  BY Zenon DEF Next, TradeStep, HandleInitiateTrade, HandleSetTradeGold, HandleSetTradeItem,
       HandleClearTradeItem, CastOnTradeItem, HandleUnacceptTrade, HandleCancelTrade,
       HandleAcceptTrade, AcceptWithoutMoney, AcceptFromPoorTrader, AcceptIneligible, AcceptFirst,
       AcceptSpellFails, AcceptWithoutRoom, AcceptCompletes, HandleDestroyItem, Autosave, Login,
       Logout, LogoutPlayer, Restart, Crash, allVars, tradeVars
<1>2. QED
  BY <1>1, Zenon DEF EquipItem

\* Bags, queues and rows hold items, nobody has less than nothing or more than
\* MAX_MONEY_AMOUNT in the purse or in the row, and the uint8 unlootedCount is
\* one: also after ModifyMoney on both sides of a trade.
THEOREM ItemFlowTypeCorrect == Spec => []TypeOK
<1>1. Init => soulbound \subseteq Items
  BY DEF Init, TradeInit
<1>2. soulbound \subseteq Items /\ [Next]_allVars => (soulbound \subseteq Items)'
  BY SoulboundStep
<1>3. Spec => [](soulbound \subseteq Items)
  BY <1>1, <1>2, PTL DEF Spec
<1>4. TradeInv /\ FlowInv /\ soulbound \subseteq Items => TypeOK
  BY DEF TradeInv, TradeType, FlowInv, ItemsInv, BagsType, Bags, RollsInv, LootType,
         TypeOK, InventoryTypeOK
<1>5. QED
  BY <1>3, <1>4, FlowInvCorrect, PTL

=============================================================================
