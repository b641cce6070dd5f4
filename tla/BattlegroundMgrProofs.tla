----------------------- MODULE BattlegroundMgrProofs ------------------------
(*****************************************************************************)
(* Battlegrounds and their queue, for any number of players, battlegrounds   *)
(* and places: the counters of invited players are exact, nobody holds an    *)
(* invitation to a battleground that is gone, the queue slots of the players *)
(* are true, and a late remove event does nothing.                           *)
(*****************************************************************************)
EXTENDS BattlegroundPlayerProofs

-----------------------------------------------------------------------------
(* Leaving a battleground *)

\* What is known of a player inside.
LEMMA InsideIs ==
    ASSUME IInv, NEW b \in Running(bgs), NEW p \in DOMAIN bgs[b].m_Players
    PROVE  /\ p \in Players /\ bgInstanceID[p] = b /\ b # 0 /\ p \notin travelling
           /\ \A d, t, time : ~In(queuedGroups, p, d, t, time)
           /\ \A c \in Running(bgs) : p \in DOMAIN bgs[c].m_Players => c = b
           /\ \A c \in Running(bgs) : \A t :
                 CountedAt(queuedGroups, bgs, p, c, t) <=> c = b /\ bgs[b].m_Players[p] = t
<1>1. p \in Players
  BY InsideIsPlayer, Zenon DEF IInv
<1>2. bgInstanceID[p] = b /\ b # 0
  BY RunningIs, Zenon DEF IInv, Others
<1>3. p \notin travelling
  BY <1>2, Zenon DEF IInv, Others, PlayersType
<1>4. \A d, t, time : ~In(queuedGroups, p, d, t, time)
  BY <1>1, <1>2, NotInQueue, Zenon
<1>5. \A c \in Running(bgs) : p \in DOMAIN bgs[c].m_Players => c = b
  BY <1>2, Zenon DEF IInv, Others
<1>6. QED
  BY <1>1, <1>2, <1>3, <1>4, <1>5, Zenon DEF CountedAt

\* Battleground b without players L, who are not counted any more.
Left(b, L, e) ==
    /\ e \in Battlegrounds /\ DOMAIN e.m_Players = DOMAIN bgs[b].m_Players \ L
    /\ \A q \in DOMAIN e.m_Players : e.m_Players[q] = bgs[b].m_Players[q]
    /\ \A t \in Teams : e.invited[t] = Cardinality(Counted(queuedGroups, bgs, b, t) \ L)

\* How many fewer are counted when players L leave.
LEMMA LeftCount ==
    ASSUME IInv, NEW b \in Running(bgs), NEW L \in SUBSET DOMAIN bgs[b].m_Players, NEW t \in Teams
    PROVE  /\ Cardinality({p \in L : bgs[b].m_Players[p] = t}) \in Nat
           /\ Cardinality({p \in L : bgs[b].m_Players[p] = t}) <= bgs[b].invited[t]
           /\ bgs[b].invited[t] \in Nat /\ bgs[b].invited[t] <= Cardinality(Players)
           /\ Cardinality(Counted(queuedGroups, bgs, b, t) \ L) =
                 bgs[b].invited[t] - Cardinality({p \in L : bgs[b].m_Players[p] = t})
<1>1. PICK C, A : /\ C = Counted(queuedGroups, bgs, b, t) /\ A = {p \in L : bgs[b].m_Players[p] = t}
  BY Zenon
<1>2. C \cap L = A
  BY <1>1, InsideIs DEF Counted
<1>3. IsFiniteSet(C) /\ Cardinality(C) \in Nat /\ Cardinality(C) <= Cardinality(Players)
  BY <1>1, CountedIsFinite, Zenon
<1>4. Cardinality(C \ L) = Cardinality(C) - Cardinality(A) /\ IsFiniteSet(C \ L)
  BY <1>2, <1>3, FS_Difference, Zenon
<1>5. A \subseteq C
  BY <1>2, Zenon
<1>6. IsFiniteSet(A) /\ Cardinality(A) <= Cardinality(C)
  BY <1>3, <1>5, FS_Subset, Zenon
<1>7. Cardinality(A) \in Nat
  BY <1>6, FS_CardinalityType, Zenon
<1>8. bgs[b].invited[t] = Cardinality(C)
  BY <1>1, Zenon DEF IInv, Counts
<1>9. QED
  BY <1>1, <1>3, <1>4, <1>6, <1>7, <1>8

LEMMA LeftStep ==
    ASSUME IInv, NEW b \in Running(bgs), NEW L \in SUBSET DOMAIN bgs[b].m_Players, NEW e,
           Left(b, L, e), bgs' = [bgs EXCEPT ![b] = e], travelling' = travelling,
           PlayersType', QueueType', FreeSlots(bgs, freeSlotQueue)',
           \A q \in L : queueSlot'[q] = NULL /\ (q \in online' => bgInstanceID'[q] = 0),
           \A q \in Players \ L :
              /\ queueSlot'[q] = queueSlot[q] /\ (q \in online' <=> q \in online)
              /\ bgInstanceID'[q] = bgInstanceID[q] /\ bgTeam'[q] = bgTeam[q],
           UNCHANGED <<queuedGroups, events>>
    PROVE  IInv'
<1>1. e \in Battlegrounds /\ bgs \in [BgIds -> Battlegrounds \cup {NULL}]
  BY DEF Left, IInv, QueueType
<1>2. Replaced(bgs, [bgs EXCEPT ![b] = e], b, e)
  BY <1>1, BgReplaced, Zenon
<1>3. Replaced(bgs, bgs', b, e)
  BY <1>2, Zenon
<1>4. /\ Running(bgs') = Running(bgs) /\ bgs'[b] = e
      /\ \A c \in Running(bgs) : c # b => bgs'[c] = bgs[c]
  BY <1>3, Zenon DEF Replaced
<1>5. ASSUME NEW q, q \notin L, NEW c \in Running(bgs)
      PROVE  /\ q \in DOMAIN bgs'[c].m_Players <=> q \in DOMAIN bgs[c].m_Players
             /\ q \in DOMAIN bgs[c].m_Players => bgs'[c].m_Players[q] = bgs[c].m_Players[q]
  <2>1. CASE c = b
    BY <1>4, <1>5, <2>1 DEF Left
  <2>2. CASE c # b
    BY <1>4, <1>5, <2>2, Zenon
  <2>3. QED
    BY <2>1, <2>2, Zenon
<1>6. \A q \in Players \ L : Untouched(q)
  BY <1>5, Zenon DEF Untouched
<1>7. ASSUME NEW p \in L
      PROVE  /\ \A c \in Running(bgs) : p \notin DOMAIN bgs'[c].m_Players
             /\ p \notin travelling /\ \A d, t, time : ~In(queuedGroups, p, d, t, time)
  <2>1. /\ p \notin travelling /\ \A d, t, time : ~In(queuedGroups, p, d, t, time)
        /\ \A c \in Running(bgs) : p \in DOMAIN bgs[c].m_Players => c = b
    BY InsideIs, Zenon
  <2>2. p \notin DOMAIN e.m_Players
    BY Zenon DEF Left
  <2>3. QED
    BY <1>4, <2>1, <2>2, Zenon
<1>8. \A p \in L : PlayerOK(p)'
  BY <1>4, <1>7, Zenon DEF PlayerOK
<1>9. ASSUME NEW c \in Running(bgs), NEW t \in Teams
      PROVE  bgs'[c].invited[t] = Cardinality(Counted(queuedGroups, bgs, c, t)')
  <2>1. \A p \in L : ~CountedAt(queuedGroups, bgs, p, c, t)'
    BY <1>7 DEF CountedAt
  <2>2. \A q \in Players \ L :
           CountedAt(queuedGroups, bgs, q, c, t)' <=> CountedAt(queuedGroups, bgs, q, c, t)
    BY <1>6, UntouchedIsCounted, Zenon
  <2>3. Counted(queuedGroups, bgs, c, t)' = Counted(queuedGroups, bgs, c, t) \ L
    BY <2>1, <2>2, Zenon DEF Counted
  <2>7. \A s \in Teams : e.invited[s] = Cardinality(Counted(queuedGroups, bgs, b, s) \ L)
    BY Zenon DEF Left
  <2>8. bgs[c].invited[t] = Cardinality(Counted(queuedGroups, bgs, c, t))
    BY DEF IInv, Counts
  <2>4. CASE c = b
    BY <1>4, <2>3, <2>4, <2>7, Zenon
  <2>5. CASE c # b
    <3>1. \A p \in L : ~CountedAt(queuedGroups, bgs, p, c, t)
      BY <2>5, InsideIs
    <3>2. Counted(queuedGroups, bgs, c, t) \ L = Counted(queuedGroups, bgs, c, t)
      BY <3>1, Zenon DEF Counted
    <3>3. QED
      BY <1>4, <2>3, <2>5, <2>8, <3>2, Zenon
  <2>6. QED
    BY <2>4, <2>5, Zenon
<1>10. Disjoint(queuedGroups)' /\ LastEvents(queuedGroups, events)'
  BY DEF IInv
<1>11. QED
  BY <1>4, <1>6, <1>8, <1>9, <1>10, StepOfSome, Zenon

\* RemovePlayerAtLeave, for players who are inside.
LEMMA RemovalStep ==
    ASSUME IInv, NEW b \in Running(bgs), NEW L \in SUBSET DOMAIN bgs[b].m_Players,
           NEW popped \in BOOLEAN, popped => bgs[b].m_OfflineQueue # <<>>,
           RemovePlayerAtLeave(b, L, popped), UNCHANGED <<online, travelling, queuedGroups, events>>
    PROVE  IInv'
<1>1. PICK bg : bg = bgs[b]
  BY Zenon
<1>2. /\ bg \in Battlegrounds /\ b \in BgIds /\ bg.invited \in [Teams -> Nat]
      /\ bg.status \in {"WAIT_JOIN", "IN_PROGRESS", "WAIT_LEAVE"}
      /\ DOMAIN bg.m_Players \subseteq Players /\ bg.m_Players \in [DOMAIN bg.m_Players -> Teams]
      /\ bg.m_OfflineQueue \in Seq(Players) /\ bg.m_InBGFreeSlotQueue \in BOOLEAN
  BY <1>1, RunningIs, BgFields, Zenon DEF IInv
<1>3. L \subseteq DOMAIN bg.m_Players /\ L \cap DOMAIN bg.m_Players = L
  BY <1>1, Zenon
<1>4. PICK invited, sides, offline, reopened :
        /\ invited = [t \in Teams |->
              (bg.invited[t] + CounterSize - Cardinality({p \in L : bg.m_Players[p] = t})) % CounterSize]
        /\ sides = Restrict(bg.m_Players, DOMAIN bg.m_Players \ L)
        /\ offline = IF popped THEN Tail(bg.m_OfflineQueue) ELSE bg.m_OfflineQueue
        /\ reopened = (L # {} /\ bg.status # "WAIT_LEAVE")
  BY Zenon
<1>5. PICK e : e = [status |-> bg.status, invited |-> invited, m_Players |-> sides,
                    m_OfflineQueue |-> offline,
                    m_InBGFreeSlotQueue |-> bg.m_InBGFreeSlotQueue \/ reopened]
  BY Zenon
<1>6. /\ bgs' = [bgs EXCEPT ![b] = e]
      /\ freeSlotQueue' = IF reopened /\ ~bg.m_InBGFreeSlotQueue
                          THEN <<b>> \o freeSlotQueue ELSE freeSlotQueue
      /\ scheduled' = (scheduled \/ reopened)
      /\ queueSlot' = [p \in Players |-> IF p \in L \cap online THEN NULL ELSE queueSlot[p]]
      /\ bgInstanceID' = [p \in Players |-> IF p \in L \cap online THEN 0 ELSE bgInstanceID[p]]
      /\ bgTeam' = [p \in Players |-> IF p \in L \cap online THEN NULL ELSE bgTeam[p]]
  BY <1>1, <1>3, <1>4, <1>5, Zenon DEF RemovePlayerAtLeave
<1>7. \A t \in Teams : invited[t] = Cardinality(Counted(queuedGroups, bgs, b, t) \ L)
                       /\ invited[t] \in Nat
  <2>1. ASSUME NEW t \in Teams
        PROVE  invited[t] = Cardinality(Counted(queuedGroups, bgs, b, t) \ L) /\ invited[t] \in Nat
    <3>1. PICK m, k : m = bg.invited[t] /\ k = Cardinality({p \in L : bg.m_Players[p] = t})
      BY Zenon
    <3>2. /\ m \in Nat /\ k \in Nat /\ k <= m /\ m <= Cardinality(Players)
          /\ Cardinality(Counted(queuedGroups, bgs, b, t) \ L) = m - k
      BY <1>1, <3>1, LeftCount, Zenon
    <3>3. invited[t] = (m + CounterSize - k) % CounterSize
      BY <1>4, <3>1
    <3>4. QED
      BY <3>2, <3>3, LessIs, Zenon
  <2>2. QED
    BY <2>1, Zenon
<1>8. invited \in [Teams -> Nat]
  BY <1>4, <1>7, Zenon
<1>9. PICK in : in = DOMAIN bg.m_Players \ L
  BY Zenon
<1>10. /\ in \in SUBSET Players /\ sides \in [in -> Teams]
       /\ \A q \in in : sides[q] = bg.m_Players[q]
  BY <1>2, <1>4, <1>9, Zenon DEF Restrict
<1>11. offline \in Seq(Players) /\ reopened \in BOOLEAN
  BY <1>1, <1>2, <1>4
<1>12. (bg.m_InBGFreeSlotQueue \/ reopened) \in BOOLEAN
  OBVIOUS
<1>13. e \in Battlegrounds
  BY <1>2, <1>5, <1>8, <1>10, <1>11, <1>12, BgBuilt, Zenon
<1>14. Left(b, L, e)
  <2>1. e.invited = invited /\ e.m_Players = sides
    BY <1>5, Zenon
  <2>2. QED
    BY <1>1, <1>7, <1>9, <1>10, <1>13, <2>1, Zenon DEF Left
<1>15. bgs \in [BgIds -> Battlegrounds \cup {NULL}]
  BY Zenon DEF IInv, QueueType
<1>16. Replaced(bgs, [bgs EXCEPT ![b] = e], b, e)
  BY <1>13, <1>15, BgReplaced, Zenon
<1>17. /\ bgs' \in [BgIds -> Battlegrounds \cup {NULL}] /\ Running(bgs') = Running(bgs)
       /\ bgs'[b] = e /\ \A c \in Running(bgs) : c # b => bgs'[c] = bgs[c]
  BY <1>6, <1>16, Zenon DEF Replaced
<1>18. freeSlotQueue' \in Seq(BgIds) /\ FreeSlots(bgs, freeSlotQueue)'
  <2>1. freeSlotQueue \in Seq(BgIds) /\ FreeSlots(bgs, freeSlotQueue)
    BY Zenon DEF IInv, QueueType
  <2>2. e.m_InBGFreeSlotQueue = (bg.m_InBGFreeSlotQueue \/ reopened)
    BY <1>5, Zenon
  <2>3. CASE reopened /\ ~bg.m_InBGFreeSlotQueue
    <3>1. \A k \in DOMAIN freeSlotQueue : freeSlotQueue[k] # b
      BY <1>1, <2>1, <2>3, Zenon DEF FreeSlots
    <3>2. \A k, l \in DOMAIN freeSlotQueue : k # l => freeSlotQueue[k] # freeSlotQueue[l]
      BY <2>1, Zenon DEF FreeSlots
    <3>3. /\ freeSlotQueue' \in Seq(BgIds)
          /\ \A k, l \in DOMAIN freeSlotQueue' : k # l => freeSlotQueue'[k] # freeSlotQueue'[l]
          /\ \A k \in DOMAIN freeSlotQueue' :
                \/ freeSlotQueue'[k] = b
                \/ \E l \in DOMAIN freeSlotQueue : freeSlotQueue[l] = freeSlotQueue'[k]
      <4>1. freeSlotQueue' = <<b>> \o freeSlotQueue
        BY <1>6, <2>3, Zenon
      <4>2. OneMore(freeSlotQueue, <<b>> \o freeSlotQueue, b)
        BY <1>2, <2>1, <3>1, <3>2, Prepended
      <4>3. OneMore(freeSlotQueue, freeSlotQueue', b)
        BY <4>1, <4>2, Zenon
      <4>4. QED
        BY <4>3, Zenon DEF OneMore
    <3>4. \A k \in DOMAIN freeSlotQueue' :
             freeSlotQueue'[k] \in Running(bgs') /\ bgs'[freeSlotQueue'[k]].m_InBGFreeSlotQueue
      <4> SUFFICES ASSUME NEW k \in DOMAIN freeSlotQueue'
                   PROVE  /\ freeSlotQueue'[k] \in Running(bgs')
                          /\ bgs'[freeSlotQueue'[k]].m_InBGFreeSlotQueue
        OBVIOUS
      <4>1. CASE freeSlotQueue'[k] = b
        BY <1>17, <2>2, <2>3, <4>1, Zenon
      <4>2. CASE \E l \in DOMAIN freeSlotQueue : freeSlotQueue[l] = freeSlotQueue'[k]
        BY <1>17, <2>1, <3>1, <4>2, Zenon DEF FreeSlots
      <4>3. QED
        BY <3>3, <4>1, <4>2, Zenon
    <3>5. QED
      BY <3>3, <3>4, Zenon DEF FreeSlots
  <2>4. CASE ~(reopened /\ ~bg.m_InBGFreeSlotQueue)
    <3>1. freeSlotQueue' = freeSlotQueue
      BY <1>6, <2>4, Zenon
    <3>2. \A c \in Running(bgs) : bgs[c].m_InBGFreeSlotQueue => bgs'[c].m_InBGFreeSlotQueue
      BY <1>1, <1>17, <2>2, Zenon
    <3>3. QED
      BY <1>17, <2>1, <3>1, <3>2, Zenon DEF FreeSlots
  <2>5. QED
    BY <2>3, <2>4, Zenon
<1>19. PlayersType'
  <2>1. bgInstanceID' \in [Players -> BgIds \cup {0}] /\ bgTeam' \in [Players -> Teams \cup {NULL}]
    BY <1>6, Zenon DEF IInv, PlayersType
  <2>2. \A p \in travelling : p \notin L /\ p \in Players
    BY InsideIs, Zenon DEF IInv, PlayersType
  <2>3. \A p \in travelling : bgInstanceID'[p] # 0 /\ bgTeam'[p] \in Teams
    BY <1>6, <2>2, Zenon DEF IInv, PlayersType
  <2>4. QED
    BY <2>1, <2>3, Zenon DEF IInv, PlayersType
<1>20. QueueType'
  <2>1. queueSlot' \in [Players -> BgIds \cup {0, NULL}]
    BY <1>6, Zenon DEF IInv, QueueType
  <2>2. scheduled' \in BOOLEAN
    BY <1>6, Zenon
  <2>3. QED
    BY <1>17, <1>18, <2>1, <2>2, Zenon DEF IInv, QueueType
<1>21. ASSUME NEW q \in L
       PROVE  queueSlot'[q] = NULL /\ (q \in online' => bgInstanceID'[q] = 0)
  <2>1. q \in Players /\ \A d, t, time : ~In(queuedGroups, q, d, t, time)
    BY InsideIs, Zenon
  <2>2. q \notin online => queueSlot[q] = NULL
    BY <2>1, Zenon DEF IInv, Others
  <2>3. QED
    BY <1>6, <2>1, <2>2, Zenon
<1>22. ASSUME NEW q \in Players \ L
       PROVE  /\ queueSlot'[q] = queueSlot[q] /\ (q \in online' <=> q \in online)
              /\ bgInstanceID'[q] = bgInstanceID[q] /\ bgTeam'[q] = bgTeam[q]
  BY <1>6, Zenon
<1>23. QED
  BY <1>6, <1>14, <1>18, <1>19, <1>20, <1>21, <1>22, LeftStep, Zenon

LEMMA LeaveStep ==
    ASSUME IInv, NEW p \in Players, LeaveBattleground(p)
    PROVE  IInv'
<1>1. PICK b : b = bgInstanceID[p]
  OBVIOUS
<1>2. /\ p \in online /\ p \notin travelling /\ b # 0 /\ bgs[b] # NULL
      /\ RemovePlayerAtLeave(b, {p}, FALSE) /\ UNCHANGED <<online, travelling, queuedGroups, events>>
  BY <1>1, Zenon DEF LeaveBattleground, InWorld, queueVars
<1>3. b \in Running(bgs) /\ p \in DOMAIN bgs[b].m_Players
  BY <1>1, <1>2, Zenon DEF IInv, Others
<1>4. PICK L \in SUBSET DOMAIN bgs[b].m_Players : L = {p}
  BY <1>3, Zenon
<1>5. RemovePlayerAtLeave(b, L, FALSE)
  BY <1>2, <1>4, Zenon
<1>6. QED
  BY <1>2, <1>3, <1>5, RemovalStep, Zenon

\* Whoever is inside a battleground is inside one there is.
LEMMA NotEmpty ==
    ASSUME NEW b \in BgIds, NEW p, p \in Inside(b)
    PROVE  b \in Running(bgs) /\ p \in DOMAIN bgs[b].m_Players /\ Inside(b) = DOMAIN bgs[b].m_Players
BY DEF Inside, Running

LEMMA OfflineStep ==
    ASSUME IInv, NEW b \in BgIds, ProcessOfflineQueue(b)
    PROVE  IInv'
<1>1. PICK p : p = Head(bgs[b].m_OfflineQueue)
  OBVIOUS
<1>2. /\ bgs[b].m_OfflineQueue # <<>> /\ p \in Inside(b) /\ RemovePlayerAtLeave(b, {p}, TRUE)
      /\ UNCHANGED <<online, travelling, queuedGroups, events>>
  BY <1>1, Zenon DEF ProcessOfflineQueue, queueVars
<1>3. b \in Running(bgs) /\ p \in DOMAIN bgs[b].m_Players
  BY <1>2, NotEmpty, Zenon
<1>4. PICK L \in SUBSET DOMAIN bgs[b].m_Players : L = {p}
  BY <1>3, Zenon
<1>5. RemovePlayerAtLeave(b, L, TRUE)
  BY <1>2, <1>4, Zenon
<1>6. QED
  BY <1>2, <1>3, <1>5, RemovalStep, Zenon

LEMMA ProcessLeaveStep ==
    ASSUME IInv, NEW b \in BgIds, ProcessLeave(b)
    PROVE  IInv'
<1>1. /\ Inside(b) # {} /\ RemovePlayerAtLeave(b, Inside(b), FALSE)
      /\ UNCHANGED <<online, travelling, queuedGroups, events>>
  BY Zenon DEF ProcessLeave, queueVars
<1>2. PICK p : p \in Inside(b)
  BY <1>1, Zenon
<1>3. b \in Running(bgs) /\ Inside(b) = DOMAIN bgs[b].m_Players
  BY <1>2, NotEmpty, Zenon
<1>4. PICK L \in SUBSET DOMAIN bgs[b].m_Players : L = Inside(b)
  BY <1>3, Zenon
<1>5. RemovePlayerAtLeave(b, L, FALSE)
  BY <1>1, <1>4, Zenon
<1>6. QED
  BY <1>1, <1>3, <1>5, RemovalStep, Zenon

\* A player who loads. It may find that it has no battleground any more.
LEMMA LoadedStep ==
    ASSUME IInv, NEW p \in Players, p \notin online, online' = online \cup {p},
           \A c \in Running(bgs) : p \notin DOMAIN bgs[c].m_Players,
           bgInstanceID' = [bgInstanceID EXCEPT ![p] = 0], bgs' = bgs,
           bgTeam' = [bgTeam EXCEPT ![p] = NULL],
           UNCHANGED <<freeSlotQueue, scheduled, travelling, queueSlot, queuedGroups, events>>
    PROVE  IInv'
<1>1. p \notin travelling
  BY Zenon DEF IInv, PlayersType
<1>2. /\ bgInstanceID' \in [Players -> BgIds \cup {0}] /\ bgInstanceID'[p] = 0
      /\ bgTeam' \in [Players -> Teams \cup {NULL}]
      /\ \A q \in Players \ {p} : bgInstanceID'[q] = bgInstanceID[q] /\ bgTeam'[q] = bgTeam[q]
  BY Zenon DEF IInv, PlayersType
<1>3. PlayersType'
  <2>1. /\ online \subseteq Players /\ travelling \subseteq online
        /\ \A q \in travelling : bgInstanceID[q] # 0 /\ bgTeam[q] \in Teams
    BY Zenon DEF IInv, PlayersType
  <2>2. QED
    BY <1>1, <1>2, <2>1 DEF PlayersType
<1>4. QueueType' /\ Disjoint(queuedGroups)' /\ LastEvents(queuedGroups, events)'
  BY Zenon DEF IInv, QueueType
<1>5. FreeSlots(bgs, freeSlotQueue)'
  BY Zenon DEF IInv, FreeSlots
<1>6. \A b, team, time : ~In(queuedGroups, p, b, team, time)
  BY NotInQueue, Zenon
<1>7. queueSlot[p] = NULL
  BY NotInQueue, Zenon
<1>8. PICK M : M = {p}
  BY Zenon
<1>9. \A q \in Players \ M : Untouched(q)
  BY <1>2, <1>8, Zenon DEF Untouched
<1>10. PlayerOK(p)'
  BY <1>2, <1>6, <1>7, Zenon DEF PlayerOK
<1>11. \A c \in Running(bgs), t \in Teams :
          CountedAt(queuedGroups, bgs, p, c, t)' <=> CountedAt(queuedGroups, bgs, p, c, t)
  BY <1>1, <1>6, Zenon DEF CountedAt
<1>12. /\ \A q \in M : PlayerOK(q)'
       /\ \A c \in Running(bgs), t \in Teams, q \in M :
             CountedAt(queuedGroups, bgs, q, c, t)' <=> CountedAt(queuedGroups, bgs, q, c, t)
  BY <1>8, <1>10, <1>11, Zenon
<1>13. QED
  BY <1>3, <1>4, <1>5, <1>9, <1>12, StepUncounted

LEMMA EntryPointStep ==
    ASSUME IInv, NEW p \in Players, ReturnToEntryPoint(p)
    PROVE  IInv'
<1>1. PICK b : b = bgInstanceID[p]
  OBVIOUS
<1>2. /\ p \notin online /\ online' = online \cup {p}
      /\ bgs' = IF b # 0 /\ p \in Inside(b)
                THEN [bgs EXCEPT ![b] =
                        [DecreaseInvitedCount(bgs[b], bgs[b].m_Players[p], 1) EXCEPT
                            !.m_Players = Restrict(bgs[b].m_Players, Inside(b) \ {p})]]
                ELSE bgs
      /\ bgInstanceID' = [bgInstanceID EXCEPT ![p] = 0] /\ bgTeam' = [bgTeam EXCEPT ![p] = NULL]
      /\ UNCHANGED <<freeSlotQueue, scheduled, travelling, queueSlot, queuedGroups, events>>
  BY <1>1, Zenon DEF ReturnToEntryPoint, queueVars
<1>3. bgs \in [BgIds -> Battlegrounds \cup {NULL}] /\ b \in BgIds \cup {0}
  BY <1>1, Zenon DEF IInv, QueueType, PlayersType
<1>4. CASE b # 0 /\ p \in Inside(b)
  <2>1. b \in BgIds /\ b \in Running(bgs) /\ p \in DOMAIN bgs[b].m_Players
    BY <1>3, <1>4, NotEmpty, Zenon
  <2>2. PICK bg, team : bg = bgs[b] /\ team = bg.m_Players[p]
    BY Zenon
  <2>3. bg \in Battlegrounds /\ team \in Teams /\ DOMAIN bg.m_Players \subseteq Players
        /\ bg.m_Players \in [DOMAIN bg.m_Players -> Teams]
    <3>1. bg \in Battlegrounds
      BY <2>1, <2>2, RunningIs, Zenon DEF IInv
    <3>2. QED
      BY <2>1, <2>2, <3>1, BgFields, Zenon
  <2>4. PICK L \in SUBSET DOMAIN bgs[b].m_Players : L = {p}
    BY <2>1, Zenon
  <2>5. \A t \in Teams : Cardinality({q \in L : bg.m_Players[q] = t}) = IF t = team THEN 1 ELSE 0
    <3>1. ASSUME NEW t \in Teams, t = team PROVE Cardinality({q \in L : bg.m_Players[q] = t}) = 1
      <4>1. {q \in L : bg.m_Players[q] = t} = {p}
        BY <2>2, <2>4, <3>1, Zenon
      <4>2. QED
        BY <4>1, FS_Singleton, Zenon
    <3>2. ASSUME NEW t \in Teams, t # team PROVE Cardinality({q \in L : bg.m_Players[q] = t}) = 0
      <4>1. {q \in L : bg.m_Players[q] = t} = {}
        BY <2>2, <2>4, <3>2, Zenon
      <4>2. QED
        BY <4>1, FS_EmptySet, Zenon
    <3>3. QED
      BY <3>1, <3>2, Zenon
  <2>6. \A t \in Teams :
           /\ bg.invited[t] \in Nat /\ bg.invited[t] <= Cardinality(Players)
           /\ (t = team => 1 <= bg.invited[t])
           /\ Cardinality(Counted(queuedGroups, bgs, b, t) \ L) =
                 bg.invited[t] - IF t = team THEN 1 ELSE 0
    <3>1. ASSUME NEW t \in Teams
          PROVE  /\ bg.invited[t] \in Nat /\ bg.invited[t] <= Cardinality(Players)
                 /\ (t = team => 1 <= bg.invited[t])
                 /\ Cardinality(Counted(queuedGroups, bgs, b, t) \ L) =
                       bg.invited[t] - IF t = team THEN 1 ELSE 0
      <4>1. PICK k : k = Cardinality({q \in L : bg.m_Players[q] = t})
        OBVIOUS
      <4>2. /\ k <= bg.invited[t] /\ bg.invited[t] \in Nat
            /\ bg.invited[t] <= Cardinality(Players)
            /\ Cardinality(Counted(queuedGroups, bgs, b, t) \ L) = bg.invited[t] - k
        BY <2>1, <2>2, <4>1, LeftCount, Zenon
      <4>3. QED
        BY <2>5, <4>1, <4>2, Zenon
    <3>2. QED
      BY <3>1, Zenon
  <2>7. PICK less : less = DecreaseInvitedCount(bg, team, 1)
    OBVIOUS
  <2>8. Recounted(bg, less, team, bg.invited[team] - 1)
    BY <2>3, <2>6, <2>7, Decreased, Zenon
  <2>9. PICK in, sides : in = DOMAIN bg.m_Players \ {p} /\ sides = Restrict(bg.m_Players, in)
    BY Zenon
  <2>10. /\ in \in SUBSET Players /\ sides \in [in -> Teams]
         /\ \A q \in in : sides[q] = bg.m_Players[q]
    BY <2>3, <2>9, Zenon DEF Restrict
  <2>11. PICK e : e = [less EXCEPT !.m_Players = sides]
    BY Zenon
  <2>12. /\ e \in Battlegrounds /\ e.m_Players = sides /\ e.invited = less.invited
         /\ e.m_InBGFreeSlotQueue = bg.m_InBGFreeSlotQueue
    <3>1. sides \in UNION {[inside -> Teams] : inside \in SUBSET Players}
      BY <2>10, Zenon
    <3>2. less \in Battlegrounds /\ less.m_InBGFreeSlotQueue = bg.m_InBGFreeSlotQueue
      BY <2>8, Zenon DEF Recounted
    <3>3. QED
      BY <2>11, <3>1, <3>2, Zenon DEF Battlegrounds
  <2>13. bgs' = [bgs EXCEPT ![b] = e]
    <3>1. DOMAIN bg.m_Players = Inside(b)
      BY <1>4, <2>2, Zenon DEF Inside
    <3>2. e = [less EXCEPT !.m_Players = Restrict(bg.m_Players, Inside(b) \ {p})]
      BY <2>9, <2>11, <3>1, Zenon
    <3>3. QED
      BY <1>2, <1>4, <2>2, <2>7, <3>2, Zenon
  <2>14. Left(b, L, e)
    <3>1. /\ e.invited[team] = bg.invited[team] - 1
          /\ \A t \in Teams \ {team} : e.invited[t] = bg.invited[t]
      <4>1. /\ less.invited[team] = bg.invited[team] - 1
            /\ \A t \in Teams \ {team} : less.invited[t] = bg.invited[t]
        BY <2>8, Zenon DEF Recounted
      <4>2. QED
        BY <2>12, <4>1, Zenon
    <3>2. ASSUME NEW t \in Teams
          PROVE  e.invited[t] = Cardinality(Counted(queuedGroups, bgs, b, t) \ L)
      <4>1. PICK n : n = Cardinality(Counted(queuedGroups, bgs, b, t) \ L)
        BY Zenon
      <4>2. bg.invited[t] \in Nat /\ n = bg.invited[t] - IF t = team THEN 1 ELSE 0
        BY <2>6, <4>1, Zenon
      <4>3. CASE t = team
        BY <3>1, <4>1, <4>2, <4>3, Zenon
      <4>4. CASE t # team
        BY <3>1, <4>1, <4>2, <4>4
      <4>5. QED
        BY <4>3, <4>4, Zenon
    <3>3. QED
      BY <2>2, <2>4, <2>9, <2>10, <2>12, <3>2, Zenon DEF Left
  <2>15. Replaced(bgs, [bgs EXCEPT ![b] = e], b, e)
    BY <1>3, <2>1, <2>12, BgReplaced, Zenon
  <2>16. /\ bgs' \in [BgIds -> Battlegrounds \cup {NULL}] /\ Running(bgs') = Running(bgs)
         /\ bgs'[b] = e /\ \A c \in Running(bgs) : c # b => bgs'[c] = bgs[c]
    BY <2>13, <2>15, Zenon DEF Replaced
  <2>17. \A c \in Running(bgs) : bgs'[c].m_InBGFreeSlotQueue = bgs[c].m_InBGFreeSlotQueue
    BY <2>2, <2>12, <2>16, Zenon
  <2>18. FreeSlots(bgs, freeSlotQueue)'
    BY <1>2, <2>16, <2>17, Zenon DEF IInv, FreeSlots
  <2>19. QueueType'
    BY <1>2, <2>16, Zenon DEF IInv, QueueType
  <2>20. /\ bgInstanceID' \in [Players -> BgIds \cup {0}] /\ bgInstanceID'[p] = 0
         /\ bgTeam' \in [Players -> Teams \cup {NULL}]
         /\ \A q \in Players \ {p} : bgInstanceID'[q] = bgInstanceID[q] /\ bgTeam'[q] = bgTeam[q]
    BY <1>2, Zenon DEF IInv, PlayersType
  <2>21. PlayersType'
    <3>1. /\ online \subseteq Players /\ travelling \subseteq online
          /\ \A q \in travelling : bgInstanceID[q] # 0 /\ bgTeam[q] \in Teams
      BY Zenon DEF IInv, PlayersType
    <3>2. QED
      BY <1>2, <2>20, <3>1 DEF PlayersType
  <2>22. queueSlot[p] = NULL
    BY <1>2, NotInQueue, Zenon
  <2>23. /\ \A q \in L : queueSlot'[q] = NULL /\ (q \in online' => bgInstanceID'[q] = 0)
         /\ \A q \in Players \ L :
              /\ queueSlot'[q] = queueSlot[q] /\ (q \in online' <=> q \in online)
              /\ bgInstanceID'[q] = bgInstanceID[q] /\ bgTeam'[q] = bgTeam[q]
    BY <1>2, <2>4, <2>20, <2>22
  <2>24. QED
    BY <1>2, <2>1, <2>13, <2>14, <2>18, <2>19, <2>21, <2>23, LeftStep, Zenon
<1>5. CASE ~(b # 0 /\ p \in Inside(b))
  <2>1. bgs' = bgs
    BY <1>2, <1>5, Zenon
  <2>2. \A c \in Running(bgs) : p \notin DOMAIN bgs[c].m_Players
    BY <1>1, <1>5, RunningIs DEF IInv, Others, Inside, Running
  <2>3. QED
    BY <1>2, <2>1, <2>2, LoadedStep, Zenon
<1>6. QED
  BY <1>4, <1>5, Zenon

-----------------------------------------------------------------------------
(* Steps of a battleground *)

LEMMA BgStep ==
    ASSUME IInv, bgs' \in [BgIds -> Battlegrounds \cup {NULL}], Running(bgs') = Running(bgs),
           \A c \in Running(bgs) :
              bgs'[c].invited = bgs[c].invited /\ bgs'[c].m_Players = bgs[c].m_Players,
           freeSlotQueue' \in Seq(BgIds), FreeSlots(bgs, freeSlotQueue)',
           UNCHANGED <<scheduled, online, travelling, bgInstanceID, bgTeam, queueSlot,
                       queuedGroups, events>>
    PROVE  IInv'
<1>1. PlayersType' /\ QueueType' /\ Disjoint(queuedGroups)' /\ LastEvents(queuedGroups, events)'
  BY DEF IInv, PlayersType, QueueType
<1>2. PICK M : M = {}
  BY Zenon
<1>3. /\ \A q \in M : PlayerOK(q)'
      /\ \A c \in Running(bgs), t \in Teams, q \in M :
            CountedAt(queuedGroups, bgs, q, c, t)' <=> CountedAt(queuedGroups, bgs, q, c, t)
  BY <1>2, Zenon
<1>4. \A q \in Players \ M : Untouched(q)
  BY Zenon DEF Untouched
<1>5. \A c \in Running(bgs), t \in Teams : bgs'[c].invited[t] = bgs[c].invited[t]
  BY Zenon
<1>6. QED
  BY <1>1, <1>3, <1>4, <1>5, StepUncounted, Zenon

LEMMA ProcessJoinStep ==
    ASSUME IInv, NEW b \in BgIds, ProcessJoin(b)
    PROVE  IInv'
<1>1. /\ Inside(b) # {} /\ bgs' = [bgs EXCEPT ![b].status = "IN_PROGRESS"]
      /\ UNCHANGED <<freeSlotQueue, scheduled, online, travelling, bgInstanceID, bgTeam, queueSlot,
                     queuedGroups, events>>
  BY Zenon DEF ProcessJoin, playerVars, queueVars
<1>2. b \in Running(bgs) /\ bgs[b] \in Battlegrounds /\ bgs \in [BgIds -> Battlegrounds \cup {NULL}]
  BY <1>1, NotEmpty, RunningIs, Zenon DEF IInv, QueueType
<1>3. PICK e : e = [bgs[b] EXCEPT !.status = "IN_PROGRESS"]
  BY Zenon
<1>4. /\ e \in Battlegrounds /\ e.invited = bgs[b].invited /\ e.m_Players = bgs[b].m_Players
      /\ e.m_InBGFreeSlotQueue = bgs[b].m_InBGFreeSlotQueue
  BY <1>2, <1>3, Zenon DEF Battlegrounds
<1>5. Replaced(bgs, [bgs EXCEPT ![b] = e], b, e)
  BY <1>2, <1>4, BgReplaced, Zenon
<1>6. bgs' = [bgs EXCEPT ![b] = e]
  BY <1>1, <1>3, Zenon
<1>7. /\ bgs' \in [BgIds -> Battlegrounds \cup {NULL}] /\ Running(bgs') = Running(bgs)
      /\ bgs'[b] = e /\ \A c \in Running(bgs) : c # b => bgs'[c] = bgs[c]
  BY <1>5, <1>6, Zenon DEF Replaced
<1>8. \A c \in Running(bgs) :
         /\ bgs'[c].invited = bgs[c].invited /\ bgs'[c].m_Players = bgs[c].m_Players
         /\ bgs'[c].m_InBGFreeSlotQueue = bgs[c].m_InBGFreeSlotQueue
  BY <1>4, <1>7, Zenon
<1>9. freeSlotQueue' \in Seq(BgIds) /\ FreeSlots(bgs, freeSlotQueue)'
  BY <1>1, <1>7, <1>8, Zenon DEF IInv, QueueType, FreeSlots
<1>10. QED
  BY <1>1, <1>7, <1>8, <1>9, BgStep, Zenon

\* BGFreeSlotQueue when b is erased.
LEMMA NotWantedIs ==
    ASSUME IInv, NEW b \in BgIds
    PROVE  /\ EraseFirst(freeSlotQueue, b) \in Seq(BgIds)
           /\ \A new : (\A c \in Running(bgs) : c # b =>
                           c \in Running(new) /\ (bgs[c].m_InBGFreeSlotQueue => new[c].m_InBGFreeSlotQueue))
                       => FreeSlots(new, EraseFirst(freeSlotQueue, b))
<1>1. freeSlotQueue \in Seq(BgIds) /\ FreeSlots(bgs, freeSlotQueue)
  BY Zenon DEF IInv, QueueType
<1>2. \A k, l \in DOMAIN freeSlotQueue : k # l => freeSlotQueue[k] # freeSlotQueue[l]
  BY <1>1, Zenon DEF FreeSlots
<1>3. PICK queue : queue = EraseFirst(freeSlotQueue, b)
  BY Zenon
<1>4. /\ queue \in Seq(BgIds) /\ \A k, l \in DOMAIN queue : k # l => queue[k] # queue[l]
      /\ \A k \in DOMAIN queue :
            queue[k] # b /\ \E l \in DOMAIN freeSlotQueue : freeSlotQueue[l] = queue[k]
  BY <1>1, <1>2, <1>3, EraseFirstType, Erased
<1>5. \A k \in DOMAIN queue :
         queue[k] # b /\ queue[k] \in Running(bgs) /\ bgs[queue[k]].m_InBGFreeSlotQueue
  BY <1>1, <1>4, Zenon DEF FreeSlots
<1>6. QED
  BY <1>3, <1>4, <1>5, Zenon DEF FreeSlots

LEMMA EndStep ==
    ASSUME IInv, NEW b \in BgIds, EndBattleground(b)
    PROVE  IInv'
<1>1. /\ Inside(b) # {} /\ freeSlotQueue' = EraseFirst(freeSlotQueue, b)
      /\ bgs' = [bgs EXCEPT ![b].status = "WAIT_LEAVE", ![b].m_InBGFreeSlotQueue = FALSE]
      /\ UNCHANGED <<scheduled, online, travelling, bgInstanceID, bgTeam, queueSlot,
                     queuedGroups, events>>
  BY Zenon DEF EndBattleground, NotWanted, playerVars, queueVars
<1>2. b \in Running(bgs) /\ bgs[b] \in Battlegrounds /\ bgs \in [BgIds -> Battlegrounds \cup {NULL}]
  BY <1>1, NotEmpty, RunningIs, Zenon DEF IInv, QueueType
<1>3. PICK over : over = [bgs[b] EXCEPT !.status = "WAIT_LEAVE"]
  BY Zenon
<1>4. PICK e : e = [over EXCEPT !.m_InBGFreeSlotQueue = FALSE]
  BY Zenon
<1>5. /\ over \in Battlegrounds /\ over.invited = bgs[b].invited /\ over.m_Players = bgs[b].m_Players
  BY <1>2, <1>3, Zenon DEF Battlegrounds
<1>6. e \in Battlegrounds /\ e.invited = bgs[b].invited /\ e.m_Players = bgs[b].m_Players
  BY <1>4, <1>5, Zenon DEF Battlegrounds
<1>7. Replaced(bgs, [bgs EXCEPT ![b] = e], b, e)
  BY <1>2, <1>6, BgReplaced, Zenon
<1>8. bgs' = [bgs EXCEPT ![b] = e]
  BY <1>1, <1>2, <1>3, <1>4, Zenon
<1>9. /\ bgs' \in [BgIds -> Battlegrounds \cup {NULL}] /\ Running(bgs') = Running(bgs)
      /\ bgs'[b] = e /\ \A c \in Running(bgs) : c # b => bgs'[c] = bgs[c]
  BY <1>7, <1>8 DEF Replaced
<1>10. \A c \in Running(bgs) :
          bgs'[c].invited = bgs[c].invited /\ bgs'[c].m_Players = bgs[c].m_Players
  BY <1>6, <1>9, Zenon
<1>11. freeSlotQueue' \in Seq(BgIds) /\ FreeSlots(bgs, freeSlotQueue)'
  <2>1. PICK new : new = bgs'
    BY Zenon
  <2>2. \A c \in Running(bgs) : c # b =>
           c \in Running(new) /\ (bgs[c].m_InBGFreeSlotQueue => new[c].m_InBGFreeSlotQueue)
    BY <1>9, <2>1, Zenon
  <2>3. FreeSlots(new, EraseFirst(freeSlotQueue, b)) /\ EraseFirst(freeSlotQueue, b) \in Seq(BgIds)
    BY <2>2, NotWantedIs, Zenon
  <2>4. QED
    BY <1>1, <2>1, <2>3, Zenon DEF FreeSlots
<1>12. QED
  BY <1>1, <1>9, <1>10, <1>11, BgStep, Zenon

LEMMA ReturnStep ==
    ASSUME IInv, NEW p \in Players, ReturnToBattleground(p)
    PROVE  IInv'
<1>1. PICK b : b = bgInstanceID[p]
  OBVIOUS
<1>2. /\ p \notin online /\ b # 0 /\ p \in Inside(b) /\ online' = online \cup {p}
      /\ queueSlot' = [queueSlot EXCEPT ![p] = b]
      /\ bgs' = [bgs EXCEPT ![b].m_OfflineQueue = EraseFirst(@, p)]
      /\ UNCHANGED <<freeSlotQueue, scheduled, travelling, bgInstanceID, bgTeam, queuedGroups, events>>
  BY <1>1, Zenon DEF ReturnToBattleground, queueVars
<1>3. b \in BgIds /\ bgs \in [BgIds -> Battlegrounds \cup {NULL}]
  BY <1>1, <1>2, Zenon DEF IInv, PlayersType, QueueType
<1>4. b \in Running(bgs) /\ p \in DOMAIN bgs[b].m_Players
  BY <1>2, <1>3, NotEmpty, Zenon
<1>5. bgs[b] \in Battlegrounds
  BY <1>4, RunningIs, Zenon DEF IInv
<1>6. PICK s : s = EraseFirst(bgs[b].m_OfflineQueue, p)
  BY Zenon
<1>7. s \in Seq(Players)
  BY <1>5, <1>6, BgFields, EraseFirstType
<1>8. PICK e : e = [bgs[b] EXCEPT !.m_OfflineQueue = s]
  BY Zenon
<1>9. /\ e \in Battlegrounds /\ e.invited = bgs[b].invited /\ e.m_Players = bgs[b].m_Players
      /\ e.m_InBGFreeSlotQueue = bgs[b].m_InBGFreeSlotQueue
  BY <1>5, <1>7, <1>8, OfflineIs
<1>10. bgs' = [bgs EXCEPT ![b] = e]
  BY <1>2, <1>6, <1>8, Zenon
<1>11. Replaced(bgs, [bgs EXCEPT ![b] = e], b, e)
  BY <1>3, <1>4, <1>9, BgReplaced, Zenon
<1>12. /\ bgs' \in [BgIds -> Battlegrounds \cup {NULL}] /\ Running(bgs') = Running(bgs)
       /\ bgs'[b] = e /\ \A c \in Running(bgs) : c # b => bgs'[c] = bgs[c]
  BY <1>10, <1>11, Zenon DEF Replaced
<1>13. \A c \in Running(bgs) :
          /\ bgs'[c].invited = bgs[c].invited /\ bgs'[c].m_Players = bgs[c].m_Players
          /\ bgs'[c].m_InBGFreeSlotQueue = bgs[c].m_InBGFreeSlotQueue
  BY <1>9, <1>12, Zenon
<1>14. FreeSlots(bgs, freeSlotQueue)'
  BY <1>2, <1>12, <1>13, Zenon DEF IInv, FreeSlots
<1>15. /\ queueSlot' \in [Players -> BgIds \cup {0, NULL}] /\ queueSlot'[p] = b
       /\ \A q \in Players \ {p} : queueSlot'[q] = queueSlot[q]
  BY <1>2, <1>3, Zenon DEF IInv, QueueType
<1>16. PlayersType' /\ QueueType' /\ Disjoint(queuedGroups)' /\ LastEvents(queuedGroups, events)'
  <2>1. PlayersType'
    BY <1>2, Zenon DEF IInv, PlayersType
  <2>2. QueueType'
    BY <1>2, <1>12, <1>15, Zenon DEF IInv, QueueType
  <2>3. QED
    BY <1>2, <2>1, <2>2, Zenon DEF IInv
<1>17. PICK M : M = {p}
  BY Zenon
<1>18. \A q \in Players \ M : Untouched(q)
  BY <1>2, <1>13, <1>15, <1>17, Zenon DEF Untouched
<1>19. /\ p \notin travelling /\ \A d, t, time : ~In(queuedGroups, p, d, t, time)
       /\ \A c \in Running(bgs) : p \in DOMAIN bgs[c].m_Players => c = b
  BY <1>4, InsideIs, Zenon
<1>20. PlayerOK(p)'
  BY <1>1, <1>2, <1>4, <1>12, <1>13, <1>15, <1>19, Zenon DEF PlayerOK
<1>21. \A c \in Running(bgs), t \in Teams :
          CountedAt(queuedGroups, bgs, p, c, t)' <=> CountedAt(queuedGroups, bgs, p, c, t)
  BY <1>2, <1>13, Zenon DEF CountedAt
<1>22. /\ \A q \in M : PlayerOK(q)'
       /\ \A c \in Running(bgs), t \in Teams, q \in M :
             CountedAt(queuedGroups, bgs, q, c, t)' <=> CountedAt(queuedGroups, bgs, q, c, t)
       /\ \A c \in Running(bgs), t \in Teams : bgs'[c].invited[t] = bgs[c].invited[t]
  BY <1>13, <1>17, <1>20, <1>21, Zenon
<1>23. QED
  BY <1>12, <1>14, <1>16, <1>18, <1>22, StepUncounted, Zenon

\* Nobody is counted for a battleground: nobody belongs to it.
LEMMA NobodyCounted ==
    ASSUME IInv, NEW b \in Running(bgs), \A t \in Teams : bgs[b].invited[t] = 0
    PROVE  /\ \A p, team, time : ~In(queuedGroups, p, b, team, time)
           /\ \A p \in online : bgInstanceID[p] # b
<1>1. \A t \in Teams : Counted(queuedGroups, bgs, b, t) = {}
  <2>1. ASSUME NEW t \in Teams PROVE Counted(queuedGroups, bgs, b, t) = {}
    <3>1. IsFiniteSet(Counted(queuedGroups, bgs, b, t))
      BY CountedIsFinite, Zenon
    <3>2. Cardinality(Counted(queuedGroups, bgs, b, t)) = 0
      BY Zenon DEF IInv, Counts
    <3>3. QED
      BY <3>1, <3>2, FS_EmptySet, Zenon
  <2>2. QED
    BY <2>1, Zenon
<1>2. \A p \in Players, t \in Teams : ~CountedAt(queuedGroups, bgs, p, b, t)
  BY <1>1, Zenon DEF Counted
<1>3. ASSUME NEW p, NEW team, NEW time, In(queuedGroups, p, b, team, time) PROVE FALSE
  <2>1. p \in Players
    BY <1>3, InIsPlayer, Zenon DEF IInv
  <2>2. team \in Teams
    BY <1>3, GroupFields DEF In, IInv, QueueType
  <2>3. QED
    BY <1>2, <1>3, <2>1, <2>2, Zenon DEF CountedAt
<1>4. ASSUME NEW p \in online, bgInstanceID[p] = b PROVE FALSE
  <2>1. p \in Players /\ b # 0
    BY RunningIs, Zenon DEF IInv, PlayersType
  <2>2. p \in travelling <=> p \notin DOMAIN bgs[b].m_Players
    BY <1>4, <2>1, Zenon DEF IInv, Others
  <2>3. p \in travelling => bgTeam[p] \in Teams
    BY Zenon DEF IInv, PlayersType
  <2>4. p \in DOMAIN bgs[b].m_Players => bgs[b].m_Players[p] \in Teams
    BY RunningIs, BgFields, Zenon DEF IInv
  <2>5. QED
    BY <1>2, <1>4, <2>1, <2>2, <2>3, <2>4, Zenon DEF CountedAt
<1>5. QED
  BY <1>3, <1>4, Zenon

LEMMA DeleteStep ==
    ASSUME IInv, NEW b \in BgIds, DeleteEmpty(b)
    PROVE  IInv'
<1>1. /\ bgs[b] # NULL /\ Inside(b) = {} /\ \A t \in Teams : bgs[b].invited[t] = 0
      /\ bgs' = [bgs EXCEPT ![b] = NULL] /\ freeSlotQueue' = EraseFirst(freeSlotQueue, b)
      /\ UNCHANGED <<scheduled, online, travelling, bgInstanceID, bgTeam, queueSlot,
                     queuedGroups, events>>
  BY Zenon DEF DeleteEmpty, NotWanted, playerVars, queueVars
<1>2. b \in Running(bgs) /\ bgs \in [BgIds -> Battlegrounds \cup {NULL}]
  BY <1>1, Zenon DEF Running, IInv, QueueType
<1>3. /\ \A p, team, time : ~In(queuedGroups, p, b, team, time)
      /\ \A p \in online : bgInstanceID[p] # b
  BY <1>1, <1>2, NobodyCounted, Zenon
<1>4. PICK new : new = bgs'
  OBVIOUS
<1>5. /\ new \in [BgIds -> Battlegrounds \cup {NULL}] /\ Running(new) = Running(bgs) \ {b}
      /\ \A c \in Running(new) : new[c] = bgs[c]
  BY <1>1, <1>2, <1>4, Zenon DEF Running
<1>6. freeSlotQueue' \in Seq(BgIds) /\ FreeSlots(bgs, freeSlotQueue)'
  <2>1. \A c \in Running(bgs) : c # b =>
           c \in Running(new) /\ (bgs[c].m_InBGFreeSlotQueue => new[c].m_InBGFreeSlotQueue)
    BY <1>5, Zenon
  <2>2. FreeSlots(new, EraseFirst(freeSlotQueue, b)) /\ EraseFirst(freeSlotQueue, b) \in Seq(BgIds)
    BY <2>1, NotWantedIs
  <2>3. QED
    BY <1>1, <1>4, <2>2, Zenon DEF FreeSlots
<1>7. PlayersType' /\ QueueType' /\ Disjoint(queuedGroups)' /\ LastEvents(queuedGroups, events)'
  BY <1>1, <1>4, <1>5, <1>6, Zenon DEF IInv, PlayersType, QueueType
<1>8. Waiters(queuedGroups, bgs, queueSlot)'
  <2>1. \A p, c, team, time : In(queuedGroups, p, c, team, time) =>
           /\ p \in online /\ bgInstanceID[p] = 0 /\ queueSlot[p] = c
           /\ c \in Running(new) \cup {0}
    <3>1. \A p, c, team, time : In(queuedGroups, p, c, team, time) =>
             /\ p \in online /\ bgInstanceID[p] = 0 /\ queueSlot[p] = c
             /\ c \in Running(bgs) \cup {0} /\ c # b
      BY <1>3, Zenon DEF IInv, Waiters
    <3>2. \A c \in Running(bgs) \cup {0} : c # b => c \in Running(new) \cup {0}
      BY <1>5, Zenon
    <3>3. QED
      BY <3>1, <3>2, Zenon
  <2>2. QED
    BY <1>1, <1>4, <2>1, Zenon DEF Waiters
<1>9. Others(queuedGroups, bgs, queueSlot)'
  <2>1. \A p \in online : bgInstanceID[p] # 0 =>
           /\ bgInstanceID[p] \in Running(new)
           /\ p \in travelling <=> p \notin DOMAIN new[bgInstanceID[p]].m_Players
    BY <1>3, <1>5, Zenon DEF IInv, Others
  <2>2. \A c \in Running(new) : \A p \in DOMAIN new[c].m_Players : bgInstanceID[p] = c
    BY <1>5, Zenon DEF IInv, Others
  <2>3. QED
    BY <1>1, <1>4, <2>1, <2>2, Zenon DEF IInv, Others
<1>10. Counts(queuedGroups, bgs)'
  <2>1. ASSUME NEW c \in Running(new), NEW t \in Teams
        PROVE  new[c].invited[t] = Cardinality(Counted(queuedGroups, bgs, c, t)')
    <3>1. Counted(queuedGroups, bgs, c, t)' = Counted(queuedGroups, bgs, c, t)
      BY <1>1, <1>4, <1>5, Zenon DEF Counted, CountedAt
    <3>2. bgs[c].invited[t] = Cardinality(Counted(queuedGroups, bgs, c, t))
      BY <1>5, Zenon DEF IInv, Counts
    <3>3. QED
      BY <1>5, <3>1, <3>2, Zenon
  <2>2. QED
    BY <1>4, <2>1, Zenon DEF Counts
<1>11. QED
  BY <1>6, <1>7, <1>8, <1>9, <1>10, Zenon DEF IInv

-----------------------------------------------------------------------------
(* The theorems *)

LEMMA InvInit ==
    Init => IInv
<1> SUFFICES ASSUME Init PROVE IInv
  BY Zenon
<1>1. PlayersType /\ QueueType
  <2>1. PlayersType
    BY Zenon DEF Init, PlayersType
  <2>2. PICK none : none = <<>>
    BY Zenon
  <2>3. none \in Seq(Groups) /\ none \in Seq(Events) /\ none \in Seq(BgIds)
    BY <2>2
  <2>4. queuedGroups = none /\ events = none /\ freeSlotQueue = none
    BY <2>2, Zenon DEF Init
  <2>5. /\ queueSlot \in [Players -> BgIds \cup {0, NULL}]
        /\ bgs \in [BgIds -> Battlegrounds \cup {NULL}] /\ scheduled \in BOOLEAN
    BY Zenon DEF Init
  <2>6. QED
    BY <2>1, <2>3, <2>4, <2>5, Zenon DEF QueueType
<1>2. \A p, b, team, time : ~In(queuedGroups, p, b, team, time)
  BY DEF Init, In
<1>3. Running(bgs) = {}
  BY Zenon DEF Init, Running
<1>4. /\ Disjoint(queuedGroups) /\ LastEvents(queuedGroups, events)
      /\ FreeSlots(bgs, freeSlotQueue)
  BY DEF Init, Disjoint, LastEvents, FreeSlots
<1>5. Waiters(queuedGroups, bgs, queueSlot) /\ Counts(queuedGroups, bgs)
  BY <1>2, <1>3, Zenon DEF Waiters, Counts
<1>6. Others(queuedGroups, bgs, queueSlot)
  BY <1>3, Zenon DEF Init, Others
<1>7. QED
  BY <1>1, <1>4, <1>5, <1>6, Zenon DEF IInv

LEMMA Stutter ==
    ASSUME IInv, UNCHANGED vars
    PROVE  IInv'
<1>1. bgs' \in [BgIds -> Battlegrounds \cup {NULL}] /\ Running(bgs') = Running(bgs)
  BY Zenon DEF vars, bgVars, IInv, QueueType
<1>2. freeSlotQueue' \in Seq(BgIds) /\ FreeSlots(bgs, freeSlotQueue)'
  BY Zenon DEF vars, bgVars, IInv, QueueType
<1>3. UNCHANGED <<scheduled, online, travelling, bgInstanceID, bgTeam, queueSlot, queuedGroups, events>>
  BY Zenon DEF vars, playerVars, queueVars
<1>4. \A c \in Running(bgs) :
         bgs'[c].invited = bgs[c].invited /\ bgs'[c].m_Players = bgs[c].m_Players
  BY Zenon DEF vars, bgVars
<1>5. QED
  BY <1>1, <1>2, <1>3, <1>4, BgStep, Zenon

LEMMA InvStep ==
    IInv /\ [Next]_vars => IInv'
<1> SUFFICES ASSUME IInv, [Next]_vars PROVE IInv'
  OBVIOUS
<1>1. CASE \E party \in Parties : \E leader \in party : HandleBattlemasterJoin(leader, party)
  BY <1>1, JoinStep, Zenon
<1>2. ASSUME NEW p \in Players,
             AcceptInvitation(p) \/ DeclineInvitation(p) \/ Arrive(p) \/ LeaveBattleground(p)
      PROVE  IInv'
  BY <1>2, AcceptStep, DeclineStep, ArriveStep, LeaveStep, Zenon
<1>3. ASSUME NEW p \in Unreliable,
             LogoutPlayer(p) \/ ReturnToBattleground(p) \/ ReturnToEntryPoint(p)
      PROVE  IInv'
  <2>1. p \in Players
    BY PartiesAssumption, Zenon
  <2>2. QED
    BY <1>3, <2>1, LogoutStep, ReturnStep, EntryPointStep, Zenon
<1>4. ASSUME NEW b \in BgIds,
             DeleteEmpty(b) \/ ProcessJoin(b) \/ ProcessOfflineQueue(b)
               \/ EndBattleground(b) \/ ProcessLeave(b)
      PROVE  IInv'
  BY <1>4, DeleteStep, ProcessJoinStep, OfflineStep, EndStep, ProcessLeaveStep, Zenon
<1>5. CASE ExecuteRemoveEvent
  BY <1>5, RemoveEventStep, Zenon
<1>6. CASE BattlegroundQueueUpdate
  BY <1>6, UpdateStep, Zenon
<1>7. CASE UNCHANGED vars
  BY <1>7, Stutter, Zenon
<1>8. QED
  BY <1>1, <1>2, <1>3, <1>4, <1>5, <1>6, <1>7, Zenon DEF Next

LEMMA InvAlways ==
    Spec => []IInv
BY InvInit, InvStep, PTL DEF Spec

\* The three kinds of players a counter counts have nobody in common.
LEMMA ExactFromInv ==
    ASSUME IInv PROVE InvitedIsExact
<1> SUFFICES ASSUME NEW b \in Live, NEW team \in Teams
             PROVE  bgs[b].invited[team] =
                       Cardinality(Invited(b, team))
                       + Cardinality({p \in travelling : bgInstanceID[p] = b /\ bgTeam[p] = team})
                       + PlayersCountByTeam(bgs[b], team)
  BY Zenon DEF InvitedIsExact
<1>1. PICK A, B, C : /\ A = Invited(b, team)
                     /\ B = {p \in travelling : bgInstanceID[p] = b /\ bgTeam[p] = team}
                     /\ C = {p \in DOMAIN bgs[b].m_Players : bgs[b].m_Players[p] = team}
  BY Zenon
<1>2. b \in Running(bgs) /\ b # 0 /\ QueueType /\ PlayersType
  BY RunningIs, Zenon DEF Live, Running, IInv
<1>3. \A p : p \in A <=> \E time : In(queuedGroups, p, b, team, time)
  BY <1>1, Zenon DEF Invited, In
<1>4. A \subseteq Players /\ B \subseteq Players /\ C \subseteq Players
  <2>1. A \subseteq Players
    BY <1>2, <1>3, InIsPlayer, Zenon
  <2>2. B \subseteq Players
    BY <1>1, <1>2, Zenon DEF PlayersType
  <2>3. C \subseteq Players
    BY <1>1, <1>2, InsideIsPlayer, Zenon
  <2>4. QED
    BY <2>1, <2>2, <2>3, Zenon
<1>5. Counted(queuedGroups, bgs, b, team) = A \cup B \cup C
  BY <1>1, <1>3, <1>4, Zenon DEF Counted, CountedAt
<1>6. /\ \A p \in A : bgInstanceID[p] = 0
      /\ \A p \in B : bgInstanceID[p] = b /\ p \notin DOMAIN bgs[b].m_Players
      /\ \A p \in C : bgInstanceID[p] = b /\ p \in DOMAIN bgs[b].m_Players
  <2>1. \A p \in A : bgInstanceID[p] = 0
    BY <1>3, Zenon DEF IInv, Waiters
  <2>2. \A p \in B : p \in online /\ p \in travelling /\ bgInstanceID[p] = b
    BY <1>1, <1>2, Zenon DEF PlayersType
  <2>3. \A p \in B : p \notin DOMAIN bgs[b].m_Players
    BY <1>2, <2>2, Zenon DEF IInv, Others
  <2>4. \A p \in C : bgInstanceID[p] = b /\ p \in DOMAIN bgs[b].m_Players
    BY <1>1, <1>2, Zenon DEF IInv, Others
  <2>5. QED
    BY <2>1, <2>2, <2>3, <2>4, Zenon
<1>7. A \cap B = {} /\ (A \cup B) \cap C = {}
  BY <1>2, <1>6
<1>8. IsFiniteSet(A) /\ IsFiniteSet(B) /\ IsFiniteSet(C)
  BY <1>4, BattlegroundAssumption, FS_Subset, Zenon
<1>9. PICK D : D = A \cup B
  BY Zenon
<1>10. IsFiniteSet(D) /\ Cardinality(D) = Cardinality(A) + Cardinality(B)
  <2>1. IsFiniteSet(D) /\ Cardinality(D) = Cardinality(A) + Cardinality(B) - Cardinality(A \cap B)
    BY <1>8, <1>9, FS_Union, Zenon
  <2>2. Cardinality(A \cap B) = 0
    BY <1>7, FS_EmptySet, Zenon
  <2>3. Cardinality(A) \in Nat /\ Cardinality(B) \in Nat
    BY <1>8, FS_CardinalityType, Zenon
  <2>4. QED
    BY <2>1, <2>2, <2>3
<1>11. Cardinality(D \cup C) = Cardinality(D) + Cardinality(C)
  <2>1. Cardinality(D \cup C) = Cardinality(D) + Cardinality(C) - Cardinality(D \cap C)
    BY <1>8, <1>10, FS_Union, Zenon
  <2>2. Cardinality(D \cap C) = 0
    BY <1>7, <1>9, FS_EmptySet, Zenon
  <2>3. Cardinality(C) \in Nat /\ Cardinality(D) \in Nat
    BY <1>8, <1>10, FS_CardinalityType, Zenon
  <2>4. QED
    BY <2>1, <2>2, <2>3
<1>12. bgs[b].invited[team] = Cardinality(Counted(queuedGroups, bgs, b, team))
  BY <1>2, Zenon DEF IInv, Counts
<1>13. bgs[b].invited[team] = Cardinality(D \cup C)
  BY <1>5, <1>9, <1>12, Zenon
<1>14. PlayersCountByTeam(bgs[b], team) = Cardinality(C)
  BY <1>1, Zenon DEF PlayersCountByTeam
<1>15. QED
  BY <1>1, <1>10, <1>11, <1>13, <1>14, Zenon

LEMMA LiveFromInv ==
    ASSUME IInv PROVE InvitationIsLive
<1>1. Live = Running(bgs)
  BY Zenon DEF Live, Running
<1>2. ASSUME NEW i \in DOMAIN queuedGroups
      PROVE  queuedGroups[i].IsInvitedToBGInstanceGUID \in Live \cup {0}
  <2>1. PICK p : p \in queuedGroups[i].Players
    BY Zenon DEF IInv, Disjoint
  <2>2. PICK b, team, time : /\ b = queuedGroups[i].IsInvitedToBGInstanceGUID
                             /\ team = queuedGroups[i].Team
                             /\ time = queuedGroups[i].RemoveInviteTime
    BY Zenon
  <2>3. In(queuedGroups, p, b, team, time)
    BY <2>1, <2>2, Zenon DEF In
  <2>4. b \in Running(bgs) \cup {0}
    BY <2>3, Zenon DEF IInv, Waiters
  <2>5. QED
    BY <1>1, <2>2, <2>4, Zenon
<1>3. \A p \in online : bgInstanceID[p] \in Live \cup {0}
  BY <1>1, Zenon DEF IInv, Others
<1>4. QED
  BY <1>2, <1>3, Zenon DEF InvitationIsLive

LEMMA SlotFromInv ==
    ASSUME IInv PROVE SlotIsTrue
<1>1. \A i, j \in DOMAIN queuedGroups : i # j =>
         queuedGroups[i].Players \cap queuedGroups[j].Players = {}
  BY Zenon DEF IInv, Disjoint
<1>2. ASSUME NEW p \in Players, p \in InQueue
      PROVE  /\ p \in online /\ bgInstanceID[p] = 0
             /\ queueSlot[p] = queuedGroups[GroupOf(p)].IsInvitedToBGInstanceGUID
  <2>1. Disjoint(queuedGroups)
    BY Zenon DEF IInv
  <2>2. PICK b, team, time : /\ b = queuedGroups[GroupOf(p)].IsInvitedToBGInstanceGUID
                             /\ team = queuedGroups[GroupOf(p)].Team
                             /\ time = queuedGroups[GroupOf(p)].RemoveInviteTime
    BY Zenon
  <2>3. In(queuedGroups, p, b, team, time)
    BY <1>2, <2>1, <2>2, GroupOfIs, Zenon
  <2>4. p \in online /\ bgInstanceID[p] = 0 /\ queueSlot[p] = b
    BY <2>3, Zenon DEF IInv, Waiters
  <2>5. QED
    BY <2>2, <2>4, Zenon
<1>3. ASSUME NEW p \in Players, p \notin InQueue
      PROVE  queueSlot[p] = IF p \in online /\ bgInstanceID[p] # 0 THEN bgInstanceID[p] ELSE NULL
  <2>1. \A b, team, time : ~In(queuedGroups, p, b, team, time)
    BY <1>3, InQueueIs, Zenon
  <2>2. QED
    BY <2>1, Zenon DEF IInv, Others
<1>4. ASSUME NEW p \in Players, p \in online, bgInstanceID[p] # 0
      PROVE  p \in travelling <=> p \notin Inside(bgInstanceID[p])
  <2>1. PICK b : b = bgInstanceID[p]
    BY Zenon
  <2>2. b \in Running(bgs) /\ (p \in travelling <=> p \notin DOMAIN bgs[b].m_Players)
    BY <1>4, <2>1, Zenon DEF IInv, Others
  <2>3. Inside(b) = DOMAIN bgs[b].m_Players
    BY <2>2, Zenon DEF Inside, Running
  <2>4. QED
    BY <2>1, <2>2, <2>3, Zenon
<1>5. ASSUME NEW p \in Players
      PROVE  CASE p \in InQueue ->
                  /\ p \in online /\ bgInstanceID[p] = 0
                  /\ queueSlot[p] = queuedGroups[GroupOf(p)].IsInvitedToBGInstanceGUID
               [] p \notin InQueue /\ p \in online /\ bgInstanceID[p] # 0 ->
                  /\ queueSlot[p] = bgInstanceID[p]
                  /\ p \in travelling <=> p \notin Inside(bgInstanceID[p])
               [] OTHER -> queueSlot[p] = NULL
  <2>1. CASE p \in InQueue
    BY <1>2, <2>1, Zenon
  <2>2. CASE p \notin InQueue /\ p \in online /\ bgInstanceID[p] # 0
    BY <1>3, <1>4, <2>2, Zenon
  <2>3. CASE p \notin InQueue /\ ~(p \in online /\ bgInstanceID[p] # 0)
    BY <1>3, <2>3, Zenon
  <2>4. QED
    BY <2>1, <2>2, <2>3, Zenon
<1>6. QED
  BY <1>1, <1>5, Zenon DEF SlotIsTrue

\* Only the remove event and the update change the events on record, and the
\* update removes nobody.
LEMMA EventStep ==
    ASSUME IInv, Next, events' # events
    PROVE  ExecuteRemoveEvent \/ BattlegroundQueueUpdate
BY Zenon DEF Next, HandleBattlemasterJoin, AcceptInvitation, DeclineInvitation, Arrive, LeaveBattleground,
       LogoutPlayer, ReturnToBattleground, ReturnToEntryPoint, DeleteEmpty, ProcessJoin,
       ProcessOfflineQueue, EndBattleground, ProcessLeave, queueVars

LEMMA HarmlessStep ==
    ASSUME IInv, [Next]_vars
    PROVE  [\A p \in Players :
              (p \in InQueue /\ p \notin InQueue' /\ events' # events) =>
                  \A k \in DOMAIN events' : events'[k].player # p]_vars
<1> SUFFICES ASSUME Next, NEW p \in Players, p \in InQueue, p \notin InQueue', events' # events,
                    NEW k \in DOMAIN events'
             PROVE  events'[k].player # p
  BY Zenon
<1>1. CASE BattlegroundQueueUpdate
  BY <1>1, UpdateStep, Zenon
<1>2. CASE ExecuteRemoveEvent
  <2>1. PICK e : e = Head(events)
    BY Zenon
  <2>2. events # <<>> /\ events' = Tail(events)
    BY <1>2, Zenon DEF ExecuteRemoveEvent
  <2>3. \/ UNCHANGED queuedGroups
        \/ IsPlayerInvited(e.player, e.bg, e.removeTime) /\ RemovePlayer(e.player, bgs, TRUE)
    BY <1>2, <2>1, Zenon DEF ExecuteRemoveEvent
  <2>4. ~UNCHANGED queuedGroups
    BY Zenon DEF InQueue
  <2>5. PICK q, b, time : q = e.player /\ b = e.bg /\ time = e.removeTime
    BY Zenon
  <2>6. q \in InQueue /\ IsPlayerInvited(q, b, time) /\ queuedGroups' = WithoutPlayer(q)
    BY <2>3, <2>4, <2>5, Zenon DEF IsPlayerInvited, RemovePlayer
  <2>7. queuedGroups \in Seq(Groups) /\ Disjoint(queuedGroups) /\ events \in Seq(Events)
    BY Zenon DEF IInv, QueueType
  <2>8. p = q
    <3>1. \A c, t, d : In(queuedGroups', p, c, t, d) <=> p # q /\ In(queuedGroups, p, c, t, d)
      BY <2>6, <2>7, WithoutPlayerIs, Zenon
    <3>2. PICK c, t, d : In(queuedGroups, p, c, t, d)
      BY InQueueIs, Zenon
    <3>3. \A c2, t2, d2 : ~In(queuedGroups', p, c2, t2, d2)
      BY Zenon DEF InQueue, In
    <3>4. QED
      BY <3>1, <3>2, <3>3, Zenon
  <2>9. PICK team : In(queuedGroups, q, b, team, time)
    BY <2>6, <2>7, GroupOfIs, Zenon DEF IsPlayerInvited
  <2>10. /\ 1 \in DOMAIN events /\ events[1] = e /\ e \in Events
         /\ k + 1 \in DOMAIN events /\ events'[k] = events[k + 1] /\ k \in Nat /\ k >= 1
    BY <2>1, <2>2, <2>7
  <2>11. b # 0
    BY <2>5, <2>10, BattlegroundAssumption, Zenon DEF Events
  <2>12. ASSUME events[k + 1].player = p PROVE FALSE
    <3>1. In(queuedGroups, events[1].player, b, team, events[1].removeTime)
      BY <2>5, <2>9, <2>10, Zenon
    <3>2. events[k + 1].player = events[1].player
      BY <2>5, <2>8, <2>10, <2>12, Zenon
    <3>3. k + 1 <= 1
      BY <2>10, <2>11, <3>1, <3>2, Zenon DEF IInv, LastEvents
    <3>4. QED
      BY <2>10, <3>3
  <2>13. QED
    BY <2>10, <2>12, Zenon
<1>3. QED
  BY <1>1, <1>2, EventStep, Zenon

\* The counters of invited players, from which the free slots are computed and
\* the end of a battleground is decided, are exact in every state.
THEOREM InvitedIsExactCorrect ==
    Spec => []InvitedIsExact
BY InvAlways, ExactFromInv, PTL

\* Nobody holds an invitation to, or is on the way into, a battleground that
\* Battleground::Update has deleted, although ids are used again.
THEOREM InvitationIsLiveCorrect ==
    Spec => []InvitationIsLive
BY InvAlways, LiveFromInv, PTL

\* The queue slot in the player's own data agrees with the queue and with the
\* battlegrounds, and nobody waits in two groups.
THEOREM SlotIsTrueCorrect ==
    Spec => []SlotIsTrue
BY InvAlways, SlotFromInv, PTL

\* BGQueueRemoveEvent::Execute puts a player out of the queue only when it is
\* the last of the remove events on record for that player.
THEOREM LateEventIsHarmlessCorrect ==
    Spec => LateEventIsHarmless
BY InvAlways, HarmlessStep, PTL DEF Spec, LateEventIsHarmless

=============================================================================
