---------------------- MODULE BattlegroundPlayerProofs ----------------------
(*****************************************************************************)
(* The steps of one player or one party keep the inductive invariant of      *)
(* BattlegroundQueueProofs: joining the queue and leaving it, accepting and  *)
(* declining an invitation or losing it to the remove event, arriving in the *)
(* battleground, logging out.                                                *)
(*****************************************************************************)
EXTENDS BattlegroundQueueProofs

-----------------------------------------------------------------------------
(* Groups *)

LEMMA InQueueIs ==
    ASSUME NEW p
    PROVE  p \in InQueue <=> \E b, team, time : In(queuedGroups, p, b, team, time)
BY DEF InQueue, In

\* What GroupOf finds is all there is.
LEMMA GroupOfIs ==
    ASSUME Disjoint(queuedGroups), NEW p \in InQueue
    PROVE  /\ GroupOf(p) \in DOMAIN queuedGroups /\ p \in queuedGroups[GroupOf(p)].Players
           /\ \A i \in DOMAIN queuedGroups : p \in queuedGroups[i].Players => i = GroupOf(p)
           /\ \A b, team, time : In(queuedGroups, p, b, team, time) <=>
                 /\ b = queuedGroups[GroupOf(p)].IsInvitedToBGInstanceGUID
                 /\ team = queuedGroups[GroupOf(p)].Team
                 /\ time = queuedGroups[GroupOf(p)].RemoveInviteTime
<1>1. \E i \in DOMAIN queuedGroups : p \in queuedGroups[i].Players
  BY DEF InQueue
<1>2. PICK g : g = GroupOf(p)
  OBVIOUS
<1>3. g \in DOMAIN queuedGroups /\ p \in queuedGroups[g].Players
  BY <1>1, <1>2, Zenon DEF GroupOf
<1>4. \A i \in DOMAIN queuedGroups : p \in queuedGroups[i].Players => i = g
  BY <1>3 DEF Disjoint
<1>5. QED
  BY <1>2, <1>3, <1>4, Zenon DEF In

\* Groups h are groups g without player p, in the order of a function.
Shrunk(g, h, f, p) ==
    /\ \A j \in DOMAIN h :
          /\ f[j] \in DOMAIN g /\ h[j].Players = g[f[j]].Players \ {p} /\ h[j].Players # {}
          /\ h[j].IsInvitedToBGInstanceGUID = g[f[j]].IsInvitedToBGInstanceGUID
          /\ h[j].Team = g[f[j]].Team /\ h[j].RemoveInviteTime = g[f[j]].RemoveInviteTime
    /\ \A j, k \in DOMAIN h : j # k => f[j] # f[k]
    /\ \A i \in DOMAIN g : g[i].Players \ {p} # {} => \E j \in DOMAIN h : f[j] = i

LEMMA ShrunkIs ==
    ASSUME NEW g, NEW h, NEW f, NEW p, Shrunk(g, h, f, p), Disjoint(g)
    PROVE  /\ Disjoint(h)
           /\ \A q, b, team, time : In(h, q, b, team, time) <=> q # p /\ In(g, q, b, team, time)
<1>1. Disjoint(h)
  BY DEF Shrunk, Disjoint
<1>2. ASSUME NEW q, NEW b, NEW team, NEW time, In(h, q, b, team, time)
      PROVE  q # p /\ In(g, q, b, team, time)
  BY <1>2 DEF Shrunk, In
<1>3. ASSUME NEW q, NEW b, NEW team, NEW time, q # p, In(g, q, b, team, time)
      PROVE  In(h, q, b, team, time)
  <2>1. PICK i \in DOMAIN g :
          /\ q \in g[i].Players /\ g[i].IsInvitedToBGInstanceGUID = b
          /\ g[i].Team = team /\ g[i].RemoveInviteTime = time
    BY <1>3 DEF In
  <2>2. PICK j \in DOMAIN h : f[j] = i
    BY <1>3, <2>1, Zenon DEF Shrunk
  <2>3. QED
    BY <1>3, <2>1, <2>2, Zenon DEF Shrunk, In
<1>4. QED
  BY <1>1, <1>2, <1>3, Zenon

LEMMA WithoutPlayerIs ==
    ASSUME queuedGroups \in Seq(Groups), Disjoint(queuedGroups), NEW p \in InQueue
    PROVE  /\ WithoutPlayer(p) \in Seq(Groups) /\ Disjoint(WithoutPlayer(p))
           /\ \A q, b, team, time : In(WithoutPlayer(p), q, b, team, time) <=>
                 q # p /\ In(queuedGroups, q, b, team, time)
<1>1. PICK g, i, h : g = queuedGroups /\ i = GroupOf(p) /\ h = WithoutPlayer(p)
  OBVIOUS
<1>2. g \in Seq(Groups) /\ Disjoint(g) /\ i \in DOMAIN g /\ p \in g[i].Players
  BY <1>1, GroupOfIs, Zenon
<1>3. /\ Len(g) \in Nat /\ DOMAIN g = 1..Len(g) /\ i \in Nat
      /\ \A j \in DOMAIN g : g[j] \in Groups
  BY <1>2
<1>4. \A j \in DOMAIN g : j # i => p \notin g[j].Players
  BY <1>2 DEF Disjoint
<1>5. CASE g[i].Players = {p}
  <2>1. h = EraseAt(g, i)
    BY <1>1, <1>5, Zenon DEF WithoutPlayer
  <2>2. /\ h \in Seq(Groups) /\ DOMAIN h = 1 .. Len(g) - 1
        /\ \A k \in 1 .. Len(g) - 1 : h[k] = IF k < i THEN g[k] ELSE g[k + 1]
    BY <1>2, <2>1, EraseAtType, Zenon
  <2> DEFINE f == [k \in 1 .. Len(g) - 1 |-> IF k < i THEN k ELSE k + 1]
  <2>3. \A j \in DOMAIN h : f[j] \in DOMAIN g /\ f[j] # i /\ h[j] = g[f[j]]
    BY <1>3, <2>2
  <2>4. \A j, k \in DOMAIN h : j # k => f[j] # f[k]
    BY <1>3, <2>2
  <2>5. \A j \in DOMAIN g : j # i => \E k \in DOMAIN h : f[k] = j
    <3> SUFFICES ASSUME NEW j \in DOMAIN g, j # i PROVE \E k \in DOMAIN h : f[k] = j
      OBVIOUS
    <3>1. PICK n \in Nat : n = Len(g) /\ DOMAIN g = 1..n /\ DOMAIN h = 1 .. n - 1
      BY <1>3, <2>2, Zenon
    <3>2. j \in 1..n /\ i \in 1..n
      BY <1>2, <3>1, Zenon
    <3>3. CASE j < i
      <4>1. j \in 1 .. n - 1
        BY <3>2, <3>3
      <4>2. f[j] = j
        BY <3>1, <3>3, <4>1, Zenon
      <4>3. QED
        BY <3>1, <4>1, <4>2, Zenon
    <3>4. CASE j > i
      <4>1. j - 1 \in 1 .. n - 1 /\ ~(j - 1 < i) /\ (j - 1) + 1 = j
        BY <3>2, <3>4
      <4>2. f[j - 1] = j
        BY <3>1, <4>1, Zenon
      <4>3. QED
        BY <3>1, <4>1, <4>2
    <3>5. QED
      BY <3>2, <3>3, <3>4
  <2> HIDE DEF f
  <2>6. Shrunk(g, h, f, p)
    <3>1. \A j \in DOMAIN h : h[j].Players = g[f[j]].Players \ {p} /\ h[j].Players # {}
      BY <1>2, <1>4, <2>3 DEF Disjoint
    <3>2. \A j \in DOMAIN g : g[j].Players \ {p} # {} => j # i
      BY <1>5, Zenon
    <3>3. QED
      BY <2>3, <2>4, <2>5, <3>1, <3>2 DEF Shrunk
  <2>7. QED
    BY <1>1, <1>2, <2>2, <2>6, ShrunkIs
<1>6. CASE g[i].Players # {p}
  <2>1. h = [g EXCEPT ![i].Players = @ \ {p}]
    BY <1>1, <1>6, Zenon DEF WithoutPlayer
  <2>2. PICK e : e = [g[i] EXCEPT !.Players = @ \ {p}]
    BY Zenon
  <2>3. /\ e \in Groups /\ e.Players = g[i].Players \ {p} /\ e.Team = g[i].Team
        /\ e.IsInvitedToBGInstanceGUID = g[i].IsInvitedToBGInstanceGUID
        /\ e.RemoveInviteTime = g[i].RemoveInviteTime
    <3>1. g[i] \in Groups
      BY <1>2, <1>3, Zenon
    <3>2. QED
      BY <2>2, <3>1, Zenon DEF Groups
  <2>4. h = [g EXCEPT ![i] = e]
    BY <1>2, <2>1, <2>2, Zenon
  <2>5. h \in Seq(Groups) /\ DOMAIN h = DOMAIN g
    BY <1>2, <2>3, <2>4
  <2>6. h[i] = e /\ \A j \in DOMAIN g : j # i => h[j] = g[j]
    BY <1>2, <2>4, Zenon
  <2> DEFINE f == [k \in DOMAIN g |-> k]
  <2>7. Shrunk(g, h, f, p)
    <3>1. \A j \in DOMAIN h : f[j] = j
      BY <2>5, Zenon
    <3>2. \A j \in DOMAIN h : h[j].Players = g[j].Players \ {p} /\ h[j].Players # {}
      BY <1>2, <1>4, <1>6, <2>3, <2>5, <2>6 DEF Disjoint
    <3>3. \A j \in DOMAIN h :
             /\ h[j].IsInvitedToBGInstanceGUID = g[j].IsInvitedToBGInstanceGUID
             /\ h[j].Team = g[j].Team /\ h[j].RemoveInviteTime = g[j].RemoveInviteTime
      BY <2>3, <2>5, <2>6, Zenon
    <3> HIDE DEF f
    <3>4. QED
      BY <2>5, <3>1, <3>2, <3>3, Zenon DEF Shrunk
  <2> HIDE DEF f
  <2>8. QED
    BY <1>1, <1>2, <2>5, <2>7, ShrunkIs, Zenon
<1>7. QED
  BY <1>5, <1>6

\* A group that joins: only its players are new.
NoneIn(g, party) == \A p \in party : \A b, team, time : ~In(g, p, b, team, time)

Joined(g, h, party, side) ==
    /\ h \in Seq(Groups) /\ Disjoint(h)
    /\ \A p, b, team, time : In(h, p, b, team, time) <=>
          In(g, p, b, team, time) \/ (p \in party /\ b = 0 /\ team = side /\ time = 0)

LEMMA JoinedIs ==
    ASSUME NEW g \in Seq(Groups), Disjoint(g), NEW party \in SUBSET Players, party # {},
           NEW side \in Teams, NoneIn(g, party)
    PROVE  Joined(g, Append(g, NewGroup(party, side)), party, side)
<1>1. PICK n, h : n = NewGroup(party, side) /\ h = Append(g, n)
  BY Zenon
<1>2. /\ n \in Groups /\ n.Players = party /\ n.Team = side
      /\ n.IsInvitedToBGInstanceGUID = 0 /\ n.RemoveInviteTime = 0
  BY <1>1, Zenon DEF NewGroup, Groups
<1>3. /\ h \in Seq(Groups) /\ DOMAIN h = DOMAIN g \cup {Len(g) + 1}
      /\ Len(g) + 1 \notin DOMAIN g
      /\ h[Len(g) + 1] = n /\ \A i \in DOMAIN g : h[i] = g[i]
  BY <1>1, <1>2
<1>4. \A i \in DOMAIN g : g[i].Players \cap party = {}
  BY Zenon DEF In, NoneIn
<1>5. Disjoint(h)
  BY <1>2, <1>3, <1>4 DEF Disjoint
<1>6. \A p, b, team, time : In(h, p, b, team, time) <=>
         In(g, p, b, team, time) \/ (p \in party /\ b = 0 /\ team = side /\ time = 0)
  BY <1>2, <1>3 DEF In
<1>7. QED
  BY <1>1, <1>3, <1>5, <1>6 DEF Joined

LEMMA LessIs ==
    ASSUME NEW m \in Nat, NEW n \in Nat, n <= m, m <= Cardinality(Players)
    PROVE  m - n \in Nat /\ (m + CounterSize - n) % CounterSize = m - n
<1>1. PICK d \in Nat : d = m - n /\ d < CounterSize
  BY Sizes
<1>2. (d + CounterSize) % CounterSize = d
  BY <1>1, Wrapped, Zenon
<1>3. m + CounterSize - n = d + CounterSize
  BY <1>1, Sizes
<1>4. QED
  BY <1>1, <1>2, <1>3, Zenon

LEMMA Decreased ==
    ASSUME NEW bg \in Battlegrounds, NEW team \in Teams, NEW n \in Nat,
           n <= bg.invited[team], bg.invited[team] <= Cardinality(Players)
    PROVE  Recounted(bg, DecreaseInvitedCount(bg, team, n), team, bg.invited[team] - n)
<1>1. PICK m \in Nat : m = bg.invited[team]
  BY BgFields, Zenon
<1>2. PICK d \in Nat : d = m - n /\ (m + CounterSize - n) % CounterSize = d
  BY <1>1, LessIs, Zenon
<1>3. DecreaseInvitedCount(bg, team, n) = [bg EXCEPT !.invited[team] = d]
  BY <1>1, <1>2, BgFields, Zenon DEF DecreaseInvitedCount
<1>4. QED
  BY <1>1, <1>2, <1>3, RecountedIs, Zenon

-----------------------------------------------------------------------------
(* Leaving the queue *)

\* Battlegrounds that differ in their counters only.
SameInside(new) ==
    /\ new \in [BgIds -> Battlegrounds \cup {NULL}] /\ Running(new) = Running(bgs)
    /\ \A c \in Running(bgs) :
          /\ new[c].m_Players = bgs[c].m_Players
          /\ new[c].m_InBGFreeSlotQueue = bgs[c].m_InBGFreeSlotQueue

LEMMA RunningIs ==
    ASSUME QueueType, NEW b \in Running(bgs)
    PROVE  b \in BgIds /\ b # 0 /\ bgs[b] \in Battlegrounds
BY BattlegroundAssumption, Zenon DEF QueueType, Running

\* Where a player who waits is counted.
LEMMA WaiterIsCounted ==
    ASSUME IInv, NEW p \in InQueue, NEW c \in Running(bgs), NEW t
    PROVE  /\ p \in Players
           /\ p \in Counted(queuedGroups, bgs, c, t) <=>
                 /\ c = queuedGroups[GroupOf(p)].IsInvitedToBGInstanceGUID
                 /\ t = queuedGroups[GroupOf(p)].Team
           /\ ~(p \in travelling /\ bgInstanceID[p] = c) /\ p \notin DOMAIN bgs[c].m_Players
<1>1. PICK b, team, time :
        /\ b = queuedGroups[GroupOf(p)].IsInvitedToBGInstanceGUID
        /\ team = queuedGroups[GroupOf(p)].Team /\ time = queuedGroups[GroupOf(p)].RemoveInviteTime
  BY Zenon
<1>2. \A d, s, r : In(queuedGroups, p, d, s, r) <=> d = b /\ s = team /\ r = time
  BY <1>1, GroupOfIs DEF IInv
<1>3. p \in Players /\ bgInstanceID[p] = 0 /\ c # 0
  BY <1>2, RunningIs, Zenon DEF IInv, Waiters, PlayersType
<1>4. p \notin DOMAIN bgs[c].m_Players
  BY <1>3, Zenon DEF IInv, Others
<1>5. CountedAt(queuedGroups, bgs, p, c, t) <=> c = b /\ t = team
  BY <1>2, <1>3, <1>4, Zenon DEF CountedAt
<1>6. QED
  BY <1>1, <1>3, <1>4, <1>5, Zenon DEF Counted

\* An invitation that is given back.
LEMMA WithoutInvitationIs ==
    ASSUME IInv, NEW p \in InQueue, NEW new,
           new = WithoutInvitation(bgs, queuedGroups[GroupOf(p)])
    PROVE  /\ SameInside(new)
           /\ \A c \in Running(bgs), t \in Teams :
                 new[c].invited[t] = Cardinality(Counted(queuedGroups, bgs, c, t) \ {p})
<1>1. PICK g, b, team :
        /\ g = queuedGroups[GroupOf(p)] /\ b = g.IsInvitedToBGInstanceGUID /\ team = g.Team
        /\ g \in Groups /\ b \in Running(bgs) \cup {0} /\ team \in Teams
  <2>1. queuedGroups[GroupOf(p)] \in Groups
    BY GroupOfIs DEF IInv, QueueType
  <2>2. queuedGroups[GroupOf(p)].IsInvitedToBGInstanceGUID \in Running(bgs) \cup {0}
    BY GroupOfIs DEF IInv, Waiters
  <2>3. QED
    BY <2>1, <2>2, GroupFields, Zenon
<1>2. \A c \in Running(bgs) : \A t : p \in Counted(queuedGroups, bgs, c, t) <=> c = b /\ t = team
  BY <1>1, WaiterIsCounted
<1>3. \A c \in Running(bgs), t \in Teams :
         bgs[c].invited[t] = Cardinality(Counted(queuedGroups, bgs, c, t))
  BY DEF IInv, Counts
<1>4. ASSUME NEW c \in Running(bgs), NEW t \in Teams, ~(c = b /\ t = team)
      PROVE  bgs[c].invited[t] = Cardinality(Counted(queuedGroups, bgs, c, t) \ {p})
  <2>1. Counted(queuedGroups, bgs, c, t) \ {p} = Counted(queuedGroups, bgs, c, t)
    BY <1>2, <1>4, Zenon
  <2>2. QED
    BY <1>3, <2>1, Zenon
<1>5. CASE b = 0
  <2>1. new = bgs
    BY <1>1, <1>5, Zenon DEF WithoutInvitation
  <2>2. \A c \in Running(bgs) : c # 0
    BY RunningIs, Zenon DEF IInv
  <2>3. QED
    BY <1>4, <1>5, <2>1, <2>2, Zenon DEF SameInside, IInv, QueueType
<1>6. CASE b # 0
  <2>1. b \in Running(bgs) /\ b \in BgIds /\ bgs[b] \in Battlegrounds /\ bgs[b] # NULL
    BY <1>1, <1>6, RunningIs, Zenon DEF IInv, Running
  <2>2. PICK n \in Nat : n = bgs[b].invited[team] /\ 1 <= n /\ n <= Cardinality(Players)
                         /\ Cardinality(Counted(queuedGroups, bgs, b, team) \ {p}) = n - 1
    <3>1. PICK S : S = Counted(queuedGroups, bgs, b, team)
      OBVIOUS
    <3>2. IsFiniteSet(S) /\ p \in S /\ Cardinality(S) \in Nat /\ Cardinality(S) <= Cardinality(Players)
      BY <1>2, <2>1, <3>1, CountedIsFinite, Zenon
    <3>3. Cardinality(S \ {p}) = Cardinality(S) - 1 /\ Cardinality(S \ {p}) \in Nat
      BY <3>2, FS_RemoveElement, FS_CardinalityType, Zenon
    <3>4. QED
      BY <1>1, <1>3, <2>1, <3>1, <3>2, <3>3
  <2>3. PICK e : e = DecreaseInvitedCount(bgs[b], team, 1)
    BY Zenon
  <2>4. Recounted(bgs[b], e, team, n - 1)
    BY <1>1, <2>1, <2>2, <2>3, Decreased, Zenon
  <2>5. new = [bgs EXCEPT ![b] = e]
    BY <1>1, <1>6, <2>1, <2>3 DEF WithoutInvitation
  <2>6. /\ new \in [BgIds -> Battlegrounds \cup {NULL}]
        /\ new[b] = e /\ \A c \in BgIds \ {b} : new[c] = bgs[c]
    BY <2>1, <2>4, <2>5, Zenon DEF IInv, QueueType, Recounted
  <2>7. Running(new) = Running(bgs)
    <3>1. e # NULL
      BY <2>4, BgFields, Zenon DEF Recounted
    <3>2. QED
      BY <2>1, <2>6, <3>1, Zenon DEF Running
  <2>8. SameInside(new)
    BY <2>4, <2>6, <2>7, Zenon DEF SameInside, Recounted, Running
  <2>9. ASSUME NEW c \in Running(bgs), NEW t \in Teams
        PROVE  new[c].invited[t] = Cardinality(Counted(queuedGroups, bgs, c, t) \ {p})
    <3>1. CASE c = b /\ t = team
      BY <2>2, <2>4, <2>6, <3>1 DEF Recounted
    <3>2. CASE ~(c = b /\ t = team)
      <4>1. new[c].invited[t] = bgs[c].invited[t]
        BY <2>4, <2>6, <3>2 DEF Recounted, Running
      <4>2. QED
        BY <1>4, <3>2, <4>1, Zenon
    <3>3. QED
      BY <3>1, <3>2, Zenon
  <2>10. QED
    BY <2>8, <2>9, Zenon
<1>7. QED
  BY <1>5, <1>6

\* Events that are taken from the front change no order.
LEMMA TailOfEvents ==
    ASSUME NEW g, NEW q \in Seq(Events), LastEvents(g, q), q # <<>>
    PROVE  Tail(q) \in Seq(Events) /\ LastEvents(g, Tail(q))
<1>1. PICK r : r = Tail(q)
  BY Zenon
<1>2. r \in Seq(Events) /\ Len(r) = Len(q) - 1
  BY <1>1
<1>3. \A k \in DOMAIN r : k + 1 \in DOMAIN q /\ r[k] = q[k + 1] /\ k \in Int
  BY <1>1, <1>2
<1>4. SUFFICES ASSUME NEW k \in DOMAIN r, NEW l \in DOMAIN r, NEW b, NEW team,
                      In(g, r[k].player, b, team, r[k].removeTime), b # 0,
                      r[l].player = r[k].player
               PROVE  l <= k
  BY <1>1, <1>2, Zenon DEF LastEvents
<1>6. k + 1 \in DOMAIN q /\ l + 1 \in DOMAIN q /\ r[k] = q[k + 1] /\ r[l] = q[l + 1]
  BY <1>3
<1>7. l + 1 <= k + 1
  BY <1>4, <1>6, Zenon DEF LastEvents
<1>5. QED
  BY <1>3, <1>7

\* A player leaves the queue: by itself, by a remove event, or with its
\* connection.
LEMMA QueueLeft ==
    ASSUME IInv, NEW p \in InQueue, queuedGroups' = WithoutPlayer(p),
           bgs' = WithoutInvitation(bgs, queuedGroups[GroupOf(p)]),
           queueSlot' = [queueSlot EXCEPT ![p] = NULL],
           online' = online \/ online' = online \ {p},
           events' = events \/ (events # <<>> /\ events' = Tail(events)),
           scheduled' \in BOOLEAN,
           UNCHANGED <<freeSlotQueue, travelling, bgInstanceID, bgTeam>>
    PROVE  IInv'
<1>1. PICK g, h, old, new, slot : /\ g = queuedGroups /\ h = queuedGroups' /\ old = bgs
                                  /\ new = bgs' /\ slot = queueSlot'
  BY Zenon
<1>2. /\ h \in Seq(Groups) /\ Disjoint(h)
      /\ \A q, b, team, time : In(h, q, b, team, time) <=> q # p /\ In(g, q, b, team, time)
  BY <1>1, WithoutPlayerIs, Zenon DEF IInv, QueueType
<1>3. SameInside(new) /\ \A c \in Running(old), t \in Teams :
                            new[c].invited[t] = Cardinality(Counted(g, old, c, t) \ {p})
  BY <1>1, WithoutInvitationIs
<1>4. p \in Players /\ p \in online /\ bgInstanceID[p] = 0 /\ p \notin travelling
  BY InQueueIs, Zenon DEF IInv, Waiters, PlayersType
<1>5. slot \in [Players -> BgIds \cup {0, NULL}] /\ slot[p] = NULL
      /\ \A q \in Players \ {p} : slot[q] = queueSlot[q]
  BY <1>1, <1>4, Zenon DEF IInv, QueueType
<1>6. /\ Running(new) = Running(old) /\ new \in [BgIds -> Battlegrounds \cup {NULL}]
      /\ \A c \in Running(old) : /\ new[c].m_Players = old[c].m_Players
                                 /\ new[c].m_InBGFreeSlotQueue = old[c].m_InBGFreeSlotQueue
  BY <1>1, <1>3, Zenon DEF SameInside
<1>7. PlayersType'
  BY <1>4, Zenon DEF IInv, PlayersType
<1>15. events' \in Seq(Events) /\ LastEvents(g, events')
  <2>1. events \in Seq(Events) /\ LastEvents(g, events)
    BY <1>1, Zenon DEF IInv, QueueType
  <2>2. CASE events' = events
    BY <2>1, <2>2, Zenon
  <2>3. CASE events # <<>> /\ events' = Tail(events)
    BY <2>1, <2>3, TailOfEvents
  <2>4. QED
    BY <2>2, <2>3, Zenon
<1>8. QueueType'
  <2>1. events' \in Seq(Events)
    BY <1>15, Zenon
  <2>2. freeSlotQueue' \in Seq(BgIds)
    BY Zenon DEF IInv, QueueType
  <2>3. /\ queuedGroups' \in Seq(Groups) /\ queueSlot' \in [Players -> BgIds \cup {0, NULL}]
        /\ bgs' \in [BgIds -> Battlegrounds \cup {NULL}]
    BY <1>1, <1>2, <1>5, <1>6
  <2>4. QED
    BY <2>1, <2>2, <2>3, Zenon DEF QueueType
<1>9. Waiters(queuedGroups, bgs, queueSlot)'
  <2> SUFFICES ASSUME NEW q, NEW b, NEW team, NEW time, In(h, q, b, team, time)
               PROVE  /\ q \in online' /\ bgInstanceID'[q] = 0 /\ slot[q] = b
                      /\ b \in Running(new) \cup {0}
    BY <1>1, Zenon DEF Waiters
  <2>1. q # p /\ In(g, q, b, team, time)
    BY <1>2, Zenon
  <2>2. q \in online /\ bgInstanceID[q] = 0 /\ queueSlot[q] = b /\ b \in Running(old) \cup {0}
    BY <1>1, <2>1, Zenon DEF IInv, Waiters
  <2>3. q \in Players
    BY <2>2, Zenon DEF IInv, PlayersType
  <2>4. QED
    BY <1>5, <1>6, <2>1, <2>2, <2>3, Zenon
<1>10. Others(queuedGroups, bgs, queueSlot)'
  <2>1. ASSUME NEW q \in Players, \A b, team, time : ~In(h, q, b, team, time)
        PROVE  slot[q] = IF q \in online' /\ bgInstanceID'[q] # 0 THEN bgInstanceID'[q] ELSE NULL
    <3>1. CASE q = p
      BY <1>4, <1>5, <3>1, Zenon
    <3>2. CASE q # p
      <4>1. \A b, team, time : ~In(g, q, b, team, time)
        BY <1>2, <2>1, <3>2, Zenon
      <4>2. queueSlot[q] = IF q \in online /\ bgInstanceID[q] # 0 THEN bgInstanceID[q] ELSE NULL
        BY <1>1, <4>1, Zenon DEF IInv, Others
      <4>3. QED
        BY <1>5, <3>2, <4>2, Zenon
    <3>3. QED
      BY <3>1, <3>2, Zenon
  <2>2. ASSUME NEW q \in online', bgInstanceID'[q] # 0
        PROVE  /\ bgInstanceID'[q] \in Running(new)
               /\ q \in travelling' <=> q \notin DOMAIN new[bgInstanceID'[q]].m_Players
    <3>1. /\ bgInstanceID[q] \in Running(old)
          /\ q \in travelling <=> q \notin DOMAIN old[bgInstanceID[q]].m_Players
      BY <1>1, <2>2, Zenon DEF IInv, Others
    <3>2. QED
      BY <1>6, <3>1, Zenon
  <2>3. ASSUME NEW b \in Running(new), NEW q \in DOMAIN new[b].m_Players PROVE bgInstanceID'[q] = b
    BY <1>1, <1>6, <2>3 DEF IInv, Others
  <2>4. QED
    BY <1>1, <2>1, <2>2, <2>3 DEF Others
<1>11. Counts(queuedGroups, bgs)'
  <2>1. ASSUME NEW c \in Running(old), NEW t \in Teams
        PROVE  Counted(h, new, c, t)' = Counted(g, old, c, t) \ {p}
    <3>1. ASSUME NEW q \in Players, q # p
          PROVE  CountedAt(h, new, q, c, t)' <=> CountedAt(g, old, q, c, t)
      BY <1>2, <1>6, <3>1, Zenon DEF CountedAt
    <3>2. ~CountedAt(h, new, p, c, t)'
      <4>1. c # 0 /\ p \notin DOMAIN old[c].m_Players
        BY <1>1, <2>1, RunningIs, WaiterIsCounted, Zenon DEF IInv
      <4>2. QED
        BY <1>2, <1>4, <1>6, <4>1 DEF CountedAt
    <3>3. QED
      BY <3>1, <3>2, Zenon DEF Counted
  <2>2. \A c \in Running(new), t \in Teams : new[c].invited[t] = Cardinality(Counted(h, new, c, t)')
    BY <1>3, <1>6, <2>1
  <2>3. \A c, t : Counted(h, new, c, t)' = Counted(queuedGroups, bgs, c, t)'
    BY <1>1, Zenon DEF Counted, CountedAt
  <2>4. QED
    BY <1>1, <2>2, <2>3, Zenon DEF Counts
<1>12. FreeSlots(bgs, freeSlotQueue)'
  BY <1>1, <1>6, Zenon DEF IInv, FreeSlots
<1>13. LastEvents(queuedGroups, events)'
  BY <1>1, <1>2, <1>15, Zenon DEF LastEvents
<1>14. QED
  BY <1>1, <1>2, <1>7, <1>8, <1>9, <1>10, <1>11, <1>12, <1>13, Zenon DEF IInv

-----------------------------------------------------------------------------
(* Steps of a few players *)

\* Waiters and Others, for one player.
PlayerOK(p) ==
    /\ \A b, team, time : In(queuedGroups, p, b, team, time) =>
          p \in online /\ bgInstanceID[p] = 0 /\ queueSlot[p] = b /\ b \in Running(bgs) \cup {0}
    /\ (\A b, team, time : ~In(queuedGroups, p, b, team, time)) =>
          queueSlot[p] = IF p \in online /\ bgInstanceID[p] # 0 THEN bgInstanceID[p] ELSE NULL
    /\ p \in online /\ bgInstanceID[p] # 0 =>
          /\ bgInstanceID[p] \in Running(bgs)
          /\ p \in travelling <=> p \notin DOMAIN bgs[bgInstanceID[p]].m_Players
    /\ \A b \in Running(bgs) : p \in DOMAIN bgs[b].m_Players => bgInstanceID[p] = b

LEMMA InIsPlayer ==
    ASSUME QueueType, NEW p, NEW b, NEW team, NEW time, In(queuedGroups, p, b, team, time)
    PROVE  p \in Players
BY GroupFields DEF QueueType, In

LEMMA InsideIsPlayer ==
    ASSUME QueueType, NEW b \in Running(bgs), NEW p \in DOMAIN bgs[b].m_Players
    PROVE  p \in Players
BY RunningIs, BgFields, Zenon

PlayersOK ==
    PlayersType /\ QueueType =>
        (\A p \in Players : PlayerOK(p)) <=>
            Waiters(queuedGroups, bgs, queueSlot) /\ Others(queuedGroups, bgs, queueSlot)

LEMMA AllPlayersOK == PlayersOK
<1> SUFFICES ASSUME PlayersType, QueueType
             PROVE  (\A p \in Players : PlayerOK(p)) <=>
                 Waiters(queuedGroups, bgs, queueSlot) /\ Others(queuedGroups, bgs, queueSlot)
  BY Zenon DEF PlayersOK
<1>1. ASSUME \A p \in Players : PlayerOK(p) PROVE Waiters(queuedGroups, bgs, queueSlot)
  BY <1>1, InIsPlayer, Zenon DEF PlayerOK, Waiters
<1>2. ASSUME \A p \in Players : PlayerOK(p) PROVE Others(queuedGroups, bgs, queueSlot)
  <2>1. \A p \in online : p \in Players
    BY Zenon DEF PlayersType
  <2>2. QED
    BY <1>2, <2>1, InsideIsPlayer, Zenon DEF PlayerOK, Others
<1>3. ASSUME Waiters(queuedGroups, bgs, queueSlot), Others(queuedGroups, bgs, queueSlot),
             NEW p \in Players
      PROVE  PlayerOK(p)
  <2>1. \A b, team, time : In(queuedGroups, p, b, team, time) =>
           p \in online /\ bgInstanceID[p] = 0 /\ queueSlot[p] = b /\ b \in Running(bgs) \cup {0}
    BY <1>3 DEF Waiters
  <2>2. QED
    BY <1>3, <2>1, Zenon DEF PlayerOK, Others
<1>4. QED
  BY <1>1, <1>2, <1>3, Zenon

LEMMA AllPlayersStayOK == PlayersOK'
BY AllPlayersOK, PTL

\* A player to whom nothing happens.
Untouched(q) ==
    /\ \A b, team, time :
          In(queuedGroups', q, b, team, time) <=> In(queuedGroups, q, b, team, time)
    /\ queueSlot'[q] = queueSlot[q]
    /\ q \in online' <=> q \in online
    /\ bgInstanceID'[q] = bgInstanceID[q] /\ bgTeam'[q] = bgTeam[q]
    /\ q \in travelling' <=> q \in travelling
    /\ \A c \in Running(bgs) :
          /\ q \in DOMAIN bgs'[c].m_Players <=> q \in DOMAIN bgs[c].m_Players
          /\ q \in DOMAIN bgs[c].m_Players => bgs'[c].m_Players[q] = bgs[c].m_Players[q]

LEMMA UntouchedIsOK ==
    ASSUME NEW q, Untouched(q), PlayerOK(q), Running(bgs') = Running(bgs)
    PROVE  PlayerOK(q)'
<1>1. \A b, team, time : In(queuedGroups', q, b, team, time) =>
         /\ q \in online' /\ bgInstanceID'[q] = 0 /\ queueSlot'[q] = b
         /\ b \in Running(bgs') \cup {0}
  BY Zenon DEF Untouched, PlayerOK
<1>2. (\A b, team, time : ~In(queuedGroups', q, b, team, time)) =>
         queueSlot'[q] = IF q \in online' /\ bgInstanceID'[q] # 0 THEN bgInstanceID'[q] ELSE NULL
  BY Zenon DEF Untouched, PlayerOK
<1>3. q \in online' /\ bgInstanceID'[q] # 0 =>
         /\ bgInstanceID'[q] \in Running(bgs')
         /\ q \in travelling' <=> q \notin DOMAIN bgs'[bgInstanceID'[q]].m_Players
  BY DEF Untouched, PlayerOK
<1>4. \A b \in Running(bgs') : q \in DOMAIN bgs'[b].m_Players => bgInstanceID'[q] = b
  BY Zenon DEF Untouched, PlayerOK
<1>5. QED
  BY <1>1, <1>2, <1>3, <1>4, Zenon DEF PlayerOK

LEMMA UntouchedIsCounted ==
    ASSUME NEW q, Untouched(q), NEW c \in Running(bgs), NEW t
    PROVE  CountedAt(queuedGroups, bgs, q, c, t)' <=> CountedAt(queuedGroups, bgs, q, c, t)
BY Zenon DEF Untouched, CountedAt

\* A step of some players, all of whom are found right after it.
LEMMA StepOfSome ==
    ASSUME IInv, PlayersType', QueueType', Disjoint(queuedGroups)', NEW M,
           Running(bgs') = Running(bgs), \A q \in Players \ M : Untouched(q),
           \A p \in M : PlayerOK(p)', FreeSlots(bgs, freeSlotQueue)',
           LastEvents(queuedGroups, events)',
           \A c \in Running(bgs), t \in Teams :
              bgs'[c].invited[t] = Cardinality(Counted(queuedGroups, bgs, c, t)')
    PROVE  IInv'
<1>1. \A q \in Players : PlayerOK(q)'
  BY AllPlayersOK, UntouchedIsOK, Zenon DEF IInv, PlayersOK
<1>2. Waiters(queuedGroups, bgs, queueSlot)' /\ Others(queuedGroups, bgs, queueSlot)'
  BY <1>1, AllPlayersStayOK, Zenon DEF PlayersOK
<1>3. Counts(queuedGroups, bgs)'
  BY Zenon DEF Counts
<1>4. QED
  BY <1>2, <1>3, Zenon DEF IInv

\* One that changes no counter, and nothing of who is counted.
LEMMA StepUncounted ==
    ASSUME IInv, PlayersType', QueueType', Disjoint(queuedGroups)', NEW M,
           Running(bgs') = Running(bgs), \A q \in Players \ M : Untouched(q),
           \A p \in M : PlayerOK(p)', FreeSlots(bgs, freeSlotQueue)',
           LastEvents(queuedGroups, events)',
           \A c \in Running(bgs), t \in Teams : bgs'[c].invited[t] = bgs[c].invited[t],
           \A c \in Running(bgs), t \in Teams, p \in M :
              CountedAt(queuedGroups, bgs, p, c, t)' <=> CountedAt(queuedGroups, bgs, p, c, t)
    PROVE  IInv'
<1>1. ASSUME NEW c \in Running(bgs), NEW t \in Teams
      PROVE  bgs'[c].invited[t] = Cardinality(Counted(queuedGroups, bgs, c, t)')
  <2>1. \A q \in Players :
           CountedAt(queuedGroups, bgs, q, c, t)' <=> CountedAt(queuedGroups, bgs, q, c, t)
    BY UntouchedIsCounted, Zenon
  <2>2. Counted(queuedGroups, bgs, c, t)' = Counted(queuedGroups, bgs, c, t)
    BY <2>1, Zenon DEF Counted
  <2>3. QED
    BY <2>2, Zenon DEF IInv, Counts
<1>2. QED
  BY <1>1, StepOfSome, Zenon

\* Nobody who waits has a battleground, and who has none waits or has no slot.
LEMMA NotInQueue ==
    ASSUME IInv, NEW p \in Players, p \notin online \/ bgInstanceID[p] # 0 \/ queueSlot[p] = NULL
    PROVE  /\ p \notin InQueue
           /\ \A b, team, time : ~In(queuedGroups, p, b, team, time)
           /\ queueSlot[p] = IF p \in online /\ bgInstanceID[p] # 0 THEN bgInstanceID[p] ELSE NULL
<1>1. ASSUME NEW b, NEW team, NEW time, In(queuedGroups, p, b, team, time) PROVE FALSE
  <2>1. p \in online /\ bgInstanceID[p] = 0 /\ queueSlot[p] = b /\ b \in Running(bgs) \cup {0}
    BY <1>1, Zenon DEF IInv, Waiters
  <2>2. b # NULL
    BY <2>1, BattlegroundAssumption, Zenon DEF Running
  <2>3. QED
    BY <2>1, <2>2, Zenon
<1>2. QED
  BY <1>1, InQueueIs, Zenon DEF IInv, Others

LEMMA DeclineStep ==
    ASSUME IInv, NEW p \in Players, DeclineInvitation(p)
    PROVE  IInv'
BY QueueLeft, Zenon DEF DeclineInvitation, RemovePlayer

\* An event that does nothing.
LEMMA EventGone ==
    ASSUME IInv, events # <<>>, events' = Tail(events),
           UNCHANGED <<queueSlot, queuedGroups, bgs, scheduled>>,
           UNCHANGED <<freeSlotQueue, online, travelling, bgInstanceID, bgTeam>>
    PROVE  IInv'
<1>1. events' \in Seq(Events) /\ LastEvents(queuedGroups, events')
  BY TailOfEvents, Zenon DEF IInv, QueueType
<1>2. PlayersType' /\ QueueType'
  BY <1>1, Zenon DEF IInv, PlayersType, QueueType
<1>3. Waiters(queuedGroups, bgs, queueSlot)' /\ Others(queuedGroups, bgs, queueSlot)'
  BY Zenon DEF IInv, Waiters, Others
<1>4. Counts(queuedGroups, bgs)'
  BY Zenon DEF IInv, Counts, Counted, CountedAt
<1>5. QED
  BY <1>1, <1>2, <1>3, <1>4, Zenon DEF IInv, FreeSlots

LEMMA RemoveEventStep ==
    ASSUME IInv, ExecuteRemoveEvent
    PROVE  IInv'
<1> DEFINE e == Head(events)
           joined == bgs[e.bg] # NULL /\ bgInstanceID[e.player] = e.bg
           due == /\ e.player \in online /\ ~joined /\ queueSlot[e.player] # NULL
                  /\ IsPlayerInvited(e.player, e.bg, e.removeTime)
<1>1. CASE due
  <2>1. e.player \in InQueue
    BY <1>1, Zenon DEF IsPlayerInvited
  <2>2. /\ events # <<>> /\ events' = Tail(events)
        /\ queueSlot' = [queueSlot EXCEPT ![e.player] = NULL] /\ RemovePlayer(e.player, bgs, TRUE)
        /\ scheduled' = (scheduled \/ (bgs[e.bg] # NULL /\ bgs[e.bg].status # "WAIT_LEAVE"))
        /\ UNCHANGED <<freeSlotQueue, online, travelling, bgInstanceID, bgTeam>>
    BY <1>1, Zenon DEF ExecuteRemoveEvent
  <2> HIDE DEF e
  <2>3. /\ queuedGroups' = WithoutPlayer(e.player)
        /\ bgs' = WithoutInvitation(bgs, queuedGroups[GroupOf(e.player)])
    BY <2>1, <2>2, Zenon DEF RemovePlayer
  <2>4. scheduled' \in BOOLEAN
    BY <2>2, Zenon DEF IInv, QueueType
  <2>5. QED
    BY <2>1, <2>2, <2>3, <2>4, QueueLeft, Zenon
<1>2. CASE ~due
  <2>1. /\ events # <<>> /\ events' = Tail(events)
        /\ UNCHANGED <<queueSlot, queuedGroups, bgs, scheduled>>
        /\ UNCHANGED <<freeSlotQueue, online, travelling, bgInstanceID, bgTeam>>
    BY <1>2, Zenon DEF ExecuteRemoveEvent
  <2>2. QED
    BY <2>1, EventGone, Zenon
<1>3. QED
  BY <1>1, <1>2

LEMMA AcceptStep ==
    ASSUME IInv, NEW p \in Players, AcceptInvitation(p)
    PROVE  IInv'
<1>1. p \in InQueue /\ p \in online
  BY DEF AcceptInvitation, InWorld
<1>2. PICK g, b, team :
        g = queuedGroups[GroupOf(p)] /\ b = g.IsInvitedToBGInstanceGUID /\ team = g.Team
  BY Zenon
<1>3. /\ b # 0 /\ bgs[b] # NULL /\ queuedGroups' = WithoutPlayer(p) /\ bgs' = bgs
      /\ bgInstanceID' = [bgInstanceID EXCEPT ![p] = b] /\ bgTeam' = [bgTeam EXCEPT ![p] = team]
      /\ travelling' = travelling \cup {p}
      /\ UNCHANGED <<freeSlotQueue, scheduled, online, queueSlot, events>>
  BY <1>1, <1>2 DEF AcceptInvitation, RemovePlayer
<1>4. g \in Groups /\ b \in BgIds /\ b \in Running(bgs) /\ team \in Teams
  <2>1. g \in Groups
    BY <1>1, <1>2, GroupOfIs DEF IInv, QueueType
  <2>2. QED
    BY <1>2, <1>3, <2>1, GroupFields, Zenon DEF Running
<1>5. /\ queuedGroups' \in Seq(Groups) /\ Disjoint(queuedGroups')
      /\ \A q, c, t, time : In(queuedGroups', q, c, t, time) <=> q # p /\ In(queuedGroups, q, c, t, time)
  BY <1>1, <1>3, WithoutPlayerIs, Zenon DEF IInv, QueueType
<1>6. PlayersType'
  BY <1>1, <1>3, <1>4, BattlegroundAssumption DEF IInv, PlayersType
<1>7. QueueType'
  BY <1>3, <1>5, Zenon DEF IInv, QueueType
<1>8. bgInstanceID'[p] = b /\ bgTeam'[p] = team
      /\ \A q \in Players \ {p} : bgInstanceID'[q] = bgInstanceID[q] /\ bgTeam'[q] = bgTeam[q]
  BY <1>3, Zenon DEF IInv, PlayersType
<1>9. \A q \in Players \ {p} : Untouched(q)
  BY <1>3, <1>5, <1>8, Zenon DEF Untouched
<1>10. \A c \in Running(bgs) : \A t : p \in Counted(queuedGroups, bgs, c, t) <=> c = b /\ t = team
  BY <1>1, <1>2, WaiterIsCounted, Zenon
<1>11. \A c \in Running(bgs) : p \notin DOMAIN bgs[c].m_Players
  BY <1>1, WaiterIsCounted, Zenon
<1>12. PlayerOK(p)'
  <2>1. queueSlot[p] = b
    BY <1>1, <1>2, GroupOfIs DEF IInv, Waiters
  <2>2. \A c, t, time : ~In(queuedGroups', p, c, t, time)
    BY <1>5, Zenon
  <2>3. p \in online' /\ p \in travelling' /\ bgs' = bgs /\ queueSlot' = queueSlot
    BY <1>1, <1>3, Zenon
  <2>4. b # 0
    BY <1>4, BattlegroundAssumption, Zenon
  <2>5. QED
    BY <1>4, <1>8, <1>11, <2>1, <2>2, <2>3, <2>4, Zenon DEF PlayerOK
<1>13. \A c \in Running(bgs), t \in Teams :
          CountedAt(queuedGroups, bgs, p, c, t)' <=> CountedAt(queuedGroups, bgs, p, c, t)
  <2>1. \A c \in Running(bgs) : \A t : CountedAt(queuedGroups, bgs, p, c, t)' <=> c = b /\ t = team
    BY <1>3, <1>5, <1>8, <1>11, Zenon DEF CountedAt
  <2>2. QED
    BY <1>10, <2>1, Zenon DEF Counted
<1>14. FreeSlots(bgs, freeSlotQueue)' /\ LastEvents(queuedGroups, events)'
  BY <1>3, <1>5, Zenon DEF IInv, FreeSlots, LastEvents
<1>15. PICK M : M = {p}
  BY Zenon
<1>16. /\ \A q \in M : PlayerOK(q)'
       /\ \A c \in Running(bgs), t \in Teams, q \in M :
             CountedAt(queuedGroups, bgs, q, c, t)' <=> CountedAt(queuedGroups, bgs, q, c, t)
  BY <1>12, <1>13, <1>15, Zenon
<1>17. /\ \A q \in Players \ M : Untouched(q)
       /\ Running(bgs') = Running(bgs) /\ Disjoint(queuedGroups)'
       /\ \A c \in Running(bgs), t \in Teams : bgs'[c].invited[t] = bgs[c].invited[t]
  BY <1>3, <1>5, <1>9, <1>15
<1>18. QED
  BY <1>6, <1>7, <1>14, <1>16, <1>17, StepUncounted, Zenon

LEMMA JoinStep ==
    ASSUME IInv, NEW party \in Parties, NEW leader \in party, HandleBattlemasterJoin(leader, party)
    PROVE  IInv'
<1>1. party \subseteq Players /\ party # {} /\ Race[leader] \in Teams
  BY PartiesAssumption
<1>2. PICK side, g : /\ side \in Teams /\ side = Race[leader]
                     /\ g = Append(queuedGroups, NewGroup(party, side))
  BY <1>1, Zenon
<1>3. /\ \A p \in party : p \in online /\ queueSlot[p] = NULL
      /\ queuedGroups' = g /\ scheduled' = TRUE
      /\ queueSlot' = [p \in Players |-> IF p \in party THEN 0 ELSE queueSlot[p]]
      /\ UNCHANGED <<bgs, freeSlotQueue, online, travelling, bgInstanceID, bgTeam, events>>
  BY <1>2, Zenon DEF HandleBattlemasterJoin, bgVars
<1>4. \A p \in party : \A b, team, time : ~In(queuedGroups, p, b, team, time)
  BY <1>1, <1>3, NotInQueue, Zenon
<1>5. \A p \in party : bgInstanceID[p] = 0
  <2>1. ASSUME NEW p \in party PROVE bgInstanceID[p] = 0
    <3>1. p \in Players /\ p \in online /\ queueSlot[p] = NULL
      BY <1>1, <1>3, Zenon
    <3>2. NULL = IF bgInstanceID[p] # 0 THEN bgInstanceID[p] ELSE NULL
      BY <3>1, NotInQueue, Zenon
    <3>3. bgInstanceID[p] # NULL
      BY <3>1, BattlegroundAssumption, Zenon DEF IInv, PlayersType
    <3>4. QED
      BY <3>2, <3>3, Zenon
  <2>2. QED
    BY <2>1, Zenon
<1>6. /\ g \in Seq(Groups) /\ Disjoint(g)
      /\ \A p, b, team, time : In(g, p, b, team, time) <=>
            In(queuedGroups, p, b, team, time) \/ (p \in party /\ b = 0 /\ team = side /\ time = 0)
  <2>1. queuedGroups \in Seq(Groups) /\ Disjoint(queuedGroups)
    BY Zenon DEF IInv, QueueType
  <2>2. party \in SUBSET Players /\ party # {} /\ side \in Teams
    BY <1>1, <1>2, Zenon
  <2>3. NoneIn(queuedGroups, party)
    BY <1>4, Zenon DEF NoneIn
  <2>4. Joined(queuedGroups, Append(queuedGroups, NewGroup(party, side)), party, side)
    BY <2>1, <2>2, <2>3, JoinedIs, Zenon
  <2>5. Joined(queuedGroups, g, party, side)
    BY <1>2, <2>4, Zenon
  <2>6. QED
    BY <2>5, Zenon DEF Joined
<1>7. PlayersType' /\ QueueType' /\ Disjoint(queuedGroups)'
  <2>1. PlayersType'
    BY <1>3 DEF IInv, PlayersType
  <2>2. queueSlot' \in [Players -> BgIds \cup {0, NULL}]
    BY <1>3, Zenon DEF IInv, QueueType
  <2>3. QueueType'
    BY <1>3, <1>6, <2>2 DEF IInv, QueueType
  <2>4. QED
    BY <1>3, <1>6, <2>1, <2>3, Zenon
<1>8. ASSUME NEW q \in Players \ party PROVE Untouched(q)
  BY <1>3, <1>6 DEF Untouched
<1>9. ASSUME NEW p \in party PROVE PlayerOK(p)'
  <2>1. p \in Players /\ p \in online /\ bgInstanceID[p] = 0 /\ queueSlot'[p] = 0
    BY <1>1, <1>3, <1>5
  <2>2. \A b, team, time : In(queuedGroups', p, b, team, time) <=> b = 0 /\ team = side /\ time = 0
    BY <1>3, <1>4, <1>6
  <2>3. \A b \in Running(bgs) : p \notin DOMAIN bgs[b].m_Players
    BY <2>1, RunningIs, Zenon DEF IInv, Others
  <2>4. QED
    BY <1>3, <2>1, <2>2, <2>3, Zenon DEF PlayerOK
<1>10. \A c \in Running(bgs), t \in Teams, p \in party :
          CountedAt(queuedGroups, bgs, p, c, t)' <=> CountedAt(queuedGroups, bgs, p, c, t)
  <2>1. \A c \in Running(bgs) : c # 0
    BY RunningIs, Zenon DEF IInv
  <2>2. QED
    BY <1>3, <1>6, <2>1 DEF CountedAt
<1>11. FreeSlots(bgs, freeSlotQueue)' /\ LastEvents(queuedGroups, events)'
  BY <1>3, <1>6, Zenon DEF IInv, FreeSlots, LastEvents
<1>12. \A c \in Running(bgs), t \in Teams : bgs'[c].invited[t] = bgs[c].invited[t]
  BY <1>3
<1>13. \A p \in party : PlayerOK(p)'
  BY <1>9
<1>14. \A q \in Players \ party : Untouched(q)
  BY <1>8, Zenon
<1>15. Running(bgs') = Running(bgs)
  BY <1>3
<1>16. QED
  BY <1>7, <1>10, <1>11, <1>12, <1>13, <1>14, <1>15, StepUncounted, Zenon

\* Battlegrounds in which player p is now, if it was on the way; nothing else
\* changes but who is noted as offline.
Entered(p, new) ==
    /\ new \in [BgIds -> Battlegrounds \cup {NULL}] /\ Running(new) = Running(bgs)
    /\ \A c \in Running(bgs) :
          /\ new[c].invited = bgs[c].invited
          /\ new[c].m_InBGFreeSlotQueue = bgs[c].m_InBGFreeSlotQueue
          /\ \A q : q # p =>
                /\ q \in DOMAIN new[c].m_Players <=> q \in DOMAIN bgs[c].m_Players
                /\ q \in DOMAIN bgs[c].m_Players => new[c].m_Players[q] = bgs[c].m_Players[q]
          /\ p \in DOMAIN new[c].m_Players <=>
                \/ p \in DOMAIN bgs[c].m_Players
                \/ p \in travelling /\ c = bgInstanceID[p]
          /\ p \in DOMAIN new[c].m_Players =>
                new[c].m_Players[p] = IF p \in travelling THEN bgTeam[p] ELSE bgs[c].m_Players[p]

LEMMA EnteredStep ==
    ASSUME IInv, NEW p \in online, p \notin InQueue, Entered(p, bgs'),
           travelling' = travelling \ {p},
           \/ online' = online /\ queueSlot' = queueSlot
           \/ online' = online \ {p} /\ queueSlot' = [queueSlot EXCEPT ![p] = NULL],
           UNCHANGED <<freeSlotQueue, scheduled, bgInstanceID, bgTeam, queuedGroups, events>>
    PROVE  IInv'
<1>1. p \in Players
  BY Zenon DEF IInv, PlayersType
<1>2. \A b, team, time : ~In(queuedGroups, p, b, team, time)
  BY InQueueIs, Zenon
<1>3. queueSlot[p] = IF bgInstanceID[p] # 0 THEN bgInstanceID[p] ELSE NULL
  BY <1>1, <1>2, Zenon DEF IInv, Others
<1>4. /\ bgInstanceID[p] # 0 =>
            /\ bgInstanceID[p] \in Running(bgs)
            /\ p \in travelling <=> p \notin DOMAIN bgs[bgInstanceID[p]].m_Players
      /\ \A c \in Running(bgs) : p \in DOMAIN bgs[c].m_Players => bgInstanceID[p] = c /\ c # 0
  BY RunningIs, Zenon DEF IInv, Others
<1>5. PlayersType'
  BY Zenon DEF IInv, PlayersType
<1>6. QueueType'
  <2>1. queueSlot' \in [Players -> BgIds \cup {0, NULL}]
    BY Zenon DEF IInv, QueueType
  <2>2. QED
    BY <2>1, Zenon DEF IInv, QueueType, Entered
<1>7. \A q \in Players \ {p} : queueSlot'[q] = queueSlot[q] /\ (q \in online' <=> q \in online)
  BY DEF IInv, QueueType
<1>8. ASSUME NEW q \in Players \ {p} PROVE Untouched(q)
  <2>1. \A c \in Running(bgs) :
           /\ q \in DOMAIN bgs'[c].m_Players <=> q \in DOMAIN bgs[c].m_Players
           /\ q \in DOMAIN bgs[c].m_Players => bgs'[c].m_Players[q] = bgs[c].m_Players[q]
    BY Zenon DEF Entered
  <2>2. queueSlot'[q] = queueSlot[q] /\ (q \in online' <=> q \in online)
    BY <1>7, Zenon
  <2>3. q \in travelling' <=> q \in travelling
    BY Zenon
  <2>4. bgInstanceID' = bgInstanceID /\ bgTeam' = bgTeam /\ queuedGroups' = queuedGroups
    OBVIOUS
  <2>5. QED
    BY <2>1, <2>2, <2>3, <2>4, Zenon DEF Untouched
<1>9. PlayerOK(p)'
  <2>1. \A c \in Running(bgs') : p \in DOMAIN bgs'[c].m_Players <=> c = bgInstanceID[p]
    BY <1>4, RunningIs DEF Entered, IInv, PlayersType
  <2>2. bgInstanceID[p] # 0 => bgInstanceID[p] \in Running(bgs')
    BY <1>4, Zenon DEF Entered
  <2>3. queueSlot'[p] = IF p \in online' /\ bgInstanceID[p] # 0 THEN bgInstanceID[p] ELSE NULL
    BY <1>1, <1>3, Zenon DEF IInv, QueueType
  <2>4. QED
    BY <1>2, <2>1, <2>2, <2>3, Zenon DEF PlayerOK
<1>10. ASSUME NEW c \in Running(bgs), NEW t \in Teams
       PROVE  CountedAt(queuedGroups, bgs, p, c, t)' <=> CountedAt(queuedGroups, bgs, p, c, t)
  <2>1. p \in travelling => bgInstanceID[p] # 0 /\ p \notin DOMAIN bgs[c].m_Players
    BY <1>4, Zenon DEF IInv, PlayersType
  <2>2. p \in DOMAIN bgs'[c].m_Players /\ bgs'[c].m_Players[p] = t <=>
          \/ p \in travelling /\ bgInstanceID[p] = c /\ bgTeam[p] = t
          \/ p \in DOMAIN bgs[c].m_Players /\ bgs[c].m_Players[p] = t
    BY <2>1, Zenon DEF Entered
  <2>3. QED
    BY <1>2, <2>2, Zenon DEF CountedAt
<1>11. FreeSlots(bgs, freeSlotQueue)' /\ LastEvents(queuedGroups, events)' /\ Disjoint(queuedGroups)'
  BY Zenon DEF IInv, FreeSlots, LastEvents, Entered
<1>12. PICK M : M = {p}
  BY Zenon
<1>13. /\ \A q \in M : PlayerOK(q)'
       /\ \A c \in Running(bgs), t \in Teams, q \in M :
             CountedAt(queuedGroups, bgs, q, c, t)' <=> CountedAt(queuedGroups, bgs, q, c, t)
  BY <1>9, <1>10, <1>12, Zenon
<1>14. \A q \in Players \ M : Untouched(q)
  BY <1>8, <1>12, Zenon
<1>15. /\ Running(bgs') = Running(bgs)
       /\ \A c \in Running(bgs), t \in Teams : bgs'[c].invited[t] = bgs[c].invited[t]
  BY Zenon DEF Entered
<1>16. QED
  BY <1>5, <1>6, <1>11, <1>13, <1>14, <1>15, StepUncounted, Zenon

LEMMA AddPlayerIs ==
    ASSUME NEW bg \in Battlegrounds, NEW p \in Players, bgTeam[p] \in Teams, NEW e,
           e = AddPlayer(bg, p)
    PROVE  /\ e \in Battlegrounds /\ e.invited = bg.invited
           /\ e.m_InBGFreeSlotQueue = bg.m_InBGFreeSlotQueue
           /\ DOMAIN e.m_Players = DOMAIN bg.m_Players \cup {p}
           /\ \A q \in DOMAIN e.m_Players :
                 e.m_Players[q] = IF q = p THEN bgTeam[p] ELSE bg.m_Players[q]
<1>1. PICK in : in = DOMAIN bg.m_Players \cup {p}
  BY Zenon
<1>2. PICK sides : sides = [q \in in |-> IF q = p THEN bgTeam[p] ELSE bg.m_Players[q]]
  BY Zenon
<1>3. in \subseteq Players /\ sides \in [in -> Teams]
  BY <1>1, <1>2, BgFields, Zenon
<1>4. sides \in UNION {[inside -> Teams] : inside \in SUBSET Players}
  BY <1>3, Zenon
<1>5. e = [bg EXCEPT !.m_Players = sides]
  BY <1>1, <1>2, Zenon DEF AddPlayer
<1>6. /\ e \in Battlegrounds /\ e.invited = bg.invited /\ e.m_Players = sides
      /\ e.m_InBGFreeSlotQueue = bg.m_InBGFreeSlotQueue
  BY <1>4, <1>5, Zenon DEF Battlegrounds
<1>7. QED
  BY <1>1, <1>2, <1>6, Zenon

\* Who is noted as offline.
LEMMA OfflineIs ==
    ASSUME NEW bg \in Battlegrounds, NEW s \in Seq(Players), NEW e,
           e = [bg EXCEPT !.m_OfflineQueue = s]
    PROVE  /\ e \in Battlegrounds /\ e.invited = bg.invited /\ e.m_Players = bg.m_Players
           /\ e.m_InBGFreeSlotQueue = bg.m_InBGFreeSlotQueue
BY Zenon DEF Battlegrounds

LEMMA WorldportIs ==
    ASSUME IInv, NEW p \in online, p \notin InQueue
    PROVE  /\ Entered(p, HandleMoveWorldportAck(p))
           /\ p \in travelling => bgInstanceID[p] \in Running(bgs)
<1>1. p \in Players
  BY Zenon DEF IInv, PlayersType
<1>2. bgs \in [BgIds -> Battlegrounds \cup {NULL}]
  BY Zenon DEF IInv, QueueType
<1>3. CASE p \in travelling
  <2>1. PICK b : b = bgInstanceID[p]
    BY Zenon
  <2>2. b # 0 /\ bgTeam[p] \in Teams
    BY <1>3, <2>1, Zenon DEF IInv, PlayersType
  <2>3. b \in Running(bgs)
    BY <2>1, <2>2 DEF IInv, Others
  <2>4. queueSlot[p] = b
    BY <1>1, <2>1, <2>2, NotInQueue, Zenon
  <2>5. bgs[b] # NULL /\ b \in BgIds /\ bgs[b] \in Battlegrounds
    BY <2>3, RunningIs, Zenon DEF Running, IInv
  <2>6. PICK e : e = AddPlayer(bgs[b], p)
    OBVIOUS
  <2>7. PICK new : new = HandleMoveWorldportAck(p)
    OBVIOUS
  <2>8. new = [bgs EXCEPT ![b] = e]
    BY <1>3, <2>1, <2>4, <2>5, <2>6, <2>7, Zenon DEF HandleMoveWorldportAck
  <2>9. /\ e \in Battlegrounds /\ e.invited = bgs[b].invited
        /\ e.m_InBGFreeSlotQueue = bgs[b].m_InBGFreeSlotQueue
        /\ DOMAIN e.m_Players = DOMAIN bgs[b].m_Players \cup {p}
        /\ \A q \in DOMAIN e.m_Players :
              e.m_Players[q] = IF q = p THEN bgTeam[p] ELSE bgs[b].m_Players[q]
    BY <1>1, <2>2, <2>5, <2>6, AddPlayerIs
  <2>10. /\ new \in [BgIds -> Battlegrounds \cup {NULL}] /\ Running(new) = Running(bgs)
         /\ new[b] = e /\ \A c \in Running(bgs) : c # b => new[c] = bgs[c]
    <3>1. e \in Battlegrounds
      BY <2>9, Zenon
    <3>2. Replaced(bgs, [bgs EXCEPT ![b] = e], b, e)
      BY <1>2, <2>3, <3>1, BgReplaced, Zenon
    <3>3. QED
      BY <2>8, <3>2, Zenon DEF Replaced
  <2>11. \A c \in Running(bgs) : p \in DOMAIN bgs[c].m_Players => c = b
    BY <2>1, Zenon DEF IInv, Others
  <2>12. ASSUME NEW c \in Running(bgs)
         PROVE  /\ new[c].invited = bgs[c].invited
                /\ new[c].m_InBGFreeSlotQueue = bgs[c].m_InBGFreeSlotQueue
                /\ \A q : q # p =>
                      /\ q \in DOMAIN new[c].m_Players <=> q \in DOMAIN bgs[c].m_Players
                      /\ q \in DOMAIN bgs[c].m_Players => new[c].m_Players[q] = bgs[c].m_Players[q]
                /\ p \in DOMAIN new[c].m_Players <=> c = b
                /\ p \in DOMAIN new[c].m_Players => new[c].m_Players[p] = bgTeam[p]
    <3>1. CASE c = b
      BY <2>9, <2>10, <3>1, Zenon
    <3>2. CASE c # b
      BY <2>10, <2>11, <3>2, Zenon
    <3>3. QED
      BY <3>1, <3>2, Zenon
  <2>13. \A c \in Running(bgs) : p \in DOMAIN bgs[c].m_Players \/ c = b <=> c = b
    BY <2>11, Zenon
  <2>14. Entered(p, new)
    BY <1>3, <2>1, <2>10, <2>12, <2>13, Zenon DEF Entered
  <2>15. QED
    BY <2>1, <2>3, <2>7, <2>14, Zenon
<1>4. CASE p \notin travelling
  <2>1. HandleMoveWorldportAck(p) = bgs
    BY <1>4, Zenon DEF HandleMoveWorldportAck
  <2>2. Entered(p, bgs)
    BY <1>2, <1>4, Zenon DEF Entered
  <2>3. QED
    BY <1>4, <2>1, <2>2, Zenon
<1>5. QED
  BY <1>3, <1>4, Zenon

LEMMA ArriveStep ==
    ASSUME IInv, NEW p \in Players, Arrive(p)
    PROVE  IInv'
<1>1. p \in travelling /\ p \in online /\ bgInstanceID[p] # 0
  BY Zenon DEF Arrive, IInv, PlayersType
<1>2. p \notin InQueue
  BY <1>1, NotInQueue, Zenon
<1>3. Entered(p, HandleMoveWorldportAck(p)) /\ bgInstanceID[p] \in Running(bgs)
  BY <1>1, <1>2, WorldportIs, Zenon
<1>4. /\ travelling' = travelling \ {p} /\ bgs' = HandleMoveWorldportAck(p)
      /\ UNCHANGED <<freeSlotQueue, scheduled, online, queueSlot, queuedGroups, events>>
      /\ UNCHANGED <<bgInstanceID, bgTeam>>
  <2>1. bgs[bgInstanceID[p]] # NULL
    BY <1>3, Zenon DEF Running
  <2>2. QED
    BY <2>1, Zenon DEF Arrive, queueVars
<1>5. QED
  BY <1>1, <1>2, <1>3, <1>4, EnteredStep, Zenon

LEMMA EnteredToo ==
    ASSUME NEW p, NEW there, Entered(p, there), NEW new \in [BgIds -> Battlegrounds \cup {NULL}],
           Running(new) = Running(bgs),
           \A c \in Running(bgs) :
              /\ new[c].invited = there[c].invited /\ new[c].m_Players = there[c].m_Players
              /\ new[c].m_InBGFreeSlotQueue = there[c].m_InBGFreeSlotQueue
    PROVE  Entered(p, new)
<1>1. ASSUME NEW c \in Running(bgs)
      PROVE  /\ new[c].invited = bgs[c].invited
             /\ new[c].m_InBGFreeSlotQueue = bgs[c].m_InBGFreeSlotQueue
             /\ \A q : q # p =>
                   /\ q \in DOMAIN new[c].m_Players <=> q \in DOMAIN bgs[c].m_Players
                   /\ q \in DOMAIN bgs[c].m_Players => new[c].m_Players[q] = bgs[c].m_Players[q]
             /\ p \in DOMAIN new[c].m_Players <=>
                   \/ p \in DOMAIN bgs[c].m_Players
                   \/ p \in travelling /\ c = bgInstanceID[p]
             /\ p \in DOMAIN new[c].m_Players =>
                   new[c].m_Players[p] = IF p \in travelling THEN bgTeam[p] ELSE bgs[c].m_Players[p]
  <2>1. PICK m : m = there[c].m_Players
    BY Zenon
  <2>2. /\ there[c].invited = bgs[c].invited
        /\ there[c].m_InBGFreeSlotQueue = bgs[c].m_InBGFreeSlotQueue
        /\ \A q : q # p =>
              /\ q \in DOMAIN m <=> q \in DOMAIN bgs[c].m_Players
              /\ q \in DOMAIN bgs[c].m_Players => m[q] = bgs[c].m_Players[q]
        /\ p \in DOMAIN m <=>
              \/ p \in DOMAIN bgs[c].m_Players
              \/ p \in travelling /\ c = bgInstanceID[p]
        /\ p \in DOMAIN m => m[p] = IF p \in travelling THEN bgTeam[p] ELSE bgs[c].m_Players[p]
    BY <2>1, Zenon DEF Entered
  <2>3. /\ new[c].invited = there[c].invited /\ new[c].m_Players = m
        /\ new[c].m_InBGFreeSlotQueue = there[c].m_InBGFreeSlotQueue
    BY <2>1, Zenon
  <2>4. QED
    BY <2>2, <2>3, Zenon
<1>2. QED
  BY <1>1, Zenon DEF Entered

LEMMA LogoutStep ==
    ASSUME IInv, NEW p \in Players, LogoutPlayer(p)
    PROVE  IInv'
<1>1. PICK there, told : /\ there = HandleMoveWorldportAck(p)
                         /\ told = EventPlayerLoggedOut(p, there)
  OBVIOUS
<1>2. /\ p \in online /\ online' = online \ {p} /\ travelling' = travelling \ {p}
      /\ IF queueSlot[p] # NULL THEN RemovePlayer(p, told, TRUE)
         ELSE bgs' = told /\ UNCHANGED queuedGroups
      /\ queueSlot' = [queueSlot EXCEPT ![p] = NULL]
      /\ UNCHANGED <<freeSlotQueue, scheduled, bgInstanceID, bgTeam, events>>
  BY <1>1, Zenon DEF LogoutPlayer
<1>3. CASE p \in InQueue
  <2>1. bgInstanceID[p] = 0 /\ p \notin travelling /\ queueSlot[p] # NULL
    BY <1>3, NotInQueue, Zenon DEF IInv, PlayersType
  <2>2. told = bgs
    BY <1>1, <2>1 DEF HandleMoveWorldportAck, EventPlayerLoggedOut
  <2>3. /\ queuedGroups' = WithoutPlayer(p)
        /\ bgs' = WithoutInvitation(bgs, queuedGroups[GroupOf(p)])
    BY <1>2, <1>3, <2>1, <2>2, Zenon DEF RemovePlayer
  <2>4. travelling' = travelling /\ scheduled' \in BOOLEAN
    BY <1>2, <2>1, Zenon DEF IInv, QueueType
  <2>5. QED
    BY <1>2, <1>3, <2>3, <2>4, QueueLeft, Zenon
<1>4. CASE p \notin InQueue
  <2>1. bgs' = told /\ UNCHANGED queuedGroups
    BY <1>2, <1>4, Zenon DEF RemovePlayer
  <2>2. Entered(p, there)
    BY <1>1, <1>2, <1>4, WorldportIs, Zenon
  <2>3. Entered(p, told)
    <3>1. PICK b : b = bgInstanceID[p]
      BY Zenon
    <3>2. CASE b # 0 /\ there[b] # NULL /\ p \in DOMAIN there[b].m_Players
      <4>1. b \in BgIds /\ b \in Running(there) /\ there[b] \in Battlegrounds
        BY <2>2, <3>1, <3>2, Zenon DEF Entered, Running, IInv, PlayersType
      <4>2. PICK s : s = Append(there[b].m_OfflineQueue, p)
        BY Zenon
      <4>3. s \in Seq(Players)
        <5>1. there[b].m_OfflineQueue \in Seq(Players)
          BY <4>1, BgFields, Zenon
        <5>2. QED
          BY <4>2, <5>1
      <4>4. PICK e : e = [there[b] EXCEPT !.m_OfflineQueue = s]
        BY Zenon
      <4>5. /\ e \in Battlegrounds /\ e.invited = there[b].invited
            /\ e.m_Players = there[b].m_Players
            /\ e.m_InBGFreeSlotQueue = there[b].m_InBGFreeSlotQueue
        BY <4>1, <4>3, <4>4, OfflineIs
      <4>6. told = [there EXCEPT ![b] = e]
        BY <1>1, <3>1, <3>2, <4>1, <4>2, <4>4, Zenon DEF EventPlayerLoggedOut
      <4>7. /\ told \in [BgIds -> Battlegrounds \cup {NULL}] /\ Running(told) = Running(there)
            /\ told[b] = e /\ \A c \in Running(there) : c # b => told[c] = there[c]
        <5>1. there \in [BgIds -> Battlegrounds \cup {NULL}]
          BY <2>2, Zenon DEF Entered
        <5>2. e \in Battlegrounds /\ b \in Running(there)
          BY <4>1, <4>5, Zenon
        <5>3. Replaced(there, [there EXCEPT ![b] = e], b, e)
          BY <5>1, <5>2, BgReplaced, Zenon
        <5>4. QED
          BY <4>6, <5>3, Zenon DEF Replaced
      <4>8. \A c \in Running(there) :
               /\ told[c].invited = there[c].invited /\ told[c].m_Players = there[c].m_Players
               /\ told[c].m_InBGFreeSlotQueue = there[c].m_InBGFreeSlotQueue
        BY <4>5, <4>7, Zenon
      <4>9. Running(there) = Running(bgs)
        BY <2>2, Zenon DEF Entered
      <4>10. told \in [BgIds -> Battlegrounds \cup {NULL}] /\ Running(told) = Running(bgs)
        BY <4>7, <4>9, Zenon
      <4>11. \A c \in Running(bgs) :
                /\ told[c].invited = there[c].invited /\ told[c].m_Players = there[c].m_Players
                /\ told[c].m_InBGFreeSlotQueue = there[c].m_InBGFreeSlotQueue
        BY <4>8, <4>9, Zenon
      <4>12. QED
        BY <2>2, <4>10, <4>11, EnteredToo, Zenon
    <3>3. CASE ~(b # 0 /\ there[b] # NULL /\ p \in DOMAIN there[b].m_Players)
      BY <1>1, <2>2, <3>1, <3>3, Zenon DEF EventPlayerLoggedOut
    <3>4. QED
      BY <3>2, <3>3, Zenon
  <2>4. QED
    BY <1>2, <1>4, <2>1, <2>3, EnteredStep, Zenon
<1>5. QED
  BY <1>3, <1>4, Zenon
=============================================================================
