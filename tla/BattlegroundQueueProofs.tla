---------------------- MODULE BattlegroundQueueProofs -----------------------
(***************************************************************************)
(* The inductive invariant of battlegrounds and their queue, and that the  *)
(* update of the queue keeps it, whichever groups the selection picks. The *)
(* proof goes on in BattlegroundPlayerProofs and BattlegroundMgrProofs.    *)
(***************************************************************************)
EXTENDS BattlegroundMgr, FiniteSetTheorems, TLAPS

Groups ==
    [Players : SUBSET Players, Team : Teams,
     IsInvitedToBGInstanceGUID : BgIds \cup {0}, RemoveInviteTime : Nat]

Events == [player : Players, bg : BgIds, removeTime : Nat]

\* Player p waits in a group with an invitation to b (0 for none) for a side,
\* until a time.
In(groups, p, b, team, time) ==
    \E i \in DOMAIN groups :
        /\ p \in groups[i].Players /\ groups[i].IsInvitedToBGInstanceGUID = b
        /\ groups[i].Team = team /\ groups[i].RemoveInviteTime = time

\* Groups have players, and no two groups have one in common.
Disjoint(groups) ==
    /\ \A i \in DOMAIN groups : groups[i].Players # {}
    /\ \A i, j \in DOMAIN groups : i # j => groups[i].Players \cap groups[j].Players = {}

Running(in) == {b \in BgIds : in[b] # NULL}

\* Those whom the counter of a battleground is to count for a side.
CountedAt(groups, in, p, b, team) ==
    \/ \E time : In(groups, p, b, team, time)
    \/ p \in travelling /\ bgInstanceID[p] = b /\ bgTeam[p] = team
    \/ p \in DOMAIN in[b].m_Players /\ in[b].m_Players[p] = team

Counted(groups, in, b, team) == {p \in Players : CountedAt(groups, in, p, b, team)}

PlayersType ==
    /\ online \subseteq Players /\ travelling \subseteq online
    /\ bgInstanceID \in [Players -> BgIds \cup {0}]
    /\ bgTeam \in [Players -> Teams \cup {NULL}]
    /\ \A p \in travelling : bgInstanceID[p] # 0 /\ bgTeam[p] \in Teams

\* What is known of everybody who waits...
Waiters(groups, in, slot) ==
    \A p, b, team, time : In(groups, p, b, team, time) =>
        p \in online /\ bgInstanceID[p] = 0 /\ slot[p] = b /\ b \in Running(in) \cup {0}

\* ...and of everybody else.
Others(groups, in, slot) ==
    /\ \A p \in Players :
          (\A b, team, time : ~In(groups, p, b, team, time)) =>
              slot[p] = IF p \in online /\ bgInstanceID[p] # 0 THEN bgInstanceID[p] ELSE NULL
    /\ \A p \in online : bgInstanceID[p] # 0 =>
          /\ bgInstanceID[p] \in Running(in)
          /\ p \in travelling <=> p \notin DOMAIN in[bgInstanceID[p]].m_Players
    /\ \A b \in Running(in) : \A p \in DOMAIN in[b].m_Players : bgInstanceID[p] = b

Counts(groups, in) ==
    \A b \in Running(in), team \in Teams :
        in[b].invited[team] = Cardinality(Counted(groups, in, b, team))

\* BGFreeSlotQueue has no battleground twice, and none that is gone.
FreeSlots(in, queue) ==
    /\ \A k, l \in DOMAIN queue : k # l => queue[k] # queue[l]
    /\ \A k \in DOMAIN queue : queue[k] \in Running(in) /\ in[queue[k]].m_InBGFreeSlotQueue

\* The event that belongs to an invitation is the last one for its player.
LastEvents(groups, queue) ==
    \A k, l \in DOMAIN queue : \A b, team :
        (In(groups, queue[k].player, b, team, queue[k].removeTime) /\ b # 0
            /\ queue[l].player = queue[k].player) => l <= k

QueueType ==
    /\ queuedGroups \in Seq(Groups) /\ events \in Seq(Events)
    /\ queueSlot \in [Players -> BgIds \cup {0, NULL}]
    /\ bgs \in [BgIds -> Battlegrounds \cup {NULL}] /\ freeSlotQueue \in Seq(BgIds)
    /\ scheduled \in BOOLEAN

IInv ==
    /\ PlayersType /\ QueueType
    /\ Disjoint(queuedGroups) /\ Waiters(queuedGroups, bgs, queueSlot)
    /\ Others(queuedGroups, bgs, queueSlot) /\ Counts(queuedGroups, bgs)
    /\ FreeSlots(bgs, freeSlotQueue) /\ LastEvents(queuedGroups, events)

-----------------------------------------------------------------------------
(* Induction on numbers, and what it says of loops that are written as       *)
(* recursive functions. The library's induction theorems have an operator as *)
(* a parameter; here it is a set.                                            *)

\* The library's least element of a set of finite sets, for the sets 0..k.
LEMMA Induction ==
    ASSUME NEW S, 0 \in S, \A n \in Nat : n \in S => n + 1 \in S
    PROVE  Nat \subseteq S
<1> SUFFICES ASSUME NEW m \in Nat, m \notin S PROVE FALSE
  OBVIOUS
<1> DEFINE T == {0..k : k \in Nat \ S}
<1>1. T \subseteq FiniteSubsetsOf(Nat)
  <2> SUFFICES ASSUME NEW k \in Nat PROVE 0..k \in SUBSET Nat /\ IsFiniteSet(0..k)
    BY DEF FiniteSubsetsOf
  <2> QED
    BY FS_Interval
<1>2. T # {}
  OBVIOUS
<1>3. PICK x \in T : \A y \in T : <<y, x>> \notin StrictSubsetOrdering(Nat)
  BY <1>1, <1>2, FS_StrictSubsetOrderingWellFounded, WFMin, Zenon
<1>4. PICK k \in Nat \ S : x = 0..k
  OBVIOUS
<1>5. k # 0 /\ k - 1 \in Nat \ S
  <2>1. k # 0
    OBVIOUS
  <2>2. k - 1 \in Nat /\ (k - 1) + 1 = k
    BY <2>1
  <2>3. QED
    BY <2>1, <2>2
<1>6. 0..(k - 1) \in T /\ 0..(k - 1) \subseteq 0..k /\ 0..(k - 1) # 0..k
  <2>1. k \in 0..k /\ k \notin 0..(k - 1)
    BY <1>5
  <2>2. QED
    BY <1>5, <2>1
<1>7. <<0..(k - 1), 0..k>> \in StrictSubsetOrdering(Nat)
  BY <1>6 DEF StrictSubsetOrdering
<1>8. QED
  BY <1>3, <1>4, <1>6, <1>7, Zenon

\* The runs of N steps from a first value, in which step n does what F[n] says.
Runs(S, N, first, F) ==
    {h \in [0..N -> S] : h[0] = first /\ \A n \in 1..N : h[n] = F[n][h[n - 1]]}

\* There is such a run, which makes a definition by recursion mean something.
LEMMA RunExists ==
    ASSUME NEW S, NEW first \in S, NEW N \in Nat, NEW F \in [1..N -> [S -> S]]
    PROVE  Runs(S, N, first, F) # {}
<1> DEFINE Run(h, m) == h \in [0..m -> S] /\ h[0] = first /\ \A n \in 1..m : h[n] = F[n][h[n - 1]]
           Lengths == {m \in Nat : m <= N => \E h : Run(h, m)}
<1>1. 0 \in Lengths
  <2>1. Run([n \in 0..0 |-> first], 0)
    OBVIOUS
  <2>2. QED
    BY <2>1, Zenon
<1>2. ASSUME NEW m \in Nat, m \in Lengths PROVE m + 1 \in Lengths
  <2> SUFFICES ASSUME m + 1 <= N PROVE \E h : Run(h, m + 1)
    OBVIOUS
  <2>1. PICK g : Run(g, m)
    BY <1>2
  <2> DEFINE h == [n \in 0..(m + 1) |-> IF n = m + 1 THEN F[m + 1][g[m]] ELSE g[n]]
  <2>2. g[m] \in S /\ m + 1 \in 1..N
    BY <2>1
  <2>3. F[m + 1][g[m]] \in S
    BY <2>2
  <2>4. h \in [0..(m + 1) -> S]
    BY <2>1, <2>3
  <2>5. ASSUME NEW n \in 1..(m + 1) PROVE h[n] = F[n][h[n - 1]]
    <3>1. CASE n = m + 1
      BY <3>1
    <3>2. CASE n # m + 1
      BY <2>1, <3>2
    <3>3. QED
      BY <3>1, <3>2
  <2>6. h[0] = first
    BY <2>1
  <2> HIDE DEF h
  <2>7. QED
    BY <2>4, <2>5, <2>6
<1> HIDE DEF Run
<1>3. Nat \subseteq Lengths
  BY <1>1, <1>2, Induction, Zenon
<1>4. \E h : Run(h, N)
  BY <1>3
<1>5. QED
  BY <1>4 DEF Run, Runs

\* What each step of a loop keeps holds at its end.
LEMMA StaysIn ==
    ASSUME NEW S, NEW N \in Nat, NEW h, h[0] \in S,
           \A n \in 1..N : h[n - 1] \in S => h[n] \in S
    PROVE  \A n \in 0..N : h[n] \in S
<1> DEFINE Steps == {n \in Nat : n <= N => h[n] \in S}
<1>1. 0 \in Steps
  OBVIOUS
<1>2. ASSUME NEW n \in Nat, n \in Steps PROVE n + 1 \in Steps
  <2> SUFFICES ASSUME n + 1 <= N PROVE h[n + 1] \in S
    OBVIOUS
  <2>1. n + 1 \in 1..N /\ (n + 1) - 1 = n /\ h[n] \in S
    BY <1>2
  <2>2. h[(n + 1) - 1] \in S => h[n + 1] \in S
    BY <2>1
  <2>3. QED
    BY <2>1, <2>2
<1>3. Nat \subseteq Steps
  <2> HIDE DEF Steps
  <2> QED
    BY <1>1, <1>2, Induction
<1>4. QED
  BY <1>3

\* A set of numbers with a bound has a greatest one.
LEMMA Greatest ==
    ASSUME NEW bound \in Nat, NEW S \in SUBSET (0..bound), S # {}
    PROVE  \E m \in S : \A n \in S : n <= m
<1> DEFINE Bounds == {k \in Nat : \A T \in SUBSET (0..k) : T # {} => \E m \in T : \A n \in T : n <= m}
<1>1. 0 \in Bounds
  <2> SUFFICES ASSUME NEW T \in SUBSET (0..0), NEW m \in T
               PROVE  \E x \in T : \A n \in T : n <= x
    BY Zenon
  <2>1. \A n \in T : n = 0
    OBVIOUS
  <2>2. QED
    BY <2>1
<1>2. ASSUME NEW k \in Nat, k \in Bounds PROVE k + 1 \in Bounds
  <2> SUFFICES ASSUME NEW T \in SUBSET (0..(k + 1)), T # {}
               PROVE  \E m \in T : \A n \in T : n <= m
    OBVIOUS
  <2>1. CASE k + 1 \in T
    BY <2>1
  <2>2. CASE k + 1 \notin T
    <3>1. T \in SUBSET (0..k)
      BY <2>2
    <3>2. QED
      BY <1>2, <3>1
  <2>3. QED
    BY <2>1, <2>2
<1>3. Nat \subseteq Bounds
  <2> HIDE DEF Bounds
  <2> QED
    BY <1>1, <1>2, Induction
<1>4. QED
  BY <1>3, Zenon

\* A set of numbers has a least one.
LEMMA Least ==
    ASSUME NEW S \in SUBSET Nat, S # {}
    PROVE  \E m \in S : \A n \in S : m <= n
<1> SUFFICES ASSUME \A m \in S : \E n \in S : n < m PROVE FALSE
  OBVIOUS
<1> DEFINE Upto == {k \in Nat : \A n \in S : k <= n}
<1>1. 0 \in Upto
  OBVIOUS
<1>2. ASSUME NEW k \in Nat, k \in Upto PROVE k + 1 \in Upto
  BY <1>2
<1>3. Nat \subseteq Upto
  <2> HIDE DEF Upto
  <2> QED
    BY <1>1, <1>2, Induction, Zenon
<1>4. QED
  <2>1. PICK m \in S : TRUE
    BY Zenon
  <2>2. m + 1 \in Upto
    BY <1>3
  <2>3. QED
    BY <2>2

-----------------------------------------------------------------------------
(* Erasing *)

LEMMA EraseAtType ==
    ASSUME NEW S, NEW queue \in Seq(S), NEW i \in DOMAIN queue
    PROVE  /\ EraseAt(queue, i) \in Seq(S) /\ Len(EraseAt(queue, i)) = Len(queue) - 1
           /\ DOMAIN EraseAt(queue, i) = 1 .. Len(queue) - 1
           /\ \A k \in 1 .. Len(queue) - 1 :
                 EraseAt(queue, i)[k] = IF k < i THEN queue[k] ELSE queue[k + 1]
<1>1. Len(queue) \in Nat /\ DOMAIN queue = 1..Len(queue) /\ Len(queue) - 1 \in Nat
  OBVIOUS
<1>2. \A k \in 1 .. Len(queue) - 1 : k \in DOMAIN queue /\ k + 1 \in DOMAIN queue
  BY <1>1
<1>3. EraseAt(queue, i) \in [1 .. Len(queue) - 1 -> S]
  BY <1>1, <1>2 DEF EraseAt
<1>4. QED
  BY <1>1, <1>3 DEF EraseAt

\* EraseFirst finds the first x.
LEMMA EraseFirstIs ==
    ASSUME NEW S, NEW queue \in Seq(S), NEW x, NEW i \in DOMAIN queue, queue[i] = x
    PROVE  \E k \in DOMAIN queue : queue[k] = x /\ EraseFirst(queue, x) = EraseAt(queue, k)
<1> DEFINE at == {k \in DOMAIN queue : queue[k] = x}
<1>1. at \in SUBSET Nat /\ at # {}
  OBVIOUS
<1>2. \E k \in at : \A l \in at : k <= l
  <2> HIDE DEF at
  <2> QED
    BY <1>1, Least, Zenon
<1>3. PICK k \in at : k = CHOOSE m \in at : \A l \in at : m <= l
  BY <1>2
<1>4. EraseFirst(queue, x) = EraseAt(queue, k)
  BY <1>1, <1>3 DEF EraseFirst
<1>5. QED
  BY <1>3, <1>4, Zenon

LEMMA EraseFirstType ==
    ASSUME NEW S, NEW queue \in Seq(S), NEW x
    PROVE  EraseFirst(queue, x) \in Seq(S)
<1>1. CASE \E i \in DOMAIN queue : queue[i] = x
  BY <1>1, EraseFirstIs, EraseAtType
<1>2. CASE ~\E i \in DOMAIN queue : queue[i] = x
  BY <1>2, Zenon DEF EraseFirst
<1>3. QED
  BY <1>1, <1>2

\* Without repetition, and without x.
LEMMA Erased ==
    ASSUME NEW S, NEW queue \in Seq(S), NEW x,
           \A k, l \in DOMAIN queue : k # l => queue[k] # queue[l]
    PROVE  /\ \A k, l \in DOMAIN EraseFirst(queue, x) :
                 k # l => EraseFirst(queue, x)[k] # EraseFirst(queue, x)[l]
           /\ \A k \in DOMAIN EraseFirst(queue, x) :
                 /\ EraseFirst(queue, x)[k] # x
                 /\ \E l \in DOMAIN queue : queue[l] = EraseFirst(queue, x)[k]
<1>1. CASE \E i \in DOMAIN queue : queue[i] = x
  <2>1. PICK m \in DOMAIN queue : queue[m] = x /\ EraseFirst(queue, x) = EraseAt(queue, m)
    BY <1>1, EraseFirstIs
  <2>2. PICK e : e = EraseAt(queue, m)
    OBVIOUS
  <2>3. /\ DOMAIN e = 1 .. Len(queue) - 1
        /\ \A k \in DOMAIN e : e[k] = IF k < m THEN queue[k] ELSE queue[k + 1]
    BY <2>2, EraseAtType, Zenon
  <2>4. /\ Len(queue) \in Nat /\ DOMAIN queue = 1..Len(queue) /\ m \in Nat
    OBVIOUS
  <2>5. \A k \in DOMAIN e : \E l \in DOMAIN queue :
           l # m /\ e[k] = queue[l] /\ l = IF k < m THEN k ELSE k + 1
    BY <2>3, <2>4
  <2>6. \A k, l \in DOMAIN e : k # l => e[k] # e[l]
    <3> SUFFICES ASSUME NEW k \in DOMAIN e, NEW l \in DOMAIN e, k # l PROVE e[k] # e[l]
      OBVIOUS
    <3>1. PICK a \in DOMAIN queue : e[k] = queue[a] /\ a = IF k < m THEN k ELSE k + 1
      BY <2>5
    <3>2. PICK b \in DOMAIN queue : e[l] = queue[b] /\ b = IF l < m THEN l ELSE l + 1
      BY <2>5
    <3>3. a # b
      BY <2>3, <2>4, <3>1, <3>2
    <3>4. QED
      BY <3>1, <3>2, <3>3
  <2>7. QED
    BY <2>1, <2>2, <2>5, <2>6
<1>2. CASE ~\E i \in DOMAIN queue : queue[i] = x
  BY <1>2 DEF EraseFirst
<1>3. QED
  BY <1>1, <1>2, Zenon

LEMMA GroupFields ==
    ASSUME NEW g \in Groups
    PROVE  /\ g.Players \subseteq Players /\ g.Team \in Teams
           /\ g.IsInvitedToBGInstanceGUID \in BgIds \cup {0} /\ g.RemoveInviteTime \in Nat
BY DEF Groups

-----------------------------------------------------------------------------
(* Battlegrounds and their counters *)

LEMMA BgFields ==
    ASSUME NEW bg \in Battlegrounds
    PROVE  /\ bg # NULL
           /\ bg.status \in {"WAIT_JOIN", "IN_PROGRESS", "WAIT_LEAVE"}
           /\ bg.invited \in [Teams -> Nat]
           /\ DOMAIN bg.m_Players \subseteq Players
           /\ bg.m_Players \in [DOMAIN bg.m_Players -> Teams]
           /\ bg.m_OfflineQueue \in Seq(Players) /\ bg.m_InBGFreeSlotQueue \in BOOLEAN
<1>1. bg # NULL
  BY BattlegroundAssumption
<1>2. bg.m_Players \in UNION {[inside -> Teams] : inside \in SUBSET Players}
  BY DEF Battlegrounds
<1>3. PICK inside \in SUBSET Players : bg.m_Players \in [inside -> Teams]
  BY <1>2
<1>4. DOMAIN bg.m_Players \subseteq Players /\ bg.m_Players \in [DOMAIN bg.m_Players -> Teams]
  BY <1>3
<1>5. QED
  BY <1>1, <1>4 DEF Battlegrounds

LEMMA BgBuilt ==
    ASSUME NEW status \in {"WAIT_JOIN", "IN_PROGRESS", "WAIT_LEAVE"}, NEW invited \in [Teams -> Nat],
           NEW inside \in SUBSET Players, NEW sides \in [inside -> Teams],
           NEW offline \in Seq(Players), NEW free \in BOOLEAN
    PROVE  [status |-> status, invited |-> invited, m_Players |-> sides,
            m_OfflineQueue |-> offline, m_InBGFreeSlotQueue |-> free] \in Battlegrounds
<1>1. sides \in UNION {[in -> Teams] : in \in SUBSET Players}
  OBVIOUS
<1>2. QED
  BY <1>1 DEF Battlegrounds

\* A battleground whose counter for a side is now n.
Recounted(bg, new, team, n) ==
    /\ new \in Battlegrounds /\ new.invited[team] = n
    /\ \A t \in Teams \ {team} : new.invited[t] = bg.invited[t]
    /\ new.status = bg.status /\ new.m_Players = bg.m_Players
    /\ new.m_OfflineQueue = bg.m_OfflineQueue
    /\ new.m_InBGFreeSlotQueue = bg.m_InBGFreeSlotQueue

LEMMA RecountedIs ==
    ASSUME NEW bg \in Battlegrounds, NEW team \in Teams, NEW n \in Nat
    PROVE  Recounted(bg, [bg EXCEPT !.invited[team] = n], team, n)
<1>1. PICK i \in [Teams -> Nat] : i = [bg.invited EXCEPT ![team] = n]
  BY BgFields, Zenon
<1>2. [bg EXCEPT !.invited[team] = n] = [bg EXCEPT !.invited = i]
  BY <1>1
<1>3. PICK new : new = [bg EXCEPT !.invited = i]
  BY Zenon
<1>4. /\ new \in Battlegrounds /\ new.invited = i
      /\ new.status = bg.status /\ new.m_Players = bg.m_Players
      /\ new.m_OfflineQueue = bg.m_OfflineQueue
      /\ new.m_InBGFreeSlotQueue = bg.m_InBGFreeSlotQueue
  BY <1>3, Zenon DEF Battlegrounds
<1>5. i[team] = n /\ \A t \in Teams \ {team} : i[t] = bg.invited[t]
  BY <1>1, BgFields
<1>6. QED
  BY <1>2, <1>3, <1>4, <1>5, Zenon DEF Recounted

LEMMA Sizes == CounterSize \in Nat /\ Cardinality(Players) \in Nat /\ Cardinality(Players) < CounterSize
<1>1. Cardinality(Players) \in Nat
  BY BattlegroundAssumption, FS_CardinalityType, Zenon
<1>2. QED
  BY <1>1, BattlegroundAssumption

LEMMA Wrapped ==
    ASSUME NEW n \in Nat, n < CounterSize
    PROVE  n % CounterSize = n /\ (n + CounterSize) % CounterSize = n
<1>1. PICK c \in Nat : c = CounterSize /\ n < c
  BY Sizes
<1>2. n % c = n
  BY <1>1
<1>3. (n + c) % c = n
  BY <1>1
<1>4. QED
  BY <1>1, <1>2, <1>3, Zenon

LEMMA Increased ==
    ASSUME NEW bg \in Battlegrounds, NEW team \in Teams, NEW n \in Nat,
           bg.invited[team] + n <= Cardinality(Players)
    PROVE  Recounted(bg, IncreaseInvitedCount(bg, team, n), team, bg.invited[team] + n)
<1>1. PICK m \in Nat : m = bg.invited[team] + n
  BY BgFields
<1>2. m % CounterSize = m
  BY <1>1, Sizes, Wrapped
<1>3. IncreaseInvitedCount(bg, team, n) = [bg EXCEPT !.invited[team] = m]
  BY <1>1, <1>2, BgFields, Zenon DEF IncreaseInvitedCount
<1>4. QED
  BY <1>1, <1>3, RecountedIs

LEMMA CountedIsFinite ==
    ASSUME NEW g, NEW in, NEW b, NEW team
    PROVE  /\ IsFiniteSet(Counted(g, in, b, team)) /\ Counted(g, in, b, team) \subseteq Players
           /\ Cardinality(Counted(g, in, b, team)) \in Nat
           /\ Cardinality(Counted(g, in, b, team)) <= Cardinality(Players)
<1>1. Counted(g, in, b, team) \subseteq Players
  BY DEF Counted
<1>2. QED
  BY <1>1, BattlegroundAssumption, FS_Subset, FS_CardinalityType

\* Battlegrounds of which one is replaced.
Replaced(old, new, b, e) ==
    /\ new \in [BgIds -> Battlegrounds \cup {NULL}] /\ Running(new) = Running(old)
    /\ new[b] = e /\ \A c \in Running(old) : c # b => new[c] = old[c]

LEMMA BgReplaced ==
    ASSUME NEW old \in [BgIds -> Battlegrounds \cup {NULL}], NEW b \in Running(old),
           NEW e \in Battlegrounds
    PROVE  Replaced(old, [old EXCEPT ![b] = e], b, e)
<1>1. e # NULL /\ b \in BgIds
  BY BgFields DEF Running
<1>2. QED
  BY <1>1 DEF Running, Replaced

\* BGFreeSlotQueue `queue` with b, which it did not have.
OneMore(queue, r, b) ==
    /\ r \in Seq(BgIds) /\ \A k, l \in DOMAIN r : k # l => r[k] # r[l]
    /\ \A k \in DOMAIN r : r[k] = b \/ \E l \in DOMAIN queue : queue[l] = r[k]

LEMMA Prepended ==
    ASSUME NEW queue \in Seq(BgIds), NEW b \in BgIds, \A k \in DOMAIN queue : queue[k] # b,
           \A k, l \in DOMAIN queue : k # l => queue[k] # queue[l]
    PROVE  OneMore(queue, <<b>> \o queue, b)
<1>1. PICK r : r = <<b>> \o queue
  BY Zenon
<1>2. PICK n \in Nat : n = Len(queue) /\ DOMAIN queue = 1..n
  OBVIOUS
<1>3. /\ r \in Seq(BgIds) /\ DOMAIN r = 1 .. n + 1 /\ r[1] = b
      /\ \A k \in 2 .. n + 1 : r[k] = queue[k - 1] /\ k - 1 \in DOMAIN queue
  BY <1>1, <1>2
<1>4. \A k \in DOMAIN r : k = 1 \/ k \in 2 .. n + 1
  BY <1>3
<1>5. \A k \in DOMAIN r : r[k] = b \/ \E l \in DOMAIN queue : queue[l] = r[k]
  BY <1>3, <1>4
<1>6. ASSUME NEW k \in DOMAIN r, NEW l \in DOMAIN r, k # l PROVE r[k] # r[l]
  <2>1. CASE k = 1
    <3>1. r[k] = b /\ l \in 2 .. n + 1
      BY <1>3, <1>4, <1>6, <2>1, Zenon
    <3>2. QED
      BY <1>3, <3>1
  <2>2. CASE l = 1
    <3>1. r[l] = b /\ k \in 2 .. n + 1
      BY <1>3, <1>4, <1>6, <2>2, Zenon
    <3>2. QED
      BY <1>3, <3>1, Zenon
  <2>3. CASE k \in 2 .. n + 1 /\ l \in 2 .. n + 1
    <3>1. k - 1 # l - 1
      BY <1>6, <2>3
    <3>2. QED
      BY <1>3, <2>3, <3>1
  <2>4. QED
    BY <1>4, <2>1, <2>2, <2>3, Zenon
<1>7. OneMore(queue, r, b)
  BY <1>3, <1>5, <1>6 DEF OneMore
<1>8. QED
  BY <1>1, <1>7

-----------------------------------------------------------------------------
(* Inviting: what the update of the queue keeps at each of its steps *)

Bgs == [BgIds -> Battlegrounds \cup {NULL}]

Slots == [Players -> BgIds \cup {0, NULL}]

\* The players of each group stay those of the queue.
SameMembers(groups) ==
    /\ DOMAIN groups = DOMAIN queuedGroups
    /\ \A i \in DOMAIN groups : groups[i].Players = queuedGroups[i].Players

\* An event of this update is for somebody who is invited.
Fresh(groups, queue) ==
    \A k \in DOMAIN queue, i \in DOMAIN groups :
        (queue[k].removeTime = RemoveInviteTime /\ queue[k].player \in groups[i].Players) =>
            groups[i].IsInvitedToBGInstanceGUID # 0

Keeps(groups, in, free, slot, queue, running) ==
    /\ groups \in Seq(Groups) /\ in \in Bgs /\ free \in Seq(BgIds) /\ slot \in Slots
    /\ queue \in Seq(Events) /\ Running(in) = running /\ SameMembers(groups)
    /\ Disjoint(groups) /\ Waiters(groups, in, slot) /\ Others(groups, in, slot)
    /\ Counts(groups, in) /\ FreeSlots(in, free) /\ LastEvents(groups, queue)
    /\ Fresh(groups, queue)

\* One event for each player.
EventsFor(members, r) ==
    /\ r \in Seq(Events)
    /\ \A k \in DOMAIN r : r[k].player \in members /\ r[k].removeTime = RemoveInviteTime
    /\ \A k, l \in DOMAIN r : r[k].player = r[l].player => k = l

LEMMA RemoveEventsIs ==
    ASSUME NEW members \in SUBSET Players, NEW b \in BgIds, RemoveInviteTime \in Nat
    PROVE  EventsFor(members, RemoveEvents(members, b))
<1>1. PICK time \in Nat : time = RemoveInviteTime
  OBVIOUS
<1>2. IsFiniteSet(members)
  BY BattlegroundAssumption, FS_Subset
<1>3. PICK n \in Nat : n = Cardinality(members) /\ ExistsBijection(1..n, members)
  BY <1>2, FS_CardinalityType
<1>4. PICK order : order = SomeOrder(members)
  OBVIOUS
<1>5. order \in Bijection(1..n, members)
  BY <1>3, <1>4 DEF SomeOrder, ExistsBijection
<1>6. order \in [1..n -> members] /\ \A k, l \in 1..n : order[k] = order[l] => k = l
  BY <1>5 DEF Bijection, Injection, IsInjective
<1>7. PICK r : r = RemoveEvents(members, b)
  OBVIOUS
<1>8. r = [k \in 1..n |-> [player |-> order[k], bg |-> b, removeTime |-> time]]
  BY <1>1, <1>4, <1>6, <1>7, Zenon DEF RemoveEvents
<1>9. \A k \in 1..n : r[k] \in Events /\ r[k].player = order[k] /\ r[k].removeTime = time
  BY <1>6, <1>8 DEF Events
<1>10. r \in Seq(Events) /\ DOMAIN r = 1..n
  BY <1>8, <1>9
<1>11. EventsFor(members, r)
  BY <1>1, <1>6, <1>9, <1>10 DEF EventsFor
<1>12. QED
  BY <1>7, <1>11, Zenon

\* A group that is invited, with all its players.
InvitedGroup(g, i, b) ==
    [Players |-> g[i].Players, Team |-> g[i].Team, IsInvitedToBGInstanceGUID |-> b,
     RemoveInviteTime |-> RemoveInviteTime]

\* Only the players P of group i have something new.
NewlyInvited(g, h, i, b, P, team) ==
    /\ h \in Seq(Groups) /\ Disjoint(h) /\ SameMembers(h) /\ DOMAIN h = DOMAIN g
    /\ \A j \in DOMAIN g : h[j].Players = g[j].Players
    /\ \A j \in DOMAIN g : j # i => h[j] = g[j]
    /\ h[i].IsInvitedToBGInstanceGUID = b
    /\ \A p \in P : \A c, t, time :
          In(h, p, c, t, time) <=> c = b /\ t = team /\ time = RemoveInviteTime
    /\ \A p, c, t, time : p \notin P => (In(h, p, c, t, time) <=> In(g, p, c, t, time))

LEMMA InvitedGroupsAre ==
    ASSUME NEW g \in Seq(Groups), NEW i \in DOMAIN g, NEW b \in BgIds, Disjoint(g), SameMembers(g),
           RemoveInviteTime \in Nat,
           NEW P, P = g[i].Players, NEW team, team = g[i].Team
    PROVE  NewlyInvited(g, [g EXCEPT ![i] = InvitedGroup(g, i, b)], i, b, P, team)
<1>11. PICK h : h = [g EXCEPT ![i] = InvitedGroup(g, i, b)]
  BY Zenon
<1>1. PICK e : e = InvitedGroup(g, i, b)
  OBVIOUS
<1>2. g[i] \in Groups
  OBVIOUS
<1>3. /\ e \in Groups /\ e.Players = g[i].Players /\ e.Team = g[i].Team
      /\ e.IsInvitedToBGInstanceGUID = b /\ e.RemoveInviteTime = RemoveInviteTime
  BY <1>1, <1>2, GroupFields DEF InvitedGroup, Groups
<1>4. /\ h \in Seq(Groups) /\ DOMAIN h = DOMAIN g /\ h[i] = e
      /\ \A j \in DOMAIN g : j # i => h[j] = g[j]
  <2>1. h = [g EXCEPT ![i] = e]
    BY <1>1, <1>11
  <2>2. QED
    BY <1>3, <2>1
<1>5. \A j \in DOMAIN g : h[j].Players = g[j].Players
  BY <1>3, <1>4
<1>6. Disjoint(h) /\ SameMembers(h)
  BY <1>4, <1>5, Zenon DEF Disjoint, SameMembers
<1>7. ASSUME NEW p \in P, NEW c, NEW t, NEW time
      PROVE  In(h, p, c, t, time) <=> c = b /\ t = team /\ time = RemoveInviteTime
  <2>1. \A j \in DOMAIN g : p \in g[j].Players => j = i
    BY DEF Disjoint
  <2>2. QED
    BY <1>3, <1>4, <1>5, <2>1, Zenon DEF In
<1>8. ASSUME NEW p, p \notin P, NEW c, NEW t, NEW time
      PROVE  In(h, p, c, t, time) <=> In(g, p, c, t, time)
  <2>1. \A j \in DOMAIN g : p \in g[j].Players => h[j] = g[j]
    BY <1>4, <1>8, Zenon
  <2>2. \A j \in DOMAIN h : p \in h[j].Players => h[j] = g[j] /\ j \in DOMAIN g
    BY <1>4, <1>5, <1>8, Zenon
  <2>3. QED
    BY <1>4, <1>5, <2>1, <2>2, Zenon DEF In
<1>9. h[i].IsInvitedToBGInstanceGUID = b
  BY <1>3, <1>4, Zenon
<1>10. NewlyInvited(g, h, i, b, P, team)
  BY <1>4, <1>5, <1>6, <1>7, <1>8, <1>9, Zenon DEF NewlyInvited
<1>12. QED
  BY <1>10, <1>11

\* InviteGroupToBG, for a group that is not invited yet.
Invites(g, in, slot, queue, i, b, h, new, slots, events2) ==
    /\ h = [g EXCEPT ![i] = InvitedGroup(g, i, b)]
    /\ new = [in EXCEPT ![b] = IncreaseInvitedCount(in[b], g[i].Team, Cardinality(g[i].Players))]
    /\ slots = [p \in Players |-> IF p \in g[i].Players /\ slot[p] # NULL THEN b ELSE slot[p]]
    /\ events2 = queue \o RemoveEvents(g[i].Players, b)

\* A list s that is q followed by r.
Joins(q, r, s) ==
    \A k \in DOMAIN s :
        \/ k \in DOMAIN q /\ s[k] = q[k]
        \/ k - Len(q) \in DOMAIN r /\ s[k] = r[k - Len(q)] /\ k > Len(q) /\ k \in Nat

LEMMA Concatenation ==
    ASSUME NEW S, NEW q \in Seq(S), NEW r \in Seq(S)
    PROVE  q \o r \in Seq(S) /\ Joins(q, r, q \o r)
<1>1. PICK m \in Nat, n \in Nat : m = Len(q) /\ n = Len(r) /\ DOMAIN q = 1..m /\ DOMAIN r = 1..n
  OBVIOUS
<1>2. PICK s : s = q \o r
  BY Zenon
<1>3. /\ s \in Seq(S) /\ DOMAIN s = 1 .. m + n
      /\ \A k \in 1 .. m + n : s[k] = IF k <= m THEN q[k] ELSE r[k - m]
  BY <1>1, <1>2
<1>4. ASSUME NEW k \in 1 .. m + n
      PROVE  k \in 1..m \/ (k - m \in 1..n /\ k > m /\ k \in Nat)
  BY <1>1
<1>5. Joins(q, r, s)
  <2>1. ASSUME NEW k \in 1 .. m + n
        PROVE  \/ k \in 1..m /\ s[k] = q[k]
               \/ k - m \in 1..n /\ s[k] = r[k - m] /\ k > m /\ k \in Nat
    BY <1>3, <1>4
  <2> QED
    BY <1>1, <1>3, <2>1, Zenon DEF Joins
<1>6. QED
  BY <1>2, <1>3, <1>5, Zenon

\* What changes when group i, of players P, is invited to b...
InvitedTo(g, in, slot, R, i, b, h, new, slots, P, team) ==
    /\ NewlyInvited(g, h, i, b, P, team) /\ P \in SUBSET Players /\ team \in Teams
    /\ \A p \in P : p \in online /\ bgInstanceID[p] = 0
    /\ slots \in Slots /\ (\A p \in P : slots[p] = b) /\ \A p \in Players \ P : slots[p] = slot[p]
    /\ \A p \in P, c \in R : \A t : ~CountedAt(g, in, p, c, t) /\ p \notin DOMAIN in[c].m_Players
    /\ new \in Bgs /\ Running(new) = R
    /\ \A c \in R : /\ new[c].m_Players = in[c].m_Players
                    /\ new[c].m_InBGFreeSlotQueue = in[c].m_InBGFreeSlotQueue
    /\ new[b].invited[team] = Cardinality(Counted(g, in, b, team) \cup P)
    /\ \A c \in R, t \in Teams : ~(c = b /\ t = team) => new[c].invited[t] = in[c].invited[t]

LEMMA InvitedToIs ==
    ASSUME IInv, NEW g, NEW in, NEW free, NEW slot, NEW queue, NEW R,
           Keeps(g, in, free, slot, queue, R), NEW i \in DOMAIN g,
           g[i].IsInvitedToBGInstanceGUID = 0, NEW b \in R, RemoveInviteTime \in Nat,
           NEW h, NEW new, NEW slots, NEW events2,
           Invites(g, in, slot, queue, i, b, h, new, slots, events2)
    PROVE  InvitedTo(g, in, slot, R, i, b, h, new, slots, g[i].Players, g[i].Team)
<1>1. /\ g \in Seq(Groups) /\ in \in Bgs /\ free \in Seq(BgIds) /\ slot \in Slots
      /\ queue \in Seq(Events) /\ Running(in) = R /\ SameMembers(g)
      /\ Disjoint(g) /\ Waiters(g, in, slot) /\ Others(g, in, slot)
      /\ Counts(g, in) /\ FreeSlots(in, free) /\ LastEvents(g, queue) /\ Fresh(g, queue)
  BY DEF Keeps
<1>2. PICK P, team : P = g[i].Players /\ team = g[i].Team
  BY Zenon
<1>3. P \in SUBSET Players /\ team \in Teams
  BY <1>1, <1>2, GroupFields
<1>4. /\ b \in BgIds /\ b # 0 /\ b \in Running(in) /\ in[b] \in Battlegrounds
      /\ \A c \in R : c \in BgIds /\ c # 0
  BY <1>1, BattlegroundAssumption, Zenon DEF Running, Bgs
<1>5. NewlyInvited(g, h, i, b, P, team)
  <2>1. g \in Seq(Groups) /\ Disjoint(g) /\ SameMembers(g) /\ b \in BgIds
    BY <1>1, <1>4, Zenon
  <2>2. h = [g EXCEPT ![i] = InvitedGroup(g, i, b)]
    BY DEF Invites
  <2>3. NewlyInvited(g, [g EXCEPT ![i] = InvitedGroup(g, i, b)], i, b, P, team)
    BY <1>2, <2>1, InvitedGroupsAre, Zenon
  <2>4. QED
    BY <2>2, <2>3, Zenon
<1>6. ASSUME NEW p \in P PROVE p \in Players /\ p \in online /\ bgInstanceID[p] = 0 /\ slot[p] = 0
  <2>1. In(g, p, 0, team, g[i].RemoveInviteTime)
    BY <1>2, Zenon DEF In
  <2>2. QED
    BY <1>1, <1>3, <2>1, Zenon DEF Waiters
<1>7. /\ slots \in Slots /\ \A p \in P : slots[p] = b
      /\ \A p \in Players \ P : slots[p] = slot[p]
  <2>1. slots = [p \in Players |-> IF p \in P /\ slot[p] # NULL THEN b ELSE slot[p]]
    BY <1>2, Zenon DEF Invites
  <2>2. QED
    BY <1>1, <1>4, <1>6, <2>1, BattlegroundAssumption, Zenon DEF Slots
<1>8. ASSUME NEW p \in P, NEW c \in R, NEW t
      PROVE  ~CountedAt(g, in, p, c, t) /\ p \notin DOMAIN in[c].m_Players
  <2>1. \A time : ~In(g, p, c, t, time)
    BY <1>1, <1>4, <1>6, Zenon DEF Waiters
  <2>2. p \notin DOMAIN in[c].m_Players
    BY <1>1, <1>4, <1>6, Zenon DEF Others
  <2>3. QED
    BY <1>4, <1>6, <2>1, <2>2, Zenon DEF CountedAt
<1>9. PICK C, n : C = Counted(g, in, b, team) /\ n = Cardinality(P)
  BY Zenon
<1>17. /\ n \in Nat /\ Cardinality(C) \in Nat /\ in[b].invited[team] = Cardinality(C)
       /\ Cardinality(C \cup P) = Cardinality(C) + n
       /\ Cardinality(C) + n <= Cardinality(Players)
  <2>1. IsFiniteSet(C) /\ C \subseteq Players /\ Cardinality(C) \in Nat
    BY <1>9, CountedIsFinite, Zenon
  <2>2. IsFiniteSet(P) /\ n \in Nat
    BY <1>3, <1>9, BattlegroundAssumption, FS_Subset, FS_CardinalityType, Zenon
  <2>3. C \cap P = {}
    BY <1>8, <1>9, Zenon DEF Counted
  <2>4. Cardinality(C \cap P) = 0
    BY <2>3, FS_EmptySet, Zenon
  <2>5. Cardinality(C \cup P) = Cardinality(C) + Cardinality(P) - Cardinality(C \cap P)
    BY <2>1, <2>2, FS_Union, Zenon
  <2>6. Cardinality(C \cup P) = Cardinality(C) + n
    BY <1>9, <2>1, <2>2, <2>4, <2>5
  <2>7. Cardinality(C \cup P) <= Cardinality(Players)
    BY <1>3, <2>1, BattlegroundAssumption, FS_Subset, Zenon
  <2>8. in[b].invited[team] = Cardinality(C)
    BY <1>1, <1>3, <1>4, <1>9, Zenon DEF Counts
  <2>9. QED
    BY <2>1, <2>2, <2>6, <2>7, <2>8, Zenon
<1>10. PICK e : e = IncreaseInvitedCount(in[b], team, n)
  BY Zenon
<1>11. Recounted(in[b], e, team, in[b].invited[team] + n)
  BY <1>3, <1>4, <1>10, <1>17, Increased, Zenon
<1>12. e \in Battlegrounds /\ in \in [BgIds -> Battlegrounds \cup {NULL}]
  BY <1>1, <1>11 DEF Recounted, Bgs
<1>13. Replaced(in, [in EXCEPT ![b] = e], b, e)
  BY <1>4, <1>12, BgReplaced, Zenon
<1>14. new = [in EXCEPT ![b] = e]
  BY <1>2, <1>9, <1>10, Zenon DEF Invites
<1>15. /\ new \in Bgs /\ Running(new) = R /\ new[b] = e /\ \A c \in R : c # b => new[c] = in[c]
  BY <1>1, <1>13, <1>14, Zenon DEF Replaced, Bgs
<1>16. /\ \A c \in R : /\ new[c].m_Players = in[c].m_Players
                       /\ new[c].m_InBGFreeSlotQueue = in[c].m_InBGFreeSlotQueue
       /\ new[b].invited[team] = Cardinality(C) + n
       /\ \A c \in R, t \in Teams : ~(c = b /\ t = team) => new[c].invited[t] = in[c].invited[t]
  <2>1. /\ e.m_Players = in[b].m_Players /\ e.m_InBGFreeSlotQueue = in[b].m_InBGFreeSlotQueue
        /\ e.invited[team] = Cardinality(C) + n
        /\ \A t \in Teams \ {team} : e.invited[t] = in[b].invited[t]
    BY <1>11, <1>17, Zenon DEF Recounted
  <2>2. QED
    BY <1>15, <2>1, Zenon
<1>18. new[b].invited[team] = Cardinality(C \cup P)
  BY <1>16, <1>17, Zenon
<1>19. QED
  BY <1>2, <1>3, <1>5, <1>6, <1>7, <1>8, <1>9, <1>15, <1>16, <1>18, ZenonT(30) DEF InvitedTo

\* ...for the players and the battlegrounds...
LEMMA InvitedAreCounted ==
    ASSUME IInv, NEW g, NEW in, NEW free, NEW slot, NEW queue, NEW R,
           Keeps(g, in, free, slot, queue, R), NEW i \in DOMAIN g, NEW b \in R, NEW h, NEW new,
           NEW slots, NEW P, NEW team, InvitedTo(g, in, slot, R, i, b, h, new, slots, P, team)
    PROVE  Waiters(h, new, slots) /\ Others(h, new, slots) /\ Counts(h, new) /\ FreeSlots(new, free)
<1>1. /\ Running(in) = R /\ Waiters(g, in, slot) /\ Others(g, in, slot)
      /\ Counts(g, in) /\ FreeSlots(in, free)
  BY Zenon DEF Keeps
<1>2. b \in BgIds /\ \A c \in R : c # 0
  BY <1>1, BattlegroundAssumption, Zenon DEF Running
<1>3. /\ \A p \in P : \A c, t, time :
            In(h, p, c, t, time) <=> c = b /\ t = team /\ time = RemoveInviteTime
      /\ \A p, c, t, time : p \notin P => (In(h, p, c, t, time) <=> In(g, p, c, t, time))
  BY DEF InvitedTo, NewlyInvited
<1>4. \A p \in P : In(h, p, b, team, RemoveInviteTime)
  BY <1>3, Zenon
<1>5. /\ P \in SUBSET Players /\ team \in Teams
      /\ \A p \in P : p \in online /\ bgInstanceID[p] = 0
  BY Zenon DEF InvitedTo
<1>6. (\A p \in P : slots[p] = b) /\ \A p \in Players \ P : slots[p] = slot[p]
  BY Zenon DEF InvitedTo
<1>7. \A p \in P, c \in R : \A t : ~CountedAt(g, in, p, c, t) /\ p \notin DOMAIN in[c].m_Players
  BY Zenon DEF InvitedTo
<1>8. /\ Running(new) = R
      /\ \A c \in R : /\ new[c].m_Players = in[c].m_Players
                      /\ new[c].m_InBGFreeSlotQueue = in[c].m_InBGFreeSlotQueue
  BY Zenon DEF InvitedTo
<1>9. /\ new[b].invited[team] = Cardinality(Counted(g, in, b, team) \cup P)
      /\ \A c \in R, t \in Teams : ~(c = b /\ t = team) => new[c].invited[t] = in[c].invited[t]
  BY Zenon DEF InvitedTo
<1>10. Waiters(h, new, slots)
  <2> SUFFICES ASSUME NEW p, NEW c, NEW t, NEW time, In(h, p, c, t, time)
               PROVE  /\ p \in online /\ bgInstanceID[p] = 0 /\ slots[p] = c
                      /\ c \in Running(new) \cup {0}
    BY Zenon DEF Waiters
  <2>1. CASE p \in P
    BY <1>3, <1>5, <1>6, <1>8, <2>1
  <2>2. CASE p \notin P
    <3>1. In(g, p, c, t, time)
      BY <1>3, <2>2, Zenon
    <3>2. p \in online /\ bgInstanceID[p] = 0 /\ slot[p] = c /\ c \in R \cup {0}
      BY <1>1, <3>1, Zenon DEF Waiters
    <3>3. p \in Players
      BY <3>2, Zenon DEF IInv, PlayersType
    <3>4. QED
      BY <1>6, <1>8, <2>2, <3>2, <3>3, Zenon
  <2>3. QED
    BY <2>1, <2>2, Zenon
<1>11. Others(h, new, slots)
  <2>1. ASSUME NEW p \in Players, \A c, t, time : ~In(h, p, c, t, time)
        PROVE  slots[p] = IF p \in online /\ bgInstanceID[p] # 0 THEN bgInstanceID[p] ELSE NULL
    <3>1. p \notin P
      BY <1>4, <2>1, Zenon
    <3>2. \A c, t, time : ~In(g, p, c, t, time)
      BY <1>3, <2>1, <3>1, Zenon
    <3>3. QED
      BY <1>1, <1>6, <3>1, <3>2, Zenon DEF Others
  <2>2. /\ \A p \in online : bgInstanceID[p] # 0 =>
              /\ bgInstanceID[p] \in R
              /\ p \in travelling <=> p \notin DOMAIN in[bgInstanceID[p]].m_Players
        /\ \A c \in R : \A p \in DOMAIN in[c].m_Players : bgInstanceID[p] = c
    BY <1>1, Zenon DEF Others
  <2>3. QED
    BY <1>8, <2>1, <2>2, Zenon DEF Others
<1>12. Counts(h, new)
  <2> SUFFICES ASSUME NEW c \in R, NEW t \in Teams
               PROVE  new[c].invited[t] = Cardinality(Counted(h, new, c, t))
    BY <1>8, Zenon DEF Counts
  <2>1. \A p \in P : CountedAt(h, new, p, c, t) <=> c = b /\ t = team
    <3>1. \A p \in P : p \notin DOMAIN new[c].m_Players /\ ~(p \in travelling /\ bgInstanceID[p] = c)
      BY <1>2, <1>5, <1>7, <1>8, Zenon
    <3>2. QED
      BY <1>3, <1>4, <3>1, Zenon DEF CountedAt
  <2>2. \A p : p \notin P => (CountedAt(h, new, p, c, t) <=> CountedAt(g, in, p, c, t))
    BY <1>3, <1>8, Zenon DEF CountedAt
  <2>3. CASE c = b /\ t = team
    <3>1. Counted(h, new, c, t) = Counted(g, in, b, team) \cup P
      BY <1>5, <2>1, <2>2, <2>3, Zenon DEF Counted
    <3>2. QED
      BY <1>9, <2>3, <3>1, Zenon
  <2>4. CASE ~(c = b /\ t = team)
    <3>1. Counted(h, new, c, t) = Counted(g, in, c, t)
      BY <1>7, <2>1, <2>2, <2>4, Zenon DEF Counted
    <3>2. in[c].invited[t] = Cardinality(Counted(g, in, c, t))
      BY <1>1, Zenon DEF Counts
    <3>3. QED
      BY <1>9, <2>4, <3>1, <3>2, Zenon
  <2>5. QED
    BY <2>3, <2>4, Zenon
<1>13. FreeSlots(new, free)
  BY <1>1, <1>8, Zenon DEF FreeSlots
<1>14. QED
  BY <1>10, <1>11, <1>12, <1>13, Zenon

\* ...and for the events.
LEMMA InvitedHaveEvents ==
    ASSUME IInv, NEW g, NEW in, NEW free, NEW slot, NEW queue, NEW R,
           Keeps(g, in, free, slot, queue, R), NEW i \in DOMAIN g,
           g[i].IsInvitedToBGInstanceGUID = 0, NEW b \in R, RemoveInviteTime \in Nat, NEW h, NEW new,
           NEW slots, NEW P, NEW team, InvitedTo(g, in, slot, R, i, b, h, new, slots, P, team),
           P = g[i].Players, NEW events2, events2 = queue \o RemoveEvents(P, b)
    PROVE  events2 \in Seq(Events) /\ LastEvents(h, events2) /\ Fresh(h, events2)
<1>1. /\ g \in Seq(Groups) /\ queue \in Seq(Events) /\ Running(in) = R
      /\ Disjoint(g) /\ LastEvents(g, queue) /\ Fresh(g, queue)
  BY Zenon DEF Keeps
<1>2. b \in BgIds /\ b # 0 /\ P \in SUBSET Players
  BY <1>1, BattlegroundAssumption, Zenon DEF Running, InvitedTo
<1>3. /\ \A p \in P : \A c, t, time :
            In(h, p, c, t, time) <=> c = b /\ t = team /\ time = RemoveInviteTime
      /\ \A p, c, t, time : p \notin P => (In(h, p, c, t, time) <=> In(g, p, c, t, time))
  BY Zenon DEF InvitedTo, NewlyInvited
<1>4. /\ DOMAIN h = DOMAIN g /\ \A j \in DOMAIN g : h[j].Players = g[j].Players
      /\ \A j \in DOMAIN g : j # i => h[j] = g[j]
      /\ h[i].IsInvitedToBGInstanceGUID = b
  BY DEF InvitedTo, NewlyInvited
<1>5. PICK r : r = RemoveEvents(P, b)
  BY Zenon
<1>6. /\ r \in Seq(Events)
      /\ \A k \in DOMAIN r : r[k].player \in P /\ r[k].removeTime = RemoveInviteTime
      /\ \A k, l \in DOMAIN r : r[k].player = r[l].player => k = l
  <2>1. EventsFor(P, RemoveEvents(P, b))
    BY <1>2, RemoveEventsIs, Zenon
  <2>2. QED
    BY <1>5, <2>1, Zenon DEF EventsFor
<1>7. PICK m \in Nat : m = Len(queue) /\ DOMAIN queue = 1..m
  <2>1. queue \in Seq(Events)
    BY <1>1
  <2>2. QED
    BY <2>1
<1>8. /\ events2 \in Seq(Events)
      /\ \A k \in DOMAIN events2 :
           \/ k \in DOMAIN queue /\ events2[k] = queue[k]
           \/ k - m \in DOMAIN r /\ events2[k] = r[k - m] /\ k > m /\ k \in Nat
  <2>1. events2 = queue \o r
    BY <1>5, Zenon
  <2>2. events2 \in Seq(Events) /\ Joins(queue, r, events2)
    BY <1>1, <1>6, <2>1, Concatenation, Zenon
  <2>3. QED
    BY <1>7, <2>2, Zenon DEF Joins
<1>9. LastEvents(h, events2)
  <2> SUFFICES ASSUME NEW k \in DOMAIN events2, NEW l \in DOMAIN events2, NEW c, NEW t,
                      In(h, events2[k].player, c, t, events2[k].removeTime), c # 0,
                      events2[l].player = events2[k].player
               PROVE  l <= k
    BY Zenon DEF LastEvents
  <2>1. CASE events2[k].player \in P
    <3>1. events2[k].removeTime = RemoveInviteTime
      BY <1>3, <2>1
    <3>2. ~(k \in DOMAIN queue /\ events2[k] = queue[k])
      BY <1>1, <2>1, <3>1, Zenon DEF Fresh
    <3>3. k - m \in DOMAIN r /\ events2[k] = r[k - m] /\ k > m /\ k \in Nat
      BY <1>8, <3>2, Zenon
    <3>4. CASE l \in DOMAIN queue
      BY <1>7, <3>3, <3>4
    <3>5. CASE l - m \in DOMAIN r /\ events2[l] = r[l - m] /\ l \in Nat
      <4>1. l - m = k - m
        BY <1>6, <3>3, <3>5, Zenon
      <4>2. QED
        BY <3>3, <3>5, <4>1
    <3>6. QED
      BY <1>8, <3>4, <3>5, Zenon
  <2>2. CASE events2[k].player \notin P
    <3>1. k \in DOMAIN queue /\ events2[k] = queue[k]
      BY <1>6, <1>8, <2>2, Zenon
    <3>2. l \in DOMAIN queue /\ events2[l] = queue[l]
      BY <1>6, <1>8, <2>2, Zenon
    <3>3. In(g, events2[k].player, c, t, events2[k].removeTime)
      BY <1>3, <2>2, Zenon
    <3>4. QED
      BY <1>1, <3>1, <3>2, <3>3, Zenon DEF LastEvents
  <2>3. QED
    BY <2>1, <2>2
<1>10. Fresh(h, events2)
  <2> SUFFICES ASSUME NEW k \in DOMAIN events2, NEW j \in DOMAIN h,
                      events2[k].removeTime = RemoveInviteTime,
                      events2[k].player \in h[j].Players
               PROVE  h[j].IsInvitedToBGInstanceGUID # 0
    BY Zenon DEF Fresh
  <2>1. CASE j = i
    BY <1>2, <1>4, <2>1, Zenon
  <2>2. CASE j # i
    <3>1. events2[k].player \notin P /\ h[j] = g[j] /\ j \in DOMAIN g
      BY <1>1, <1>4, <2>2, Zenon DEF Disjoint
    <3>2. k \in DOMAIN queue /\ events2[k] = queue[k]
      BY <1>6, <1>8, <3>1, Zenon
    <3>3. QED
      BY <1>1, <3>1, <3>2, Zenon DEF Fresh
  <2>3. QED
    BY <2>1, <2>2, Zenon
<1>11. QED
  BY <1>8, <1>9, <1>10, Zenon

LEMMA InviteKeeps ==
    ASSUME IInv, NEW g, NEW in, NEW free, NEW slot, NEW queue, NEW R,
           Keeps(g, in, free, slot, queue, R), NEW i \in DOMAIN g,
           g[i].IsInvitedToBGInstanceGUID = 0, NEW b \in R, RemoveInviteTime \in Nat,
           NEW h, NEW new, NEW slots, NEW events2,
           Invites(g, in, slot, queue, i, b, h, new, slots, events2)
    PROVE  Keeps(h, new, free, slots, events2, R)
<1>1. PICK P, team : P = g[i].Players /\ team = g[i].Team
  BY Zenon
<1>2. InvitedTo(g, in, slot, R, i, b, h, new, slots, P, team)
  BY <1>1, InvitedToIs, Zenon
<1>3. Waiters(h, new, slots) /\ Others(h, new, slots) /\ Counts(h, new) /\ FreeSlots(new, free)
  BY <1>2, InvitedAreCounted, Zenon
<1>4. events2 = queue \o RemoveEvents(P, b)
  BY <1>1, Zenon DEF Invites
<1>5. events2 \in Seq(Events) /\ LastEvents(h, events2) /\ Fresh(h, events2)
  BY <1>1, <1>2, <1>4, InvitedHaveEvents, Zenon
<1>6. /\ h \in Seq(Groups) /\ Disjoint(h) /\ SameMembers(h)
      /\ new \in Bgs /\ Running(new) = R /\ slots \in Slots
  BY <1>2, Zenon DEF InvitedTo, NewlyInvited
<1>7. free \in Seq(BgIds)
  BY Zenon DEF Keeps
<1>8. QED
  BY <1>3, <1>5, <1>6, <1>7, Zenon DEF Keeps

\* The selection may change the side of groups that are not invited.
Regrouped(g, h) ==
    /\ h \in Seq(Groups) /\ DOMAIN h = DOMAIN g
    /\ \A i \in DOMAIN g :
          /\ h[i].Players = g[i].Players
          /\ h[i].IsInvitedToBGInstanceGUID = g[i].IsInvitedToBGInstanceGUID
          /\ h[i].RemoveInviteTime = g[i].RemoveInviteTime
          /\ g[i].IsInvitedToBGInstanceGUID # 0 => h[i].Team = g[i].Team

LEMMA RegroupedIn ==
    ASSUME NEW g, NEW h, Regrouped(g, h), NEW p
    PROVE  /\ \A c, t, time : c # 0 => (In(h, p, c, t, time) <=> In(g, p, c, t, time))
           /\ \A c, t, time : In(h, p, c, t, time) => \E s : In(g, p, c, s, time)
           /\ \A c, t, time : In(g, p, c, t, time) => \E s : In(h, p, c, s, time)
<1>1. ASSUME NEW c, NEW t, NEW time, c # 0 PROVE In(h, p, c, t, time) <=> In(g, p, c, t, time)
  BY <1>1, Zenon DEF Regrouped, In
<1>2. ASSUME NEW c, NEW t, NEW time, In(h, p, c, t, time) PROVE \E s : In(g, p, c, s, time)
  BY <1>2 DEF Regrouped, In
<1>3. ASSUME NEW c, NEW t, NEW time, In(g, p, c, t, time) PROVE \E s : In(h, p, c, s, time)
  BY <1>3, Zenon DEF Regrouped, In
<1>4. QED
  BY <1>1, <1>2, <1>3, Zenon

LEMMA RegroupKeeps ==
    ASSUME IInv, NEW g, NEW in, NEW free, NEW slot, NEW queue, NEW R,
           Keeps(g, in, free, slot, queue, R), NEW h, Regrouped(g, h)
    PROVE  Keeps(h, in, free, slot, queue, R)
<1>1. /\ g \in Seq(Groups) /\ in \in Bgs /\ free \in Seq(BgIds) /\ slot \in Slots
      /\ queue \in Seq(Events) /\ Running(in) = R /\ SameMembers(g)
      /\ Disjoint(g) /\ Waiters(g, in, slot) /\ Others(g, in, slot)
      /\ Counts(g, in) /\ FreeSlots(in, free) /\ LastEvents(g, queue) /\ Fresh(g, queue)
  BY Zenon DEF Keeps
<1>2. /\ h \in Seq(Groups) /\ DOMAIN h = DOMAIN g
      /\ \A i \in DOMAIN g : h[i].Players = g[i].Players
      /\ \A i \in DOMAIN g : h[i].IsInvitedToBGInstanceGUID = g[i].IsInvitedToBGInstanceGUID
  BY DEF Regrouped
<1>3. Disjoint(h)
  BY <1>1, <1>2, Zenon DEF Disjoint
<1>4. SameMembers(h)
  BY <1>1, <1>2, Zenon DEF SameMembers
<1>5. Fresh(h, queue)
  BY <1>1, <1>2, Zenon DEF Fresh
<1>6. Waiters(h, in, slot)
  <2> SUFFICES ASSUME NEW p, NEW c, NEW t, NEW time, In(h, p, c, t, time)
               PROVE  /\ p \in online /\ bgInstanceID[p] = 0 /\ slot[p] = c
                      /\ c \in Running(in) \cup {0}
    BY Zenon DEF Waiters
  <2>1. PICK s : In(g, p, c, s, time)
    BY RegroupedIn
  <2>2. QED
    BY <1>1, <2>1, Zenon DEF Waiters
<1>7. Others(h, in, slot)
  <2>1. ASSUME NEW p \in Players, \A c, t, time : ~In(h, p, c, t, time)
        PROVE  slot[p] = IF p \in online /\ bgInstanceID[p] # 0 THEN bgInstanceID[p] ELSE NULL
    <3>1. \A c, t, time : ~In(g, p, c, t, time)
      BY <2>1, RegroupedIn, Zenon
    <3>2. QED
      BY <1>1, <3>1, Zenon DEF Others
  <2>2. QED
    BY <1>1, <2>1, Zenon DEF Others
<1>8. Counts(h, in)
  <2> SUFFICES ASSUME NEW c \in Running(in), NEW t \in Teams
               PROVE  in[c].invited[t] = Cardinality(Counted(h, in, c, t))
    BY Zenon DEF Counts
  <2>1. c # 0
    BY BattlegroundAssumption, Zenon DEF Running
  <2>2. \A p : CountedAt(h, in, p, c, t) <=> CountedAt(g, in, p, c, t)
    <3>1. \A p, time : In(h, p, c, t, time) <=> In(g, p, c, t, time)
      BY <2>1, RegroupedIn, Zenon
    <3>2. QED
      BY <3>1, Zenon DEF CountedAt
  <2>3. Counted(h, in, c, t) = Counted(g, in, c, t)
    BY <2>2 DEF Counted
  <2>4. QED
    BY <1>1, <2>3, Zenon DEF Counts
<1>9. LastEvents(h, queue)
  <2>1. \A p, c, t, time : c # 0 => (In(h, p, c, t, time) <=> In(g, p, c, t, time))
    BY RegroupedIn
  <2>2. QED
    BY <1>1, <2>1, Zenon DEF LastEvents
<1>10. QED
  BY <1>1, <1>2, <1>3, <1>4, <1>5, <1>6, <1>7, <1>8, <1>9, Zenon DEF Keeps

\* A new battleground, which nobody is invited to yet.
LEMMA NewKeeps ==
    ASSUME IInv, NEW g, NEW in, NEW free, NEW slot, NEW queue, NEW R,
           Keeps(g, in, free, slot, queue, R), NEW b \in BgIds \ R,
           NEW new, new = [in EXCEPT ![b] = NewBattleground], NEW frees, frees = <<b>> \o free
    PROVE  Keeps(g, new, frees, slot, queue, R \cup {b})
<1>1. /\ g \in Seq(Groups) /\ in \in Bgs /\ free \in Seq(BgIds) /\ slot \in Slots
      /\ queue \in Seq(Events) /\ Running(in) = R /\ SameMembers(g)
      /\ Disjoint(g) /\ Waiters(g, in, slot) /\ Others(g, in, slot)
      /\ Counts(g, in) /\ FreeSlots(in, free) /\ LastEvents(g, queue) /\ Fresh(g, queue)
  BY DEF Keeps
<1>2. PICK e : e = NewBattleground
  BY Zenon
<1>3. /\ e \in Battlegrounds /\ \A t \in Teams : e.invited[t] = 0
      /\ DOMAIN e.m_Players = {} /\ e.m_InBGFreeSlotQueue
  <2>1. PICK invited, sides, nobody :
          /\ invited = [t \in Teams |-> 0] /\ sides = [p \in nobody |-> NULL] /\ nobody = {}
    BY Zenon
  <2>2. invited \in [Teams -> Nat] /\ sides \in [nobody -> Teams] /\ nobody \in SUBSET Players
    BY <2>1
  <2>3. PICK none : none = <<>>
    OBVIOUS
  <2>7. none \in Seq(Players)
    BY <2>3
  <2>4. e = [status |-> "WAIT_JOIN", invited |-> invited, m_Players |-> sides,
             m_OfflineQueue |-> none, m_InBGFreeSlotQueue |-> TRUE]
    BY <1>2, <2>1, <2>3, Zenon DEF NewBattleground
  <2>5. e \in Battlegrounds
    BY <2>2, <2>4, <2>7, BgBuilt, Zenon
  <2>6. QED
    BY <2>1, <2>4, <2>5, Zenon
<1>4. /\ new \in Bgs /\ Running(new) = R \cup {b} /\ new[b] = e
      /\ \A c \in R : new[c] = in[c] /\ c # b
  <2>1. e # NULL
    BY <1>3, BgFields
  <2>2. QED
    BY <1>1, <1>2, <1>3, <2>1, Zenon DEF Bgs, Running
<1>5. Waiters(g, new, slot)
  BY <1>1, <1>4, Zenon DEF Waiters
<1>6. Others(g, new, slot)
  <2>1. \A p \in online : bgInstanceID[p] # 0 =>
           /\ bgInstanceID[p] \in Running(new)
           /\ p \in travelling <=> p \notin DOMAIN new[bgInstanceID[p]].m_Players
    BY <1>1, <1>4, Zenon DEF Others
  <2>2. \A c \in Running(new) : \A p \in DOMAIN new[c].m_Players : bgInstanceID[p] = c
    BY <1>1, <1>3, <1>4, Zenon DEF Others
  <2>3. QED
    BY <1>1, <2>1, <2>2, Zenon DEF Others
<1>7. Counts(g, new)
  <2> SUFFICES ASSUME NEW c \in R \cup {b}, NEW t \in Teams
               PROVE  new[c].invited[t] = Cardinality(Counted(g, new, c, t))
    BY <1>4, Zenon DEF Counts
  <2>1. CASE c = b
    <3>1. \A p, time : ~In(g, p, b, t, time)
      BY <1>1, BattlegroundAssumption, Zenon DEF Waiters
    <3>2. \A p \in travelling : bgInstanceID[p] # b
      BY <1>1, Zenon DEF Others, IInv, PlayersType
    <3>3. Counted(g, new, c, t) = {}
      BY <1>3, <1>4, <2>1, <3>1, <3>2, Zenon DEF Counted, CountedAt
    <3>4. QED
      BY <1>3, <1>4, <2>1, <3>3, FS_EmptySet, Zenon
  <2>2. CASE c \in R
    <3>1. Counted(g, new, c, t) = Counted(g, in, c, t)
      BY <1>4, <2>2, Zenon DEF Counted, CountedAt
    <3>2. in[c].invited[t] = Cardinality(Counted(g, in, c, t))
      BY <1>1, <2>2, Zenon DEF Counts
    <3>3. QED
      BY <1>4, <2>2, <3>1, <3>2, Zenon
  <2>3. QED
    BY <2>1, <2>2
<1>8. frees \in Seq(BgIds) /\ FreeSlots(new, frees)
  <2>1. \A k \in DOMAIN free : free[k] # b
    BY <1>1, Zenon DEF FreeSlots
  <2>2. \A k, l \in DOMAIN free : k # l => free[k] # free[l]
    BY <1>1, Zenon DEF FreeSlots
  <2>3. b \in BgIds /\ free \in Seq(BgIds)
    BY <1>1, Zenon
  <2>4. /\ frees \in Seq(BgIds) /\ \A k, l \in DOMAIN frees : k # l => frees[k] # frees[l]
        /\ \A k \in DOMAIN frees : frees[k] = b \/ \E l \in DOMAIN free : free[l] = frees[k]
    <3>1. OneMore(free, <<b>> \o free, b)
      BY <2>1, <2>2, <2>3, Prepended, Zenon
    <3>2. OneMore(free, frees, b)
      BY <3>1, Zenon
    <3>3. QED
      BY <3>2, Zenon DEF OneMore
  <2>5. \A k \in DOMAIN free : free[k] \in R /\ new[free[k]].m_InBGFreeSlotQueue
    BY <1>1, <1>4, Zenon DEF FreeSlots
  <2>6. \A k \in DOMAIN frees : frees[k] \in Running(new) /\ new[frees[k]].m_InBGFreeSlotQueue
    BY <1>3, <1>4, <2>4, <2>5, Zenon
  <2>7. QED
    BY <2>4, <2>6, Zenon DEF FreeSlots
<1>9. QED
  BY <1>1, <1>4, <1>5, <1>6, <1>7, <1>8, Zenon DEF Keeps

\* A battleground that is full wants no more players.
LEMMA FullKeeps ==
    ASSUME IInv, NEW g, NEW in, NEW free, NEW slot, NEW queue, NEW R,
           Keeps(g, in, free, slot, queue, R), NEW b \in R,
           NEW new, new = [in EXCEPT ![b].m_InBGFreeSlotQueue = FALSE],
           NEW frees, frees = EraseFirst(free, b)
    PROVE  Keeps(g, new, frees, slot, queue, R)
<1>1. /\ g \in Seq(Groups) /\ in \in Bgs /\ free \in Seq(BgIds) /\ slot \in Slots
      /\ queue \in Seq(Events) /\ Running(in) = R /\ SameMembers(g)
      /\ Disjoint(g) /\ Waiters(g, in, slot) /\ Others(g, in, slot)
      /\ Counts(g, in) /\ FreeSlots(in, free) /\ LastEvents(g, queue) /\ Fresh(g, queue)
  BY DEF Keeps
<1>2. PICK e : e = [in[b] EXCEPT !.m_InBGFreeSlotQueue = FALSE]
  BY Zenon
<1>3. b \in BgIds /\ in[b] \in Battlegrounds
  BY <1>1 DEF Running, Bgs
<1>4. e \in Battlegrounds /\ e.invited = in[b].invited /\ e.m_Players = in[b].m_Players
  BY <1>2, <1>3, Zenon DEF Battlegrounds
<1>5. e # NULL
  BY <1>4, BgFields, Zenon
<1>6. /\ new \in Bgs /\ Running(new) = R /\ new[b] = e
      /\ \A c \in R : c # b => new[c] = in[c]
  BY <1>1, <1>2, <1>3, <1>4, <1>5, Zenon DEF Bgs, Running
<1>7. \A c \in R : new[c].invited = in[c].invited /\ new[c].m_Players = in[c].m_Players
  BY <1>4, <1>6, Zenon
<1>8. Waiters(g, new, slot)
  BY <1>1, <1>6, Zenon DEF Waiters
<1>9. Others(g, new, slot)
  BY <1>1, <1>6, <1>7, Zenon DEF Others
<1>10. Counts(g, new)
  <2>1. \A c \in R, t \in Teams : Counted(g, new, c, t) = Counted(g, in, c, t)
    BY <1>7 DEF Counted, CountedAt
  <2>2. \A c \in R, t \in Teams : in[c].invited[t] = Cardinality(Counted(g, in, c, t))
    BY <1>1, Zenon DEF Counts
  <2>3. \A c \in R, t \in Teams : new[c].invited[t] = Cardinality(Counted(g, new, c, t))
    <3> SUFFICES ASSUME NEW c \in R, NEW t \in Teams
                 PROVE  new[c].invited[t] = Cardinality(Counted(g, new, c, t))
      BY Zenon
    <3>1. Counted(g, new, c, t) = Counted(g, in, c, t)
      BY <2>1, Zenon
    <3>2. QED
      BY <1>7, <2>2, <3>1, Zenon
  <2>4. QED
    BY <1>6, <2>3, Zenon DEF Counts
<1>11. frees \in Seq(BgIds) /\ FreeSlots(new, frees)
  <2>1. \A k, l \in DOMAIN free : k # l => free[k] # free[l]
    BY <1>1, Zenon DEF FreeSlots
  <2>2. /\ frees \in Seq(BgIds) /\ \A k, l \in DOMAIN frees : k # l => frees[k] # frees[l]
        /\ \A k \in DOMAIN frees :
              frees[k] # b /\ \E l \in DOMAIN free : free[l] = frees[k]
    BY <1>1, <2>1, EraseFirstType, Erased
  <2>3. \A k \in DOMAIN frees :
           frees[k] # b /\ frees[k] \in Running(in) /\ in[frees[k]].m_InBGFreeSlotQueue
    BY <1>1, <2>2, Zenon DEF FreeSlots
  <2>4. QED
    BY <1>1, <1>6, <2>2, <2>3, Zenon DEF FreeSlots
<1>12. QED
  BY <1>1, <1>6, <1>8, <1>9, <1>10, <1>11 DEF Keeps

\* The numbers in a sequence do not use up a larger interval.
LEMMA Unused ==
    ASSUME NEW N \in Nat, NEW f \in [1..N -> Nat]
    PROVE  \E time \in 1..(N + 1) : \A k \in 1..N : f[k] # time
<1> SUFFICES ASSUME \A time \in 1..(N + 1) : \E k \in 1..N : f[k] = time PROVE FALSE
  OBVIOUS
<1>1. PICK S : S = {k \in 1..N : f[k] \in 1..(N + 1)}
  BY Zenon
<1>2. PICK g : g = [k \in S |-> f[k]]
  BY Zenon
<1>3. g \in Surjection(S, 1..(N + 1))
  BY <1>1, <1>2, Zenon DEF Surjection
<1>4. /\ IsFiniteSet(1..N) /\ Cardinality(1..N) = N
      /\ IsFiniteSet(1..(N + 1)) /\ Cardinality(1..(N + 1)) = N + 1
  BY FS_Interval
<1>5. IsFiniteSet(S) /\ Cardinality(S) <= N /\ Cardinality(S) \in Nat
  <2>1. S \in SUBSET (1..N)
    BY <1>1, Zenon
  <2>2. IsFiniteSet(S) /\ Cardinality(S) <= Cardinality(1..N)
    BY <1>4, <2>1, FS_Subset, Zenon
  <2>3. QED
    BY <1>4, <2>2, FS_CardinalityType, Zenon
<1>6. Cardinality(1..(N + 1)) <= Cardinality(S)
  BY <1>3, <1>5, FS_Surjection, Zenon
<1>7. QED
  BY <1>4, <1>5, <1>6

LEMMA RemoveInviteTimeIs ==
    ASSUME IInv
    PROVE  RemoveInviteTime \in Nat /\ \A k \in DOMAIN events : events[k].removeTime # RemoveInviteTime
<1> DEFINE used == {events[k].removeTime : k \in DOMAIN events} \cup
                   {queuedGroups[i].RemoveInviteTime : i \in DOMAIN queuedGroups}
<1>1. /\ events \in Seq(Events) /\ queuedGroups \in Seq(Groups)
      /\ \A k \in DOMAIN events : events[k].removeTime \in Nat
      /\ \A i \in DOMAIN queuedGroups : queuedGroups[i].RemoveInviteTime \in Nat
  <2>1. events \in Seq(Events) /\ queuedGroups \in Seq(Groups)
    BY Zenon DEF IInv, QueueType
  <2>2. \A k \in DOMAIN events : events[k].removeTime \in Nat
    <3>1. \A k \in DOMAIN events : events[k] \in Events
      BY <2>1
    <3>2. \A e \in Events : e.removeTime \in Nat
      BY DEF Events
    <3>3. QED
      BY <3>1, <3>2, Zenon
  <2>3. \A i \in DOMAIN queuedGroups : queuedGroups[i].RemoveInviteTime \in Nat
    <3>1. \A i \in DOMAIN queuedGroups : queuedGroups[i] \in Groups
      BY <2>1
    <3>2. \A g \in Groups : g.RemoveInviteTime \in Nat
      BY GroupFields
    <3>3. QED
      BY <3>1, <3>2, Zenon
  <2>4. QED
    BY <2>1, <2>2, <2>3, Zenon
<1>2. PICK E, Q, N : E = Len(events) /\ Q = Len(queuedGroups) /\ N = E + Q
  BY Zenon
<1>3. E \in Nat /\ Q \in Nat /\ N \in Nat /\ DOMAIN events = 1..E /\ DOMAIN queuedGroups = 1..Q
  BY <1>1, <1>2
<1>4. PICK f : f = [k \in 1..N |-> IF k <= E THEN events[k].removeTime
                                   ELSE queuedGroups[k - E].RemoveInviteTime]
  BY Zenon
<1>5. f \in [1..N -> Nat]
  <2> SUFFICES ASSUME NEW k \in 1..N PROVE f[k] \in Nat
    BY <1>4, Zenon
  <2>1. CASE k <= E
    BY <1>1, <1>3, <1>4, <2>1
  <2>2. CASE ~(k <= E)
    <3>1. k - E \in 1..Q
      BY <1>2, <1>3, <2>2
    <3>2. QED
      BY <1>1, <1>3, <1>4, <2>2, <3>1, Zenon
  <2>3. QED
    BY <2>1, <2>2, Zenon
<1>6. \A time \in used : \E k \in 1..N : f[k] = time
  <2>1. ASSUME NEW k \in 1..E PROVE k \in 1..N /\ f[k] = events[k].removeTime
    BY <1>2, <1>3, <1>4
  <2>2. ASSUME NEW i \in 1..Q PROVE i + E \in 1..N /\ f[i + E] = queuedGroups[i].RemoveInviteTime
    <3>1. i + E \in 1..N /\ ~(i + E <= E) /\ (i + E) - E = i
      BY <1>2, <1>3
    <3>2. QED
      BY <1>4, <3>1, Zenon
  <2>3. QED
    BY <1>3, <2>1, <2>2, Zenon
<1>7. PICK S : S = {time \in 1..(N + 1) : time \notin used}
  BY Zenon
<1>8. S # {} /\ S \in SUBSET Nat
  <2>1. PICK time \in 1..(N + 1) : \A k \in 1..N : f[k] # time
    BY <1>3, <1>5, Unused, Zenon
  <2>2. time \notin used
    <3> HIDE DEF used
    <3> QED
      BY <1>6, <2>1, Zenon
  <2>3. 1..(N + 1) \subseteq Nat
    BY <1>3
  <2>4. QED
    <3> HIDE DEF used
    <3> QED
      BY <1>7, <2>1, <2>2, <2>3, Zenon
<1>9. PICK m \in S : \A n \in S : m <= n
  BY <1>8, Least, Zenon
<1>10. \A earlier \in 1..(m - 1) : earlier \in used
  BY <1>3, <1>7, <1>9
<1>11. m \in 1..(Len(events) + Len(queuedGroups) + 1) /\ m \notin used
  BY <1>2, <1>7, Zenon
<1>12. RemoveInviteTime \in 1..(Len(events) + Len(queuedGroups) + 1) /\ RemoveInviteTime \notin used
  <2> HIDE DEF used
  <2>1. \E time \in 1 .. Len(events) + Len(queuedGroups) + 1 :
           time \notin used /\ \A earlier \in 1 .. time - 1 : earlier \in used
    BY <1>10, <1>11, Zenon
  <2>2. RemoveInviteTime = CHOOSE time \in 1 .. Len(events) + Len(queuedGroups) + 1 :
           time \notin used /\ \A earlier \in 1 .. time - 1 : earlier \in used
    BY Zenon DEF RemoveInviteTime, used
  <2>3. QED
    BY <2>1, <2>2, Zenon
<1>13. QED
  BY <1>2, <1>3, <1>12

\* The state in which the update begins.
LEMMA BeginKeeps ==
    ASSUME IInv
    PROVE  Keeps(queuedGroups, bgs, freeSlotQueue, queueSlot, events, Running(bgs))
<1>1. SameMembers(queuedGroups)
  BY Zenon DEF SameMembers
<1>2. Fresh(queuedGroups, events)
  BY RemoveInviteTimeIs, Zenon DEF Fresh
<1>3. /\ queuedGroups \in Seq(Groups) /\ bgs \in Bgs /\ freeSlotQueue \in Seq(BgIds)
      /\ queueSlot \in Slots /\ events \in Seq(Events)
  BY Zenon DEF IInv, QueueType, PlayersType, Bgs, Slots
<1>4. QED
  BY <1>1, <1>2, <1>3, Zenon DEF IInv, Keeps

-----------------------------------------------------------------------------
(* Selecting: nothing but the sides of groups that wait changes, and only    *)
(* groups of the queue are selected                                          *)

Pools(places) == [SelectedGroups : Seq(places), PlayerCount : Nat]

Selections(g) ==
    {sel \in [groups : Seq(Groups), pool : [Teams -> Pools(DOMAIN g)], free : [Teams -> Int]] :
        Regrouped(g, sel.groups)}

LEMMA SelectionFields ==
    ASSUME NEW g, NEW sel \in Selections(g)
    PROVE  /\ sel.groups \in Seq(Groups) /\ DOMAIN sel.groups = DOMAIN g
           /\ Regrouped(g, sel.groups)
           /\ sel.pool \in [Teams -> Pools(DOMAIN g)] /\ sel.free \in [Teams -> Int]
BY Zenon DEF Selections, Regrouped

LEMMA SizeIs ==
    ASSUME NEW g \in Seq(Groups), NEW i \in DOMAIN g
    PROVE  Size(g, i) \in 0..Cardinality(Players)
<1>1. g[i].Players \in SUBSET Players
  BY GroupFields
<1>2. /\ IsFiniteSet(Players) /\ IsFiniteSet(g[i].Players)
      /\ Cardinality(g[i].Players) <= Cardinality(Players)
  BY <1>1, BattlegroundAssumption, FS_Subset, Zenon
<1>3. Cardinality(Players) \in Nat /\ Cardinality(g[i].Players) \in Nat
  BY <1>2, FS_CardinalityType, Zenon
<1>4. QED
  BY <1>2, <1>3 DEF Size

LEMMA LargestIs ==
    ASSUME NEW g \in Seq(Groups), NEW L \in SUBSET DOMAIN g, L # {}
    PROVE  Largest(g, L) \in L
<1>1. PICK bound \in Nat : \A i \in L : Size(g, i) \in 0..bound
  <2>1. Cardinality(Players) \in Nat
    BY BattlegroundAssumption, FS_CardinalityType, Zenon
  <2>2. QED
    BY <2>1, SizeIs, Zenon
<1>2. PICK sizes : sizes = {Size(g, i) : i \in L}
  BY Zenon
<1>3. sizes \in SUBSET (0..bound) /\ sizes # {}
  BY <1>1, <1>2, Zenon
<1>4. PICK m \in sizes : \A n \in sizes : n <= m
  BY <1>3, Greatest, Zenon
<1>5. PICK T : T = {i \in L : Size(g, i) = m}
  BY Zenon
<1>6. T # {} /\ T \in SUBSET (0..Len(g)) /\ Len(g) \in Nat
  BY <1>2, <1>5
<1>7. PICK i \in T : \A j \in T : j <= i
  BY <1>6, Greatest, Zenon
<1>8. i \in L /\ \A j \in L \ {i} :
         Size(g, i) > Size(g, j) \/ (Size(g, i) = Size(g, j) /\ i > j)
  <2> SUFFICES ASSUME NEW j \in L \ {i}
               PROVE  Size(g, i) > Size(g, j) \/ (Size(g, i) = Size(g, j) /\ i > j)
    BY <1>5, Zenon
  <2>1. Size(g, i) = m /\ Size(g, j) <= m /\ m \in Nat /\ Size(g, j) \in Nat
    BY <1>1, <1>2, <1>3, <1>4, <1>5
  <2>2. Size(g, j) = m => j <= i
    BY <1>5, <1>7, Zenon
  <2>3. i \in Nat /\ j \in Nat /\ i # j
    BY <1>5
  <2>4. QED
    BY <2>1, <2>2, <2>3
<1>9. QED
  BY <1>8, Zenon DEF Largest

LEMMA LargestFirstIs ==
    ASSUME NEW g \in Seq(Groups), NEW wanted \in SUBSET DOMAIN g
    PROVE  LargestFirst(g, wanted) \in Seq(wanted)
<1> DEFINE Remaining(N) == CHOOSE left : left = [n \in 0..N |->
                         IF n = 0 THEN wanted ELSE left[n - 1] \ {Largest(g, left[n - 1])}]
<1>1. IsFiniteSet(wanted)
  <2>1. DOMAIN g = 1..Len(g) /\ Len(g) \in Nat
    OBVIOUS
  <2>2. IsFiniteSet(DOMAIN g)
    BY <2>1, FS_Interval
  <2>3. QED
    BY <2>2, FS_Subset, Zenon
<1>2. PICK N \in Nat : N = Cardinality(wanted)
  BY <1>1, FS_CardinalityType, Zenon
<1>3. PICK F : F = [n \in 1..N |-> [L \in SUBSET wanted |-> L \ {Largest(g, L)}]]
  BY Zenon
<1>4. PICK first : first = wanted
  OBVIOUS
<1>5. F \in [1..N -> [SUBSET wanted -> SUBSET wanted]] /\ first \in SUBSET wanted
  BY <1>3, <1>4
<1>6. PICK h : h \in Runs(SUBSET wanted, N, first, F)
  <2>1. PICK S : S = SUBSET wanted
    BY Zenon
  <2>2. F \in [1..N -> [S -> S]] /\ first \in S
    BY <1>5, <2>1, Zenon
  <2>3. Runs(S, N, first, F) # {}
    BY <2>2, RunExists, Zenon
  <2>4. QED
    BY <2>1, <2>3, Zenon
<1>7. /\ h \in [0..N -> SUBSET wanted] /\ h[0] = wanted
      /\ \A n \in 1..N : h[n] = F[n][h[n - 1]]
  BY <1>4, <1>6, Zenon DEF Runs
<1>8. \A n \in 1..N : h[n] = h[n - 1] \ {Largest(g, h[n - 1])}
  <2> SUFFICES ASSUME NEW n \in 1..N PROVE h[n] = h[n - 1] \ {Largest(g, h[n - 1])}
    OBVIOUS
  <2>1. n - 1 \in 0..N
    OBVIOUS
  <2>2. h[n - 1] \in SUBSET wanted
    BY <1>7, <2>1, Zenon
  <2>3. QED
    BY <1>3, <1>7, <2>2, Zenon
<1>9. h = [n \in 0..N |-> IF n = 0 THEN wanted ELSE h[n - 1] \ {Largest(g, h[n - 1])}]
  BY <1>7, <1>8
<1>10. PICK left : left = Remaining(N)
  OBVIOUS
<1>11. left = [n \in 0..N |-> IF n = 0 THEN wanted ELSE left[n - 1] \ {Largest(g, left[n - 1])}]
  BY <1>9, <1>10, Zenon
<1>12. \A n \in 0..N : left[n] \in SUBSET wanted /\ Cardinality(left[n]) = N - n
  <2> DEFINE Steps == {n \in Nat : n <= N => left[n] \in SUBSET wanted /\ Cardinality(left[n]) = N - n}
  <2>1. 0 \in Steps
    <3>1. left[0] = wanted
      BY <1>11
    <3>2. QED
      BY <1>2, <3>1
  <2>2. ASSUME NEW n \in Nat, n \in Steps PROVE n + 1 \in Steps
    <3> SUFFICES ASSUME n + 1 <= N
                 PROVE  left[n + 1] \in SUBSET wanted /\ Cardinality(left[n + 1]) = N - (n + 1)
      OBVIOUS
    <3>1. left[n] \in SUBSET wanted /\ Cardinality(left[n]) = N - n
      BY <2>2
    <3>2. left[n + 1] = left[n] \ {Largest(g, left[n])}
      <4>1. n + 1 \in 0..N /\ n + 1 # 0 /\ (n + 1) - 1 = n
        OBVIOUS
      <4>2. left[n + 1] = left[(n + 1) - 1] \ {Largest(g, left[(n + 1) - 1])}
        BY <1>11, <4>1, Zenon
      <4>3. QED
        BY <4>1, <4>2, Zenon
    <3>3. IsFiniteSet(left[n]) /\ left[n] # {} /\ left[n] \in SUBSET DOMAIN g
      <4>1. IsFiniteSet(left[n])
        BY <1>1, <3>1, FS_Subset, Zenon
      <4>2. Cardinality(left[n]) # 0
        BY <3>1
      <4>3. QED
        BY <3>1, <4>1, <4>2, FS_EmptySet, Zenon
    <3>4. Largest(g, left[n]) \in left[n]
      BY <3>3, LargestIs, Zenon
    <3>5. Cardinality(left[n] \ {Largest(g, left[n])}) = Cardinality(left[n]) - 1
      BY <3>3, <3>4, FS_RemoveElement, Zenon
    <3>6. QED
      BY <3>1, <3>2, <3>5
  <2>3. Nat \subseteq Steps
    <3> HIDE DEF Steps
    <3> QED
      BY <2>1, <2>2, Induction, Zenon
  <2>4. QED
    BY <2>3
<1>13. \A n \in 1..N : Largest(g, left[n - 1]) \in wanted
  <2> SUFFICES ASSUME NEW n \in 1..N PROVE Largest(g, left[n - 1]) \in wanted
    BY Zenon
  <2>1. n - 1 \in 0..N
    OBVIOUS
  <2>2. left[n - 1] \in SUBSET wanted /\ Cardinality(left[n - 1]) = N - (n - 1)
    BY <1>12, <2>1
  <2>3. left[n - 1] # {} /\ left[n - 1] \in SUBSET DOMAIN g
    <3>1. Cardinality(left[n - 1]) # 0
      BY <2>2
    <3>2. QED
      BY <2>2, <3>1, FS_EmptySet, Zenon
  <2>4. QED
    BY <2>2, <2>3, LargestIs, Zenon
<1>14. PICK order : order = [n \in 1..N |-> Largest(g, left[n - 1])]
  BY Zenon
<1>15. order \in Seq(wanted)
  BY <1>13, <1>14
<1>16. LargestFirst(g, wanted) = order
  BY <1>2, <1>10, <1>14 DEF LargestFirst
<1>17. QED
  BY <1>15, <1>16, Zenon

LEMMA AddGroupIs ==
    ASSUME NEW g, NEW sel \in Selections(g), NEW team \in Teams, NEW i \in DOMAIN g, NEW desired
    PROVE  AddGroup(sel, team, i, desired) \in Selections(g)
<1>1. /\ sel.groups \in Seq(Groups) /\ DOMAIN sel.groups = DOMAIN g /\ Regrouped(g, sel.groups)
      /\ sel.pool \in [Teams -> Pools(DOMAIN g)] /\ sel.free \in [Teams -> Int]
  BY SelectionFields, Zenon
<1>2. Size(sel.groups, i) \in Nat
  BY <1>1, SizeIs
<1>3. PICK x : x = [SelectedGroups |-> Append(sel.pool[team].SelectedGroups, i),
                    PlayerCount |-> sel.pool[team].PlayerCount + Size(sel.groups, i)]
  BY Zenon
<1>4. x \in Pools(DOMAIN g)
  BY <1>1, <1>2, <1>3 DEF Pools
<1>5. PICK pool : pool = [sel.pool EXCEPT ![team] = x]
  BY Zenon
<1>6. pool \in [Teams -> Pools(DOMAIN g)]
  BY <1>1, <1>4, <1>5, Zenon
<1>7. [sel EXCEPT !.pool = pool] \in Selections(g)
  BY <1>1, <1>6, Zenon DEF Selections
<1>8. AddGroup(sel, team, i, desired) \in {sel, [sel EXCEPT !.pool = pool]}
  BY <1>3, <1>5, Zenon DEF AddGroup
<1>9. QED
  BY <1>7, <1>8, Zenon

Accs(g) == [sel : Selections(g), left : Int]

LEMMA PreAddIs ==
    ASSUME NEW g, NEW acc \in Accs(g), NEW team \in Teams, NEW i \in DOMAIN g, NEW maxInTeam
    PROVE  PreAdd(acc, team, i, maxInTeam) \in Accs(g)
<1>1. acc.sel \in Selections(g) /\ acc.left \in Int
  BY Zenon DEF Accs
<1>2. AddGroup(acc.sel, team, i, maxInTeam) \in Selections(g)
  BY <1>1, AddGroupIs, Zenon
<1>3. Size(acc.sel.groups, i) \in Nat
  <2>1. acc.sel.groups \in Seq(Groups) /\ i \in DOMAIN acc.sel.groups
    BY <1>1, SelectionFields, Zenon
  <2>2. QED
    BY <2>1, SizeIs
<1>4. [sel |-> AddGroup(acc.sel, team, i, maxInTeam), left |-> acc.left - Size(acc.sel.groups, i)]
         \in Accs(g)
  BY <1>1, <1>2, <1>3 DEF Accs
<1>5. QED
  BY <1>4, Zenon DEF PreAdd

LEMMA PreAddPlayersIs ==
    ASSUME NEW g, NEW sel \in Selections(g), NEW team \in Teams, NEW wanted \in SUBSET DOMAIN g,
           NEW maxAdd \in Int, NEW maxInTeam
    PROVE  PreAddPlayers(sel, team, wanted, maxAdd, maxInTeam) \in Selections(g)
<1>1. PICK order : order = LargestFirst(sel.groups, wanted)
  BY Zenon
<1>2. order \in Seq(wanted)
  <2>1. sel.groups \in Seq(Groups) /\ wanted \in SUBSET DOMAIN sel.groups
    BY SelectionFields, Zenon
  <2>2. QED
    BY <1>1, <2>1, LargestFirstIs, Zenon
<1>3. PICK N \in Nat : N = Len(order) /\ \A n \in 1..N : order[n] \in DOMAIN g
  BY <1>2
<1>4. PICK S : S = Accs(g)
  OBVIOUS
<1>5. PICK first : first = [sel |-> sel, left |-> maxAdd]
  BY Zenon
<1>6. first \in S
  BY <1>4, <1>5 DEF Accs
<1>7. PICK F : F = [n \in 1..N |-> [acc \in S |-> PreAdd(acc, team, order[n], maxInTeam)]]
  BY Zenon
<1>8. \A n \in 1..N : \A acc \in S : PreAdd(acc, team, order[n], maxInTeam) \in S
  BY <1>3, <1>4, PreAddIs, Zenon
<1>9. F \in [1..N -> [S -> S]]
  BY <1>7, <1>8, Zenon
<1>10. Runs(S, N, first, F) # {}
  BY <1>6, <1>9, RunExists, Zenon
<1>11. PICK h : /\ h \in [0..N -> S] /\ h[0] = first /\ \A n \in 1..N : h[n] = F[n][h[n - 1]]
  BY <1>10, Zenon DEF Runs
<1>12. \A n \in 1..N : h[n] = PreAdd(h[n - 1], team, order[n], maxInTeam)
  <2> SUFFICES ASSUME NEW n \in 1..N PROVE h[n] = PreAdd(h[n - 1], team, order[n], maxInTeam)
    BY Zenon
  <2>1. n - 1 \in 0..N
    OBVIOUS
  <2>2. h[n - 1] \in S
    BY <1>11, <2>1, Zenon
  <2>3. QED
    BY <1>7, <1>11, <2>2, Zenon
<1>13. h = [n \in 0..N |-> IF n = 0 THEN first ELSE PreAdd(h[n - 1], team, order[n], maxInTeam)]
  BY <1>11, <1>12
<1>14. PICK added : added = CHOOSE f : f = [n \in 0..N |->
          IF n = 0 THEN first ELSE PreAdd(f[n - 1], team, order[n], maxInTeam)]
  BY Zenon
<1>15. added = [n \in 0..N |->
          IF n = 0 THEN first ELSE PreAdd(added[n - 1], team, order[n], maxInTeam)]
  BY <1>13, <1>14, Zenon
<1>16. added[0] = first /\ \A n \in 1..N : added[n] = PreAdd(added[n - 1], team, order[n], maxInTeam)
  BY <1>15
<1>17. \A n \in 1..N : added[n - 1] \in S => added[n] \in S
  BY <1>8, <1>16, Zenon
<1>18. \A n \in 0..N : added[n] \in S
  BY <1>6, <1>16, <1>17, StaysIn, Zenon
<1>19. added[N] \in S
  BY <1>18
<1>20. PICK all : all = added[N]
  BY Zenon
<1>21. all.sel \in Selections(g) /\ all.left \in Int
  BY <1>4, <1>19, <1>20, Zenon DEF Accs
<1>22. PreAddPlayers(sel, team, wanted, maxAdd, maxInTeam) = [all.sel EXCEPT !.free[team] = @ - all.left]
  BY <1>1, <1>3, <1>5, <1>14, <1>20 DEF PreAddPlayers
<1>23. PICK last : last = all.sel
  OBVIOUS
<1>24. [last EXCEPT !.free[team] = @ - all.left] \in Selections(g)
  <2>1. last \in Selections(g)
    BY <1>21, <1>23, Zenon
  <2>2. /\ last.groups \in Seq(Groups) /\ Regrouped(g, last.groups)
        /\ last.pool \in [Teams -> Pools(DOMAIN g)] /\ last.free \in [Teams -> Int]
    BY <2>1, SelectionFields, Zenon
  <2>3. PICK free : free = [last.free EXCEPT ![team] = @ - all.left]
    BY Zenon
  <2>4. free \in [Teams -> Int]
    BY <1>21, <2>2, <2>3
  <2>5. [last EXCEPT !.free = free] \in Selections(g)
    BY <2>1, <2>2, <2>4, Zenon DEF Selections
  <2>6. [last EXCEPT !.free[team] = @ - all.left] = [last EXCEPT !.free = free]
    BY <2>1, <2>3, Zenon DEF Selections
  <2>7. QED
    BY <2>5, <2>6, Zenon
<1>25. QED
  BY <1>22, <1>23, <1>24, Zenon

LEMMA WaitingIs ==
    ASSUME NEW g \in Seq(Groups), NEW wanted \in SUBSET DOMAIN g
    PROVE  Waiting(g, wanted) \in Nat
<1>1. \A i \in wanted : g[i].Players \in SUBSET Players
  BY GroupFields
<1>2. UNION {g[i].Players : i \in wanted} \in SUBSET Players
  BY <1>1, Zenon
<1>3. IsFiniteSet(UNION {g[i].Players : i \in wanted})
  BY <1>2, BattlegroundAssumption, FS_Subset, Zenon
<1>4. QED
  BY <1>3, FS_CardinalityType, Zenon DEF Waiting

LEMMA PreAddTeamsIs ==
    ASSUME NEW g, NEW sel \in Selections(g), NEW free \in [Teams -> Int], NEW oAlliance
    PROVE  PreAddTeams(sel, free, oAlliance) \in Selections(g)
<1>1. PICK alliance, horde : /\ alliance = Uninvited(sel.groups) \cap oAlliance
                             /\ horde = Uninvited(sel.groups) \ oAlliance
  BY Zenon
<1>2. sel.groups \in Seq(Groups) /\ DOMAIN sel.groups = DOMAIN g
  BY SelectionFields, Zenon
<1>3. /\ alliance \in SUBSET DOMAIN g /\ horde \in SUBSET DOMAIN g
      /\ alliance \in SUBSET DOMAIN sel.groups /\ horde \in SUBSET DOMAIN sel.groups
  BY <1>1, <1>2, Zenon DEF Uninvited
<1>4. Waiting(sel.groups, alliance) \in Nat /\ Waiting(sel.groups, horde) \in Nat
  BY <1>2, <1>3, WaitingIs, Zenon
<1>5. PICK smallest :
         smallest = Smaller(Smaller(free["ALLIANCE"], Waiting(sel.groups, alliance)),
                            Smaller(free["HORDE"], Waiting(sel.groups, horde)))
  BY Zenon
<1>6. smallest \in Int /\ free["ALLIANCE"] \in Int /\ free["HORDE"] \in Int
  BY <1>4, <1>5 DEF Smaller, Teams
<1>7. PICK one : one = PreAddPlayers(sel, "ALLIANCE", alliance, smallest, free["ALLIANCE"])
  OBVIOUS
<1>8. "ALLIANCE" \in Teams /\ "HORDE" \in Teams
  BY Zenon DEF Teams
<1>9. one \in Selections(g)
  BY <1>3, <1>6, <1>7, <1>8, PreAddPlayersIs, Zenon
<1>10. PreAddPlayers(one, "HORDE", horde, smallest, free["HORDE"]) \in Selections(g)
  BY <1>3, <1>6, <1>8, <1>9, PreAddPlayersIs, Zenon
<1>11. PreAddTeams(sel, free, oAlliance) = PreAddPlayers(one, "HORDE", horde, smallest, free["HORDE"])
  BY <1>1, <1>5, <1>7, Zenon DEF PreAddTeams
<1>12. QED
  BY <1>10, <1>11, Zenon

LEMMA AddToSmallerSideIs ==
    ASSUME NEW g \in Seq(Groups), NEW sel \in Selections(g), NEW i \in DOMAIN g, NEW free
    PROVE  AddToSmallerSide(sel, i, free) \in Selections(g)
<1>1. /\ sel.groups \in Seq(Groups) /\ DOMAIN sel.groups = DOMAIN g /\ Regrouped(g, sel.groups)
      /\ sel.pool \in [Teams -> Pools(DOMAIN g)] /\ sel.free \in [Teams -> Int]
  BY SelectionFields, Zenon
<1>2. PICK team : team = IF sel.free["ALLIANCE"] = sel.free["HORDE"] THEN sel.groups[i].Team
                ELSE IF sel.free["ALLIANCE"] < sel.free["HORDE"] THEN "HORDE" ELSE "ALLIANCE"
  BY Zenon
<1>3. team \in Teams
  <2>1. sel.groups[i].Team \in Teams
    BY <1>1, GroupFields
  <2>2. QED
    BY <1>2, <2>1, Zenon DEF Teams
<1>4. PICK moved : moved = [sel EXCEPT !.groups[i].Team = team]
  BY Zenon
<1>5. CASE sel.groups[i].IsInvitedToBGInstanceGUID # 0
  BY <1>5 DEF AddToSmallerSide
<1>6. CASE sel.groups[i].IsInvitedToBGInstanceGUID = 0
  <2>1. PICK x : x = [sel.groups[i] EXCEPT !.Team = team]
    BY Zenon
  <2>2. sel.groups[i] \in Groups
    BY <1>1
  <2>3. /\ x \in Groups /\ x.Players = sel.groups[i].Players
        /\ x.IsInvitedToBGInstanceGUID = sel.groups[i].IsInvitedToBGInstanceGUID
        /\ x.RemoveInviteTime = sel.groups[i].RemoveInviteTime
    BY <1>3, <2>1, <2>2, Zenon DEF Groups
  <2>4. PICK h : h = [sel.groups EXCEPT ![i] = x]
    BY Zenon
  <2>5. /\ h \in Seq(Groups) /\ DOMAIN h = DOMAIN g /\ h[i] = x
        /\ \A j \in DOMAIN g : j # i => h[j] = sel.groups[j]
    BY <1>1, <2>3, <2>4
  <2>6. Regrouped(g, h)
    BY <1>1, <1>6, <2>3, <2>5, Zenon DEF Regrouped
  <2>7. [sel EXCEPT !.groups = h] \in Selections(g)
    BY <1>1, <2>5, <2>6, Zenon DEF Selections
  <2>8. moved = [sel EXCEPT !.groups = h]
    BY <1>4, <2>1, <2>4 DEF Selections
  <2>9. PICK added : added = AddGroup(moved, team, i, free[team])
    OBVIOUS
  <2>10. added \in Selections(g)
    BY <1>3, <2>7, <2>8, <2>9, AddGroupIs, Zenon
  <2>11. PICK less : less = IF AddGroupAnswer(moved, team, i, free[team])
                            THEN added.free[team] - Size(sel.groups, i) ELSE added.free[team]
    BY Zenon
  <2>12. /\ added.groups \in Seq(Groups) /\ Regrouped(g, added.groups)
         /\ added.pool \in [Teams -> Pools(DOMAIN g)] /\ added.free \in [Teams -> Int]
    BY <2>10, SelectionFields, Zenon
  <2>13. less \in Int
    <3>1. Size(sel.groups, i) \in Nat
      BY <1>1, SizeIs
    <3>2. QED
      BY <1>3, <2>11, <2>12, <3>1
  <2>14. PICK slots : slots = [added.free EXCEPT ![team] = less]
    BY Zenon
  <2>15. slots \in [Teams -> Int]
    BY <2>12, <2>13, <2>14, Zenon
  <2>16. [added EXCEPT !.free = slots] \in Selections(g)
    BY <2>10, <2>12, <2>15, Zenon DEF Selections
  <2>17. [added EXCEPT !.free[team] = IF AddGroupAnswer(moved, team, i, free[team])
                                      THEN @ - Size(sel.groups, i) ELSE @]
            = [added EXCEPT !.free = slots]
    BY <2>11, <2>14, Zenon
  <2>18. AddToSmallerSide(sel, i, free) \in
           {sel, [added EXCEPT !.free[team] = IF AddGroupAnswer(moved, team, i, free[team])
                                              THEN @ - Size(sel.groups, i) ELSE @]}
    BY <1>2, <1>4, <2>9 DEF AddToSmallerSide
  <2>19. QED
    BY <2>16, <2>17, <2>18, Zenon
<1>7. QED
  BY <1>5, <1>6, Zenon

LEMMA FillXPlayersToBGIs ==
    ASSUME NEW g \in Seq(Groups), NEW free \in [Teams -> Int], NEW start, NEW oAlliance
    PROVE  FillXPlayersToBG(g, free, start, oAlliance) \in Selections(g)
<1>1. PICK empty : empty = [groups |-> g, pool |-> [t \in Teams |-> NewPool], free |-> free]
  BY Zenon
<1>2. empty \in Selections(g)
  <2>1. Regrouped(g, g)
    BY Zenon DEF Regrouped
  <2>2. NewPool \in Pools(DOMAIN g)
    BY DEF NewPool, Pools
  <2>3. QED
    BY <1>1, <2>1, <2>2, Zenon DEF Selections
<1>3. PICK first : first = IF start THEN PreAddTeams(empty, free, oAlliance) ELSE empty
  OBVIOUS
<1>4. first \in Selections(g)
  BY <1>2, <1>3, PreAddTeamsIs, Zenon
<1>5. PICK order : order = LargestFirst(g, DOMAIN g)
  BY Zenon
<1>6. order \in Seq(DOMAIN g)
  BY <1>5, LargestFirstIs, Zenon
<1>7. PICK N \in Nat : N = Len(order) /\ \A n \in 1..N : order[n] \in DOMAIN g
  BY <1>6
<1>8. PICK S : S = Selections(g)
  OBVIOUS
<1>9. PICK F : F = [n \in 1..N |-> [s \in S |-> AddToSmallerSide(s, order[n], free)]]
  BY Zenon
<1>10. \A n \in 1..N : \A s \in S : AddToSmallerSide(s, order[n], free) \in S
  BY <1>7, <1>8, AddToSmallerSideIs, Zenon
<1>11. F \in [1..N -> [S -> S]] /\ first \in S
  BY <1>4, <1>8, <1>9, <1>10, Zenon
<1>12. Runs(S, N, first, F) # {}
  BY <1>11, RunExists, Zenon
<1>13. PICK h : /\ h \in [0..N -> S] /\ h[0] = first /\ \A n \in 1..N : h[n] = F[n][h[n - 1]]
  BY <1>12, Zenon DEF Runs
<1>14. \A n \in 1..N : h[n] = AddToSmallerSide(h[n - 1], order[n], free)
  <2> SUFFICES ASSUME NEW n \in 1..N PROVE h[n] = AddToSmallerSide(h[n - 1], order[n], free)
    OBVIOUS
  <2>1. n - 1 \in 0..N
    OBVIOUS
  <2>2. h[n - 1] \in S
    BY <1>13, <2>1
  <2>3. QED
    BY <1>9, <1>13, <2>2, Zenon
<1>15. h = [n \in 0..N |-> IF n = 0 THEN first ELSE AddToSmallerSide(h[n - 1], order[n], free)]
  BY <1>13, <1>14
<1>16. PICK sel : sel = CHOOSE f : f = [n \in 0..N |->
          IF n = 0 THEN first ELSE AddToSmallerSide(f[n - 1], order[n], free)]
  OBVIOUS
<1>17. sel = [n \in 0..N |-> IF n = 0 THEN first ELSE AddToSmallerSide(sel[n - 1], order[n], free)]
  BY <1>15, <1>16, Zenon
<1>18. sel[0] = first /\ \A n \in 1..N : sel[n] = AddToSmallerSide(sel[n - 1], order[n], free)
  BY <1>17
<1>19. \A n \in 1..N : sel[n - 1] \in S => sel[n] \in S
  BY <1>10, <1>18, Zenon
<1>20. sel[0] \in S
  BY <1>11, <1>18, Zenon
<1>21. \A n \in 0..N : sel[n] \in S
  BY <1>19, <1>20, StaysIn, Zenon
<1>22. sel[N] \in S
  BY <1>21
<1>23. FillXPlayersToBG(g, free, start, oAlliance) \in {empty, sel[N]}
  BY <1>1, <1>3, <1>5, <1>7, <1>16 DEF FillXPlayersToBG
<1>24. QED
  BY <1>2, <1>8, <1>22, <1>23, Zenon

-----------------------------------------------------------------------------
(* The update of the queue *)

\* The states of the update in which all that IInv says holds.
States(R) ==
    {s \in [groups : Seq(Groups), bgs : Bgs, freeSlotQueue : Seq(BgIds), queueSlot : Slots,
            events : Seq(Events)] :
        Keeps(s.groups, s.bgs, s.freeSlotQueue, s.queueSlot, s.events, R)}

LEMMA StateBuilt ==
    ASSUME NEW g, NEW in, NEW free, NEW slot, NEW queue, NEW R,
           Keeps(g, in, free, slot, queue, R)
    PROVE  [groups |-> g, bgs |-> in, freeSlotQueue |-> free, queueSlot |-> slot, events |-> queue]
             \in States(R)
BY DEF States, Keeps

LEMMA StateIs ==
    ASSUME NEW R, NEW s \in States(R)
    PROVE  /\ Keeps(s.groups, s.bgs, s.freeSlotQueue, s.queueSlot, s.events, R)
           /\ s = [groups |-> s.groups, bgs |-> s.bgs, freeSlotQueue |-> s.freeSlotQueue,
                   queueSlot |-> s.queueSlot, events |-> s.events]
           /\ s.groups \in Seq(Groups) /\ DOMAIN s.groups = DOMAIN queuedGroups
BY Zenon DEF States, Keeps, SameMembers

LEMMA InviteGroupToBGIs ==
    ASSUME IInv, NEW R, NEW s \in States(R), NEW i \in DOMAIN queuedGroups, NEW b \in R
    PROVE  InviteGroupToBG(s, i, b) \in States(R)
<1>1. PICK g, in, free, slot, queue : /\ g = s.groups /\ in = s.bgs /\ free = s.freeSlotQueue
                                      /\ slot = s.queueSlot /\ queue = s.events
  BY Zenon
<1>2. /\ Keeps(g, in, free, slot, queue, R) /\ i \in DOMAIN g
      /\ s = [groups |-> g, bgs |-> in, freeSlotQueue |-> free, queueSlot |-> slot, events |-> queue]
  BY <1>1, StateIs, Zenon
<1>3. CASE g[i].IsInvitedToBGInstanceGUID # 0
  BY <1>1, <1>3, Zenon DEF InviteGroupToBG
<1>4. CASE g[i].IsInvitedToBGInstanceGUID = 0
  <2>1. g[i].Players \cap online = g[i].Players
    <3>1. Waiters(g, in, slot)
      BY <1>2, Zenon DEF Keeps
    <3>2. ASSUME NEW p \in g[i].Players PROVE p \in online
      <4>1. \E c, t, time : In(g, p, c, t, time)
        BY <1>2, Zenon DEF In
      <4>2. QED
        BY <3>1, <4>1, Zenon DEF Waiters
    <3>3. QED
      BY <3>2, Zenon
  <2>2. PICK h, new, slots, events2 : Invites(g, in, slot, queue, i, b, h, new, slots, events2)
    BY Zenon DEF Invites
  <2>3. RemoveInviteTime \in Nat
    BY RemoveInviteTimeIs
  <2>4. Keeps(h, new, free, slots, events2, R)
    BY <1>2, <1>4, <2>2, <2>3, InviteKeeps, Zenon
  <2>5. InviteGroupToBG(s, i, b) = [groups |-> h, bgs |-> new, freeSlotQueue |-> free,
                                    queueSlot |-> slots, events |-> events2]
    BY <1>1, <1>4, <2>1, <2>2, Zenon DEF InviteGroupToBG, Invites, InvitedGroup
  <2>6. QED
    BY <2>4, <2>5, StateBuilt, Zenon
<1>5. QED
  BY <1>3, <1>4, Zenon

LEMMA InvitePoolsIs ==
    ASSUME IInv, NEW R, NEW s \in States(R), NEW sel \in Selections(s.groups), NEW b \in R
    PROVE  InvitePools(s, sel, b) \in States(R)
<1>1. DOMAIN s.groups = DOMAIN queuedGroups
  BY StateIs
<1>2. PICK order : order = sel.pool["ALLIANCE"].SelectedGroups \o sel.pool["HORDE"].SelectedGroups
  BY Zenon
<1>3. order \in Seq(DOMAIN queuedGroups)
  <2>1. sel.pool \in [Teams -> Pools(DOMAIN queuedGroups)]
    BY <1>1, SelectionFields, Zenon
  <2>2. /\ sel.pool["ALLIANCE"].SelectedGroups \in Seq(DOMAIN queuedGroups)
        /\ sel.pool["HORDE"].SelectedGroups \in Seq(DOMAIN queuedGroups)
    BY <2>1, Zenon DEF Pools, Teams
  <2>3. QED
    BY <1>2, <2>2
<1>4. PICK N \in Nat : N = Len(order) /\ \A n \in 1..N : order[n] \in DOMAIN queuedGroups
  BY <1>3
<1>5. PICK S : S = States(R)
  OBVIOUS
<1>6. PICK first : first = [s EXCEPT !.groups = sel.groups]
  BY Zenon
<1>7. first \in S
  <2>1. PICK g, in, free, slot, queue : /\ g = s.groups /\ in = s.bgs /\ free = s.freeSlotQueue
                                        /\ slot = s.queueSlot /\ queue = s.events
    BY Zenon
  <2>2. /\ Keeps(g, in, free, slot, queue, R)
        /\ s = [groups |-> g, bgs |-> in, freeSlotQueue |-> free, queueSlot |-> slot, events |-> queue]
    BY <2>1, StateIs, Zenon
  <2>3. PICK h : h = sel.groups
    OBVIOUS
  <2>4. Regrouped(g, h)
    BY <2>1, <2>3, SelectionFields, Zenon
  <2>5. Keeps(h, in, free, slot, queue, R)
    BY <2>2, <2>4, RegroupKeeps, Zenon
  <2>6. first = [groups |-> h, bgs |-> in, freeSlotQueue |-> free, queueSlot |-> slot, events |-> queue]
    BY <1>6, <2>2, <2>3, Zenon
  <2>7. QED
    BY <1>5, <2>5, <2>6, StateBuilt, Zenon
<1>8. PICK F : F = [n \in 1..N |-> [x \in S |-> InviteGroupToBG(x, order[n], b)]]
  BY Zenon
<1>9. \A n \in 1..N : \A x \in S : InviteGroupToBG(x, order[n], b) \in S
  BY <1>4, <1>5, InviteGroupToBGIs, Zenon
<1>10. F \in [1..N -> [S -> S]]
  BY <1>8, <1>9, Zenon
<1>11. Runs(S, N, first, F) # {}
  BY <1>7, <1>10, RunExists, Zenon
<1>12. PICK h : /\ h \in [0..N -> S] /\ h[0] = first /\ \A n \in 1..N : h[n] = F[n][h[n - 1]]
  BY <1>11, Zenon DEF Runs
<1>13. \A n \in 1..N : h[n] = InviteGroupToBG(h[n - 1], order[n], b)
  <2> SUFFICES ASSUME NEW n \in 1..N PROVE h[n] = InviteGroupToBG(h[n - 1], order[n], b)
    BY Zenon
  <2>1. n - 1 \in 0..N
    OBVIOUS
  <2>2. h[n - 1] \in S
    BY <1>12, <2>1, Zenon
  <2>3. QED
    BY <1>8, <1>12, <2>2, Zenon
<1>14. h = [n \in 0..N |-> IF n = 0 THEN first ELSE InviteGroupToBG(h[n - 1], order[n], b)]
  BY <1>12, <1>13
<1>15. PICK after : after = CHOOSE f : f = [n \in 0..N |->
          IF n = 0 THEN first ELSE InviteGroupToBG(f[n - 1], order[n], b)]
  OBVIOUS
<1>16. after = [n \in 0..N |-> IF n = 0 THEN first ELSE InviteGroupToBG(after[n - 1], order[n], b)]
  BY <1>14, <1>15, Zenon
<1>17. after[0] = first /\ \A n \in 1..N : after[n] = InviteGroupToBG(after[n - 1], order[n], b)
  BY <1>16
<1>18. \A n \in 1..N : after[n - 1] \in S => after[n] \in S
  BY <1>9, <1>17, Zenon
<1>19. after[0] \in S
  BY <1>7, <1>17, Zenon
<1>20. \A n \in 0..N : after[n] \in S
  BY <1>18, <1>19, StaysIn, Zenon
<1>21. after[N] \in S
  BY <1>20
<1>22. InvitePools(s, sel, b) = after[N]
  BY <1>2, <1>4, <1>6, <1>15, Zenon DEF InvitePools
<1>23. QED
  BY <1>5, <1>21, <1>22, Zenon

LEMMA FreeSlotsForTeamIs ==
    ASSUME NEW bg \in Battlegrounds
    PROVE  [t \in Teams |-> GetFreeSlotsForTeam(bg, t)] \in [Teams -> Int]
<1> SUFFICES ASSUME NEW t \in Teams PROVE GetFreeSlotsForTeam(bg, t) \in Int
  OBVIOUS
<1>1. Other(t) \in Teams
  BY Zenon DEF Other, Teams
<1>2. bg.invited \in [Teams -> Nat] /\ DOMAIN bg.m_Players \in SUBSET Players
  BY BgFields, Zenon
<1>3. ASSUME NEW team \in Teams PROVE PlayersCountByTeam(bg, team) \in Nat
  <2>1. {p \in DOMAIN bg.m_Players : bg.m_Players[p] = team} \in SUBSET Players
    BY <1>2, Zenon
  <2>2. IsFiniteSet({p \in DOMAIN bg.m_Players : bg.m_Players[p] = team})
    BY <2>1, BattlegroundAssumption, FS_Subset, Zenon
  <2>3. QED
    BY <2>2, FS_CardinalityType, Zenon DEF PlayersCountByTeam
<1>4. PICK own \in Nat, other \in Nat : own = bg.invited[t] /\ other = bg.invited[Other(t)]
  BY <1>1, <1>2, Zenon
<1>5. PICK inside \in Nat, otherInside \in Nat : /\ inside = PlayersCountByTeam(bg, t)
                                                 /\ otherInside = PlayersCountByTeam(bg, Other(t))
  BY <1>1, <1>3, Zenon
<1>6. PICK room : room = IF own < MaxPlayersPerTeam THEN MaxPlayersPerTeam - own ELSE 0
  BY Zenon
<1>7. PICK balance : balance = IF otherInside < inside /\ own <= MinPlayersPerTeam
                               THEN MinPlayersPerTeam - own + 1 ELSE Behind(inside, otherInside)
  BY Zenon
<1>8. \A m, n \in Nat : Behind(m, n) \in Int
  BY DEF Behind
<1>9. room \in Int /\ balance \in Int /\ Behind(own, other) \in Int
  BY <1>6, <1>7, <1>8, BattlegroundAssumption
<1>10. \A m, n \in Int : Smaller(m, n) \in Int
  BY Zenon DEF Smaller
<1>11. PICK three : three = Smaller(Behind(own, other), Smaller(room, balance))
  BY Zenon
<1>12. three \in Int
  BY <1>9, <1>10, <1>11, Zenon
<1>13. GetFreeSlotsForTeam(bg, t) = CASE bg.status = "WAIT_JOIN" -> room
                                      [] bg.status = "IN_PROGRESS" -> three
                                      [] OTHER -> 0
  BY <1>4, <1>5, <1>6, <1>7, <1>11, Zenon DEF GetFreeSlotsForTeam
<1>14. QED
  BY <1>9, <1>12, <1>13

LEMMA FillPlayersToBGIs ==
    ASSUME IInv, NEW R, NEW s \in States(R), NEW b \in R
    PROVE  FillPlayersToBG(s, b) \in States(R)
<1>1. PICK bg : bg = s.bgs[b]
  BY Zenon
<1>2. bg \in Battlegrounds /\ s.groups \in Seq(Groups)
  <2>1. s.bgs \in Bgs /\ Running(s.bgs) = R
    BY StateIs, Zenon DEF Keeps
  <2>2. s.bgs[b] # NULL /\ b \in BgIds
    BY <2>1, Zenon DEF Running
  <2>3. bg \in Battlegrounds
    BY <1>1, <2>1, <2>2, Zenon DEF Bgs
  <2>4. QED
    BY <2>3, StateIs, Zenon
<1>3. PICK free : free = [t \in Teams |-> GetFreeSlotsForTeam(bg, t)]
  BY Zenon
<1>4. free \in [Teams -> Int]
  BY <1>2, <1>3, FreeSlotsForTeamIs, Zenon
<1>5. PICK sel : sel = FillXPlayersToBG(s.groups, free, FALSE, {})
  BY Zenon
<1>6. sel \in Selections(s.groups)
  BY <1>2, <1>4, <1>5, FillXPlayersToBGIs, Zenon
<1>7. PICK filled : filled = InvitePools(s, sel, b)
  BY Zenon
<1>8. filled \in States(R)
  BY <1>6, <1>7, InvitePoolsIs, Zenon
<1>9. WithoutFreeSlots(filled, b) \in States(R)
  <2>1. PICK g, in, frees, slot, queue :
           /\ g = filled.groups /\ in = filled.bgs /\ frees = filled.freeSlotQueue
           /\ slot = filled.queueSlot /\ queue = filled.events
    BY Zenon
  <2>2. /\ Keeps(g, in, frees, slot, queue, R)
        /\ filled = [groups |-> g, bgs |-> in, freeSlotQueue |-> frees, queueSlot |-> slot,
                     events |-> queue]
    BY <1>8, <2>1, StateIs, Zenon
  <2>3. PICK new, less : /\ new = [in EXCEPT ![b].m_InBGFreeSlotQueue = FALSE]
                         /\ less = EraseFirst(frees, b)
    BY Zenon
  <2>4. Keeps(g, new, less, slot, queue, R)
    BY <2>2, <2>3, FullKeeps, Zenon
  <2>5. WithoutFreeSlots(filled, b) = [groups |-> g, bgs |-> new, freeSlotQueue |-> less,
                                       queueSlot |-> slot, events |-> queue]
    <3>1. WithoutFreeSlots(filled, b) = [filled EXCEPT !.bgs = new, !.freeSlotQueue = less]
      BY <2>1, <2>3, Zenon DEF WithoutFreeSlots
    <3>2. PICK y : y = [filled EXCEPT !.bgs = new]
      BY Zenon
    <3>3. y = [groups |-> g, bgs |-> new, freeSlotQueue |-> frees, queueSlot |-> slot, events |-> queue]
      BY <2>2, <3>2, Zenon
    <3>4. [y EXCEPT !.freeSlotQueue = less] =
             [groups |-> g, bgs |-> new, freeSlotQueue |-> less, queueSlot |-> slot, events |-> queue]
      BY <3>3
    <3>5. QED
      BY <3>1, <3>2, <3>4, Zenon
  <2>6. QED
    BY <2>4, <2>5, StateBuilt, Zenon
<1>10. FillPlayersToBG(s, b) \in {s, filled, WithoutFreeSlots(filled, b)}
  BY <1>1, <1>3, <1>5, <1>7, Zenon DEF FillPlayersToBG
<1>11. QED
  BY <1>8, <1>9, <1>10, Zenon

LEMMA FillAllIs ==
    ASSUME IInv, NEW R, NEW s \in States(R)
    PROVE  FillAll(s) \in States(R)
<1>1. PICK queue : queue = s.freeSlotQueue
  BY Zenon
<1>2. queue \in Seq(BgIds) /\ \A k \in DOMAIN queue : queue[k] \in R
  BY <1>1, StateIs DEF Keeps, FreeSlots
<1>3. PICK N \in Nat : N = Len(queue) /\ \A n \in 1..N : queue[n] \in R
  BY <1>2
<1>4. PICK S : S = States(R)
  OBVIOUS
<1>5. PICK F : F = [n \in 1..N |-> [x \in S |-> FillPlayersToBG(x, queue[n])]]
  BY Zenon
<1>6. \A n \in 1..N : \A x \in S : FillPlayersToBG(x, queue[n]) \in S
  BY <1>3, <1>4, FillPlayersToBGIs, Zenon
<1>7. F \in [1..N -> [S -> S]] /\ s \in S
  BY <1>4, <1>5, <1>6, Zenon
<1>8. Runs(S, N, s, F) # {}
  BY <1>7, RunExists, Zenon
<1>9. PICK h : /\ h \in [0..N -> S] /\ h[0] = s /\ \A n \in 1..N : h[n] = F[n][h[n - 1]]
  BY <1>8, Zenon DEF Runs
<1>10. \A n \in 1..N : h[n] = FillPlayersToBG(h[n - 1], queue[n])
  <2> SUFFICES ASSUME NEW n \in 1..N PROVE h[n] = FillPlayersToBG(h[n - 1], queue[n])
    OBVIOUS
  <2>1. n - 1 \in 0..N
    OBVIOUS
  <2>2. h[n - 1] \in S
    BY <1>9, <2>1, Zenon
  <2>3. QED
    BY <1>5, <1>9, <2>2, Zenon
<1>11. h = [n \in 0..N |-> IF n = 0 THEN s ELSE FillPlayersToBG(h[n - 1], queue[n])]
  BY <1>9, <1>10
<1>12. PICK filled : filled = CHOOSE f : f = [n \in 0..N |->
          IF n = 0 THEN s ELSE FillPlayersToBG(f[n - 1], queue[n])]
  BY Zenon
<1>13. filled = [n \in 0..N |-> IF n = 0 THEN s ELSE FillPlayersToBG(filled[n - 1], queue[n])]
  BY <1>11, <1>12, Zenon
<1>14. filled[0] = s /\ \A n \in 1..N : filled[n] = FillPlayersToBG(filled[n - 1], queue[n])
  BY <1>13
<1>15. \A n \in 1..N : filled[n - 1] \in S => filled[n] \in S
  BY <1>6, <1>14, Zenon
<1>16. filled[0] \in S
  BY <1>7, <1>14, Zenon
<1>17. \A n \in 0..N : filled[n] \in S
  BY <1>15, <1>16, StaysIn, Zenon
<1>18. filled[N] \in S
  BY <1>17
<1>19. FillAll(s) \in {s, filled[N]}
  BY <1>1, <1>3, <1>12, Zenon DEF FillAll
<1>20. QED
  BY <1>4, <1>18, <1>19, Zenon

LEMMA StartNewBattlegroundIs ==
    ASSUME IInv, NEW R, NEW s \in States(R), NEW sel \in Selections(s.groups), NEW b \in BgIds \ R
    PROVE  StartNewBattleground(s, sel, b) \in States(R \cup {b})
<1>1. PICK g, in, free, slot, queue : /\ g = s.groups /\ in = s.bgs /\ free = s.freeSlotQueue
                                      /\ slot = s.queueSlot /\ queue = s.events
  BY Zenon
<1>2. /\ Keeps(g, in, free, slot, queue, R)
      /\ s = [groups |-> g, bgs |-> in, freeSlotQueue |-> free, queueSlot |-> slot, events |-> queue]
  BY <1>1, StateIs, Zenon
<1>3. PICK new, frees : new = [in EXCEPT ![b] = NewBattleground] /\ frees = <<b>> \o free
  BY Zenon
<1>4. Keeps(g, new, frees, slot, queue, R \cup {b})
  BY <1>2, <1>3, NewKeeps, Zenon
<1>5. PICK opened : opened = [groups |-> g, bgs |-> new, freeSlotQueue |-> frees,
                              queueSlot |-> slot, events |-> queue]
  BY Zenon
<1>6. PICK more : more = R \cup {b}
  BY Zenon
<1>7. opened \in States(more) /\ opened.groups = s.groups /\ b \in more
  BY <1>1, <1>4, <1>5, <1>6, StateBuilt, Zenon
<1>8. InvitePools(opened, sel, b) \in States(more)
  BY <1>7, InvitePoolsIs, Zenon
<1>9. StartNewBattleground(s, sel, b) = InvitePools(opened, sel, b)
  <2>1. StartNewBattleground(s, sel, b) =
          InvitePools([s EXCEPT !.bgs = new, !.freeSlotQueue = frees], sel, b)
    <3>1. PICK x : x = [s EXCEPT !.bgs = [s.bgs EXCEPT ![b] = NewBattleground],
                                 !.freeSlotQueue = <<b>> \o @]
      OBVIOUS
    <3>2. StartNewBattleground(s, sel, b) = InvitePools(x, sel, b)
      BY <3>1, Zenon DEF StartNewBattleground
    <3>3. x = [s EXCEPT !.bgs = new, !.freeSlotQueue = frees]
      BY <1>1, <1>3, <3>1, Zenon
    <3>4. QED
      BY <3>2, <3>3, Zenon
  <2>2. [s EXCEPT !.bgs = new, !.freeSlotQueue = frees] = opened
    <3>1. PICK y : y = [s EXCEPT !.bgs = new]
      BY Zenon
    <3>2. y = [groups |-> g, bgs |-> new, freeSlotQueue |-> free, queueSlot |-> slot, events |-> queue]
      BY <1>2, <3>1, Zenon
    <3>3. [y EXCEPT !.freeSlotQueue = frees] = opened
      BY <1>5, <3>2
    <3>4. QED
      BY <3>1, <3>3, Zenon
  <2>3. QED
    BY <2>1, <2>2, Zenon
<1>10. QED
  BY <1>6, <1>8, <1>9, Zenon

LEMMA KeepsStep ==
    ASSUME IInv, NEW R, Keeps(queuedGroups', bgs', freeSlotQueue', queueSlot', events', R),
           scheduled' \in BOOLEAN, UNCHANGED <<online, travelling, bgInstanceID, bgTeam>>
    PROVE  IInv' /\ InQueue' = InQueue
<1>1. PICK g, in, free, slot, queue :
         /\ g = queuedGroups' /\ in = bgs' /\ free = freeSlotQueue'
         /\ slot = queueSlot' /\ queue = events'
  BY Zenon
<1>2. /\ g \in Seq(Groups) /\ in \in Bgs /\ free \in Seq(BgIds) /\ slot \in Slots
      /\ queue \in Seq(Events) /\ SameMembers(g)
      /\ Disjoint(g) /\ Waiters(g, in, slot) /\ Others(g, in, slot)
      /\ Counts(g, in) /\ FreeSlots(in, free) /\ LastEvents(g, queue)
  BY <1>1, Zenon DEF Keeps
<1>3. PlayersType'
  BY DEF IInv, PlayersType
<1>4. QueueType'
  BY <1>1, <1>2, Zenon DEF QueueType, Bgs, Slots
<1>5. Disjoint(queuedGroups)' /\ FreeSlots(bgs, freeSlotQueue)' /\ LastEvents(queuedGroups, events)'
  BY <1>1, <1>2, Zenon
<1>6. Waiters(queuedGroups, bgs, queueSlot)'
  BY <1>1, <1>2, Zenon DEF Waiters
<1>7. Others(queuedGroups, bgs, queueSlot)'
  BY <1>1, <1>2, Zenon DEF Others
<1>8. Counts(queuedGroups, bgs)'
  <2>1. \A b, team : Counted(queuedGroups, bgs, b, team)' = Counted(g, in, b, team)
    BY <1>1, Zenon DEF Counted, CountedAt
  <2>2. QED
    BY <1>1, <1>2, <2>1 DEF Counts
<1>9. InQueue' = InQueue
  BY <1>1, <1>2, Zenon DEF SameMembers, InQueue
<1>10. QED
  BY <1>3, <1>4, <1>5, <1>6, <1>7, <1>8, <1>9, Zenon DEF IInv

\* What the update does once the battlegrounds that want players have them.
Started(filled) ==
    \E oAlliance \in SUBSET Uninvited(filled.groups) :
       \E sel \in {NewMatch(filled, oAlliance)} :
       \E b \in BgIds \cup {0} :
          /\ IF CheckCrossFactionMatch(sel) THEN b \in BgIds /\ bgs[b] = NULL ELSE b = 0
          /\ \E updated \in {IF b = 0 THEN [filled EXCEPT !.groups = sel.groups]
                             ELSE StartNewBattleground(filled, sel, b)} :
                /\ queuedGroups' = updated.groups /\ bgs' = updated.bgs
                /\ freeSlotQueue' = updated.freeSlotQueue
                /\ queueSlot' = updated.queueSlot /\ events' = updated.events

LEMMA UpdateStep ==
    ASSUME IInv, BattlegroundQueueUpdate
    PROVE  IInv' /\ InQueue' = InQueue
<1>1. PICK R, s : /\ R = Running(bgs)
                  /\ s = [groups |-> queuedGroups, bgs |-> bgs, events |-> events,
                          freeSlotQueue |-> freeSlotQueue, queueSlot |-> queueSlot]
  BY Zenon
<1>2. s \in States(R)
  <2>1. Keeps(queuedGroups, bgs, freeSlotQueue, queueSlot, events, R)
    BY <1>1, BeginKeeps, Zenon
  <2>2. s = [groups |-> queuedGroups, bgs |-> bgs, freeSlotQueue |-> freeSlotQueue,
             queueSlot |-> queueSlot, events |-> events]
    BY <1>1, Zenon
  <2>3. QED
    BY <2>1, <2>2, StateBuilt, Zenon
<1>3. PICK filled : filled = FillAll(s)
  BY Zenon
<1>4. filled \in States(R)
  BY <1>2, <1>3, FillAllIs, Zenon
<1>5. /\ scheduled' = FALSE /\ UNCHANGED <<online, travelling, bgInstanceID, bgTeam>>
      /\ Started(filled)
  <2>1. /\ scheduled' = FALSE /\ UNCHANGED <<online, travelling, bgInstanceID, bgTeam>>
        /\ \E x \in {FillAll([groups |-> queuedGroups, bgs |-> bgs, events |-> events,
                              freeSlotQueue |-> freeSlotQueue, queueSlot |-> queueSlot])} : Started(x)
    BY Zenon DEF BattlegroundQueueUpdate, Started
  <2>2. \E x \in {filled} : Started(x)
    BY <1>1, <1>3, <2>1, Zenon
  <2>3. QED
    BY <2>1, <2>2, Zenon
<1>6. PICK oAlliance \in SUBSET Uninvited(filled.groups) :
         \E sel \in {NewMatch(filled, oAlliance)} :
         \E b \in BgIds \cup {0} :
            /\ IF CheckCrossFactionMatch(sel) THEN b \in BgIds /\ bgs[b] = NULL ELSE b = 0
            /\ \E updated \in {IF b = 0 THEN [filled EXCEPT !.groups = sel.groups]
                               ELSE StartNewBattleground(filled, sel, b)} :
                  /\ queuedGroups' = updated.groups /\ bgs' = updated.bgs
                  /\ freeSlotQueue' = updated.freeSlotQueue
                  /\ queueSlot' = updated.queueSlot /\ events' = updated.events
  BY <1>5, Zenon DEF Started
<1>7. PICK sel : sel = NewMatch(filled, oAlliance)
  OBVIOUS
<1>8. PICK b \in BgIds \cup {0} :
         /\ IF CheckCrossFactionMatch(sel) THEN b \in BgIds /\ bgs[b] = NULL ELSE b = 0
         /\ \E updated \in {IF b = 0 THEN [filled EXCEPT !.groups = sel.groups]
                            ELSE StartNewBattleground(filled, sel, b)} :
               /\ queuedGroups' = updated.groups /\ bgs' = updated.bgs
               /\ freeSlotQueue' = updated.freeSlotQueue
               /\ queueSlot' = updated.queueSlot /\ events' = updated.events
  BY <1>6, <1>7, Zenon
<1>9. PICK updated : updated = IF b = 0 THEN [filled EXCEPT !.groups = sel.groups]
                               ELSE StartNewBattleground(filled, sel, b)
  BY Zenon
<1>10. /\ queuedGroups' = updated.groups /\ bgs' = updated.bgs
       /\ freeSlotQueue' = updated.freeSlotQueue
       /\ queueSlot' = updated.queueSlot /\ events' = updated.events
  BY <1>8, <1>9, Zenon
<1>11. sel \in Selections(filled.groups)
  <2>1. PICK free : free = [t \in Teams |-> MaxPlayersPerTeam]
    BY Zenon
  <2>2. free \in [Teams -> Int]
    BY <2>1, BattlegroundAssumption
  <2>3. filled.groups \in Seq(Groups)
    BY <1>4, StateIs, Zenon
  <2>4. sel = FillXPlayersToBG(filled.groups, free, TRUE, oAlliance)
    BY <1>7, <2>1, Zenon DEF NewMatch
  <2>5. QED
    BY <2>2, <2>3, <2>4, FillXPlayersToBGIs, Zenon
<1>12. PICK more : more = R \cup ({b} \ {0})
  BY Zenon
<1>13. updated \in States(more)
  <2>1. CASE b = 0
    <3>1. PICK g, in, free, slot, queue :
             /\ g = filled.groups /\ in = filled.bgs /\ free = filled.freeSlotQueue
             /\ slot = filled.queueSlot /\ queue = filled.events
      BY Zenon
    <3>2. /\ Keeps(g, in, free, slot, queue, R)
          /\ filled = [groups |-> g, bgs |-> in, freeSlotQueue |-> free, queueSlot |-> slot,
                       events |-> queue]
      BY <1>4, <3>1, StateIs, Zenon
    <3>3. PICK h : h = sel.groups
      OBVIOUS
    <3>4. Regrouped(g, h)
      BY <1>11, <3>1, <3>3, SelectionFields, Zenon
    <3>5. Keeps(h, in, free, slot, queue, R)
      BY <3>2, <3>4, RegroupKeeps, Zenon
    <3>6. updated = [groups |-> h, bgs |-> in, freeSlotQueue |-> free, queueSlot |-> slot,
                     events |-> queue]
      BY <1>9, <2>1, <3>2, <3>3, Zenon
    <3>7. updated \in States(R)
      BY <3>5, <3>6, StateBuilt, Zenon
    <3>8. more = R
      BY <1>12, <2>1, Zenon
    <3>9. QED
      BY <3>7, <3>8, Zenon
  <2>2. CASE b # 0
    <3>1. b \in BgIds \ R
      BY <1>1, <1>8, <2>2, Zenon DEF Running
    <3>2. StartNewBattleground(filled, sel, b) \in States(R \cup {b})
      BY <1>4, <1>11, <3>1, StartNewBattlegroundIs, Zenon
    <3>3. more = R \cup {b}
      BY <1>12, <2>2, Zenon
    <3>4. QED
      BY <1>9, <2>2, <3>2, <3>3, Zenon
  <2>3. QED
    BY <2>1, <2>2, Zenon
<1>14. Keeps(queuedGroups', bgs', freeSlotQueue', queueSlot', events', more)
  BY <1>10, <1>13, StateIs, Zenon
<1>15. QED
  BY <1>5, <1>14, KeepsStep, Zenon

=============================================================================
