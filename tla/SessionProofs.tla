--------------------------- MODULE SessionProofs ----------------------------
(*****************************************************************************)
(* Proofs about SessionPackets, for any number of packets of any kinds, and  *)
(* about LoginQueue, for any accounts, staff, session objects and limits, with *)
(* and without a tolerance for disconnects.                                  *)
(*****************************************************************************)
EXTENDS LoginQueue, SessionPackets, FiniteSetTheorems, TLAPS

-----------------------------------------------------------------------------
(* SessionPackets *)

\* What the proofs need of the types.
Typed ==
    /\ kinds \in Seq(Kinds)
    /\ _recvQueue \in Seq(Received) /\ taken \in Seq(Received)
    /\ packet \in Received \cup {NULL}
    /\ phase = "handle" => packet \in Received
    /\ phase \in {"idle", "next", "handle", "finish"} /\ updater \in {"world", "map"}
    /\ _player \in {"none", "world", "transfer"} /\ login \in {"no", "query", "stuck"}

Before(p, q) == p < q \/ q \in delayed

\* Where the packets stand: the ones dealt with, the one in hand, and the queue.
Ordered ==
    /\ \A i, j \in 1..Len(taken) : i < j => Before(taken[i], taken[j])
    /\ \A i, j \in 1..Len(_recvQueue) : i < j => Before(_recvQueue[i], _recvQueue[j])
    /\ \A i \in 1..Len(taken), j \in 1..Len(_recvQueue) : Before(taken[i], _recvQueue[j])
    /\ phase = "handle" =>
          /\ \A i \in 1..Len(taken) : Before(taken[i], packet)
          /\ \A j \in 1..Len(_recvQueue) : Before(packet, _recvQueue[j])

\* An update by the map thread has its player, takes only packets that the map
\* may handle, and never gets to the part of the world thread.
MapUpdate ==
    updater = "map" =>
        /\ phase # "finish"
        /\ phase = "handle" => kinds[packet] \in {"move", "never"}

PacketInv == Typed /\ Ordered /\ MapUpdate /\ LoginMeansNoPlayer

-----------------------------------------------------------------------------
(* Steps that touch neither the queue nor the packet *)

\* What a step that leaves the packets alone does to the order.
LEMMA OrderKept ==
    ASSUME Typed, Ordered, UNCHANGED <<kinds, _recvQueue, taken, delayed, packet>>,
           phase' = "handle" => phase = "handle"
    PROVE  Ordered'
  BY DEF Ordered, Before

\* The steps around the session: only the player and the login change.
LEMMA AroundStep ==
    ASSUME PacketInv, CloseSession \/ LeaveQueue \/ TeleportTo \/ DeleteAccount
    PROVE  PacketInv'
<1> USE DEF PacketInv
<1>1. /\ UNCHANGED <<kinds, _recvQueue, taken, delayed, packet, phase, updater, login>>
      /\ _player' \in {_player, "none"} \/ (_player = "world" /\ _player' = "transfer")
  <2>1. CASE CloseSession \/ LeaveQueue
    <3>1. UNCHANGED <<kinds, _recvQueue, taken, delayed, packet, phase, updater, login, _player>>
      BY <2>1, Zenon DEF CloseSession, LeaveQueue, state, local, memory
    <3> QED
      BY <3>1
  <2>2. CASE TeleportTo
    BY <2>2 DEF TeleportTo, local, memory
  <2>3. CASE DeleteAccount
    <3>1. /\ UNCHANGED <<kinds, _recvQueue, taken, delayed, packet, phase, updater, login>>
          /\ _player' = "none"
      BY <2>3, Zenon DEF DeleteAccount, LogoutPlayer, local, memory
    <3> QED
      BY <3>1
  <2> QED
    BY <2>1, <2>2, <2>3
<1>2. Typed'
  BY <1>1 DEF Typed, Received
<1>3. Ordered'
  BY <1>1, OrderKept
<1> QED
  BY <1>1, <1>2, <1>3 DEF MapUpdate, LoginMeansNoPlayer

\* A packet arrives: its number is above all others.
LEMMA QueueStep ==
    ASSUME PacketInv, NEW kind \in Kinds, QueuePacket(kind)
    PROVE  PacketInv'
<1> USE DEF PacketInv
<1>1. /\ kinds' = Append(kinds, kind) /\ _recvQueue' = Append(_recvQueue, Len(kinds'))
      /\ UNCHANGED <<taken, delayed, packet, phase, updater, login, _player>>
  BY DEF QueuePacket, state, local, memory
<1>2. /\ kinds \in Seq(Kinds) /\ kinds' \in Seq(Kinds) /\ Len(kinds') = Len(kinds) + 1
      /\ Len(kinds) \in Nat /\ Received = 1..Len(kinds) /\ Received' = 1..(Len(kinds) + 1)
      /\ \A p \in Received : kinds'[p] = kinds[p]
  BY <1>1 DEF Typed, Received
<1>3. _recvQueue \in Seq(Received') /\ taken \in Seq(Received')
  BY <1>2 DEF Typed
<1>4. Typed'
  BY <1>1, <1>2, <1>3 DEF Typed
<1>5. /\ Len(_recvQueue') = Len(_recvQueue) + 1
      /\ _recvQueue'[Len(_recvQueue) + 1] = Len(kinds) + 1
      /\ \A k \in 1..Len(_recvQueue) : _recvQueue'[k] = _recvQueue[k] /\ _recvQueue[k] \in 1..Len(kinds)
      /\ Len(_recvQueue) \in Nat
  BY <1>1, <1>2, <1>3 DEF Typed
<1>6. \A k \in 1..Len(taken) : taken[k] \in 1..Len(kinds)
  BY <1>2 DEF Typed
<1>7. Ordered'
  <2> DEFINE last == Len(_recvQueue) + 1
  <2>1. \A k \in 1..Len(_recvQueue') : k \in 1..Len(_recvQueue) \/ k = last
    BY <1>5
  <2>2. \A k \in 1..Len(_recvQueue) : _recvQueue'[k] = _recvQueue[k] /\ _recvQueue[k] < _recvQueue'[last] /\ k < last
    BY <1>2, <1>5
  <2>3. \A k \in 1..Len(taken) : taken[k] < _recvQueue'[last]
    BY <1>2, <1>5, <1>6
  <2>4. phase = "handle" => packet < _recvQueue'[last]
    BY <1>2, <1>5 DEF Typed
  <2>5. \A i, j \in 1..Len(_recvQueue') : i < j => (Before(_recvQueue[i], _recvQueue[j]))'
    BY <1>1, <1>5, <2>1, <2>2 DEF Ordered, Before
  <2>6. \A i \in 1..Len(taken), j \in 1..Len(_recvQueue') : (Before(taken[i], _recvQueue[j]))'
    BY <1>1, <2>1, <2>2, <2>3 DEF Ordered, Before
  <2>7. phase = "handle" => \A j \in 1..Len(_recvQueue') : (Before(packet, _recvQueue[j]))'
    BY <1>1, <2>1, <2>2, <2>4 DEF Ordered, Before
  <2> QED
    BY <1>1, <2>5, <2>6, <2>7 DEF Ordered, Before
<1>8. MapUpdate'
  BY <1>1, <1>2 DEF MapUpdate, Typed
<1> QED
  BY <1>1, <1>4, <1>7, <1>8 DEF LoginMeansNoPlayer

LEMMA BeginStep ==
    ASSUME PacketInv, NEW who \in {"world", "map"}, Update(who)
    PROVE  PacketInv'
<1> USE DEF PacketInv
<1>1. /\ UNCHANGED <<kinds, _recvQueue, taken, delayed, packet, login, _player>>
      /\ phase' = "next" /\ updater' = who
  BY DEF Update, state, memory
<1>2. Ordered'
  BY <1>1, OrderKept
<1> QED
  BY <1>1, <1>2 DEF Typed, Received, MapUpdate, LoginMeansNoPlayer

-----------------------------------------------------------------------------
(* The steps of an update *)

\* The head of the queue goes into the hand.
LEMMA NextStep ==
    ASSUME PacketInv, NextPacket
    PROVE  PacketInv'
<1> USE DEF PacketInv
<1>1. /\ packet' = Head(_recvQueue) /\ _recvQueue' = Tail(_recvQueue) /\ phase' = "handle"
      /\ _recvQueue # <<>> /\ Accepts(kinds[Head(_recvQueue)])
      /\ UNCHANGED <<kinds, taken, delayed, updater, login, _player>>
  BY Zenon DEF NextPacket, HasNext, state, memory
<1>2. /\ Received' = Received /\ _recvQueue \in Seq(Received) /\ Len(_recvQueue) \in Nat \ {0}
      /\ packet' = _recvQueue[1] /\ packet' \in Received
      /\ _recvQueue' \in Seq(Received) /\ Len(_recvQueue') = Len(_recvQueue) - 1
      /\ \A k \in 1..Len(_recvQueue') : _recvQueue'[k] = _recvQueue[k + 1] /\ k + 1 \in 1..Len(_recvQueue)
  BY <1>1 DEF Typed, Received
<1>3. Typed'
  BY <1>1, <1>2, Zenon DEF Typed
<1>4. Ordered'
  <2>1. \A i, j \in 1..Len(_recvQueue') : i < j => (Before(_recvQueue[i], _recvQueue[j]))'
    BY <1>1, <1>2 DEF Ordered, Before
  <2>2. \A i \in 1..Len(taken), j \in 1..Len(_recvQueue') : (Before(taken[i], _recvQueue[j]))'
    BY <1>1, <1>2 DEF Ordered, Before
  <2>3. \A i \in 1..Len(taken) : (Before(taken[i], packet))'
    BY <1>1, <1>2 DEF Ordered, Before
  <2>4. \A j \in 1..Len(_recvQueue') : (Before(packet, _recvQueue[j]))'
    BY <1>1, <1>2 DEF Ordered, Before
  <2> QED
    BY <1>1, <2>1, <2>2, <2>3, <2>4, Zenon DEF Ordered, Before
<1>5. MapUpdate'
  <2> SUFFICES ASSUME updater = "map" PROVE kinds[packet'] \in {"move", "never"}
    BY <1>1 DEF MapUpdate
  <2>1. MapSessionFilter(kinds[packet'])
    BY <1>1 DEF Accepts
  <2>2. kinds[packet'] \in AllKinds
    BY <1>2, KindsAssumption DEF Typed, Received
  <2> QED
    BY <2>1, <2>2 DEF MapSessionFilter, Processing, AllKinds
<1> QED
  BY <1>1, <1>3, <1>4, <1>5 DEF LoginMeansNoPlayer

\* The packet in hand goes to the end of the queue, and is known to be put off.
LEMMA DelayStep ==
    ASSUME PacketInv, Delay
    PROVE  PacketInv'
<1> USE DEF PacketInv
<1>1. /\ phase = "handle" /\ phase' = "next" /\ packet' = NULL
      /\ _recvQueue' = Append(_recvQueue, packet) /\ delayed' = delayed \cup {packet}
      /\ UNCHANGED <<kinds, taken, updater, login, _player>>
  BY Zenon DEF Delay, state
<1>2. /\ Received' = Received /\ _recvQueue \in Seq(Received) /\ Len(_recvQueue) \in Nat /\ packet \in Received
      /\ _recvQueue' \in Seq(Received) /\ Len(_recvQueue') = Len(_recvQueue) + 1
      /\ \A k \in 1..Len(_recvQueue) : _recvQueue'[k] = _recvQueue[k]
      /\ _recvQueue'[Len(_recvQueue) + 1] = packet
  BY <1>1 DEF Typed, Received
<1>3. Typed'
  BY <1>1, <1>2, Zenon DEF Typed
<1>4. Ordered'
  <2>1. \A k \in 1..Len(_recvQueue') :
            (k \in 1..Len(_recvQueue) /\ _recvQueue'[k] = _recvQueue[k]) \/ _recvQueue'[k] \in delayed'
    BY <1>1, <1>2
  <2>2. \A i, j \in 1..Len(_recvQueue') : i < j => (Before(_recvQueue[i], _recvQueue[j]))'
    BY <1>1, <1>2, <2>1 DEF Ordered, Before
  <2>3. \A i \in 1..Len(taken), j \in 1..Len(_recvQueue') : (Before(taken[i], _recvQueue[j]))'
    BY <1>1, <2>1 DEF Ordered, Before
  <2> QED
    BY <1>1, <2>2, <2>3 DEF Ordered, Before
<1> QED
  BY <1>1, <1>3, <1>4 DEF MapUpdate, LoginMeansNoPlayer

\* The packet in hand is done with.
LEMMA DoneStep ==
    ASSUME Typed, Ordered, phase = "handle", Done, UNCHANGED kinds
    PROVE  /\ Ordered'
           /\ packet' = NULL /\ phase' = "next"
           /\ _recvQueue' \in Seq(Received') /\ taken' \in Seq(Received')
<1>1. /\ phase' = "next" /\ packet' = NULL /\ taken' = Append(taken, packet)
      /\ UNCHANGED <<_recvQueue, delayed>>
  BY Zenon DEF Done, Dispose
<1>2. /\ Received' = Received /\ taken \in Seq(Received) /\ Len(taken) \in Nat /\ packet \in Received
      /\ taken' \in Seq(Received) /\ Len(taken') = Len(taken) + 1
      /\ \A k \in 1..Len(taken) : taken'[k] = taken[k]
      /\ taken'[Len(taken) + 1] = packet
      /\ _recvQueue' \in Seq(Received)
  BY <1>1 DEF Typed, Received
<1>3. \A k \in 1..Len(taken') : (k \in 1..Len(taken) /\ taken'[k] = taken[k]) \/ (k = Len(taken) + 1 /\ taken'[k] = packet)
  BY <1>2
<1>4. \A i, j \in 1..Len(taken') : i < j => (Before(taken[i], taken[j]))'
  BY <1>1, <1>2, <1>3 DEF Ordered, Before
<1>5. \A i \in 1..Len(taken'), j \in 1..Len(_recvQueue) : (Before(taken[i], _recvQueue[j]))'
  BY <1>1, <1>3, Zenon DEF Ordered, Before
<1>6. Ordered'
  BY <1>1, <1>4, <1>5, Zenon DEF Ordered, Before
<1> QED
  BY <1>1, <1>2, <1>6

LEMMA DropStep ==
    ASSUME PacketInv, Drop
    PROVE  PacketInv'
<1> USE DEF PacketInv
<1>1. phase = "handle" /\ Done /\ UNCHANGED <<kinds, updater, login, _player>>
  BY Zenon DEF Drop, state
<1> QED
  BY <1>1, DoneStep DEF Typed, MapUpdate, LoginMeansNoPlayer

\* A handler changes the player and the login; the login handler starts a query
\* only when there is no player, and no handler brings a player in meanwhile.
LEMMA HandleStep ==
    ASSUME PacketInv, Handle
    PROVE  /\ PacketInv'
           /\ updater = "map" => _player' = _player
<1> USE DEF PacketInv
<1> DEFINE kind == kinds[packet]
<1>1. phase = "handle" /\ Done /\ Expected(kind) /\ UNCHANGED <<kinds, updater>>
  BY Zenon DEF Handle
<1>2. kind \in AllKinds
  BY <1>1, KindsAssumption DEF Typed, Received
<1>3. \/ kind \in {"move", "chat", "cancel_trade", "never", "enum"} /\ UNCHANGED <<_player, login>>
      \/ kind = "areatrigger" /\ _player' \in {"world", "transfer"} /\ UNCHANGED login
      \/ kind = "logout" /\ _player' \in {_player, "none"} /\ UNCHANGED login
      \/ kind = "worldport" /\ _player' \in {"none", "world", "transfer"} /\ UNCHANGED login
      \/ kind = "login" /\ HandlePlayerLoginOpcode /\ UNCHANGED _player
  BY SMT DEF Handle, HandleLogoutRequestOpcode, HandleMoveWorldportAckOpcode, LogoutPlayer, state
<1>4. /\ kind = "areatrigger" => _player = "world"
      /\ kind = "worldport" => _player = "transfer"
  BY <1>1 DEF Expected, Status
<1> HIDE DEF kind
<1>5. _player' \in {"none", "world", "transfer"} /\ login' \in {"no", "query", "stuck"}
  BY <1>3 DEF Typed, HandlePlayerLoginOpcode
<1>6. LoginMeansNoPlayer'
  BY <1>3, <1>4 DEF Typed, LoginMeansNoPlayer, HandlePlayerLoginOpcode
<1>7. updater = "map" => _player' = _player
  BY <1>1, <1>3, Zenon DEF MapUpdate, kind
<1> QED
  BY <1>1, <1>5, <1>6, <1>7, DoneStep, Zenon DEF Typed, MapUpdate

\* The loop has ended; a player who was loaded comes in for a login query.
LEMMA CallbackStep ==
    ASSUME PacketInv, ProcessQueryCallbacks
    PROVE  PacketInv' /\ (_player' = "none" => _player = "none")
<1> USE DEF PacketInv
<1>1. /\ phase = "next" /\ phase' = IF updater = "map" THEN "idle" ELSE "finish"
      /\ UNCHANGED <<kinds, _recvQueue, taken, delayed, packet, updater>>
      /\ \/ UNCHANGED <<_player, login>>
         \/ login = "query" /\ login' = "no" /\ _player' \in {"none", "world", "transfer"}
  <2>1. /\ phase = "next" /\ phase' = IF updater = "map" THEN "idle" ELSE "finish"
        /\ UNCHANGED <<kinds, _recvQueue, taken, delayed, packet, updater>>
        /\ UNCHANGED <<_player, login>> \/ (login = "query" /\ HandlePlayerLogin)
    BY Zenon DEF ProcessQueryCallbacks, memory
  <2> QED
    BY <2>1 DEF HandlePlayerLogin
<1>2. Ordered'
  BY <1>1, OrderKept, Zenon
<1> QED
  BY <1>1, <1>2 DEF Typed, Received, MapUpdate, LoginMeansNoPlayer

\* The world's part of the update: the player may go, no one comes in.
LEMMA FinishStep ==
    ASSUME PacketInv, FinishUpdate
    PROVE  PacketInv' /\ updater = "world"
<1> USE DEF PacketInv
<1>1. /\ phase = "finish" /\ phase' = "idle"
      /\ UNCHANGED <<kinds, taken, delayed, packet, updater, login>>
      /\ _recvQueue' = _recvQueue \/ _recvQueue' = <<>>
      /\ _player' = _player \/ _player' = "none"
  BY Zenon DEF FinishUpdate, DestroySession, LogoutPlayer
<1>2. Typed'
  <2>1. _recvQueue' \in Seq(Received)
    <3>1. _recvQueue \in Seq(Received) /\ <<>> \in Seq(Received)
      BY DEF Typed
    <3> QED
      BY <1>1, <3>1, Zenon
  <2> QED
    BY <1>1, <2>1 DEF Typed, Received
<1>3. Ordered'
  <2>1. CASE UNCHANGED _recvQueue
    BY <1>1, <2>1, OrderKept
  <2>2. CASE _recvQueue' = <<>>
    <3>1. Len(_recvQueue') = 0
      BY <2>2
    <3>2. \A j : j \notin 1..Len(_recvQueue')
      BY <3>1
    <3> QED
      BY <1>1, <3>2 DEF Ordered, Before
  <2> QED
    BY <1>1, <2>1, <2>2
<1> QED
  BY <1>1, <1>2, <1>3 DEF MapUpdate, LoginMeansNoPlayer, Typed

LEMMA PacketInvInit == PacketInit => PacketInv
<1> SUFFICES ASSUME PacketInit PROVE PacketInv
  OBVIOUS
<1>1. /\ kinds = <<>> /\ _recvQueue = <<>> /\ taken = <<>> /\ packet = NULL /\ phase = "idle"
      /\ updater = "world" /\ _player = "none" /\ login = "no"
  BY Zenon DEF PacketInit
<1> QED
  BY <1>1 DEF PacketInv, Typed, Ordered, MapUpdate, LoginMeansNoPlayer, Received

LEMMA PacketInvStep == PacketInv /\ [PacketNext]_packetVars => PacketInv'
<1> SUFFICES ASSUME PacketInv, [PacketNext]_packetVars PROVE PacketInv'
  OBVIOUS
<1>1. CASE UNCHANGED packetVars
  <2>1. UNCHANGED <<kinds, _recvQueue, taken, delayed, packet, phase, updater, _player, login>>
    BY <1>1, Zenon DEF packetVars, state, local, memory
  <2>2. Ordered'
    BY <2>1, OrderKept DEF PacketInv
  <2> QED
    BY <2>1, <2>2 DEF PacketInv, Typed, Received, MapUpdate, LoginMeansNoPlayer
<1> QED
  BY <1>1, QueueStep, AroundStep, BeginStep, NextStep, DelayStep, DropStep, HandleStep,
     CallbackStep, FinishStep, Zenon
     DEF PacketNext, UpdateStep

LEMMA PacketInductive == PacketSpec => []PacketInv
  BY PacketInvInit, PacketInvStep, PTL DEF PacketSpec

-----------------------------------------------------------------------------
(* Where a packet is *)

\* The places of OnePlace, one by one: a packet is in at least one, and in no
\* two. Only the loop that handles a packet has it in hand.
NoneTwice(q) == \A i, j \in 1..Len(q) : i # j => q[i] # q[j]

Placed ==
    /\ NoneTwice(_recvQueue)
    /\ freed \subseteq Received /\ leaked \subseteq Received
    /\ packet # NULL => phase = "handle"
    /\ \A p \in Received : p \in Queued \/ p = packet \/ p \in freed \/ p \in leaked
    /\ packet \notin Queued \cup freed \cup leaked
    /\ Queued \cap (freed \cup leaked) = {} /\ freed \cap leaked = {}

\* Steps that move no packet.
LEMMA PlacesKept ==
    ASSUME Placed, UNCHANGED <<kinds, _recvQueue, packet, freed, leaked>>,
           packet' # NULL => phase' = "handle"
    PROVE  Placed'
  BY DEF Placed, NoneTwice, Queued, Received

\* A packet that arrives has a number that is nowhere yet.
LEMMA QueuePlaces ==
    ASSUME Typed, Placed, NEW kind \in Kinds, QueuePacket(kind)
    PROVE  Placed'
<1> DEFINE new == Len(kinds) + 1
<1>1. /\ kinds' = Append(kinds, kind) /\ _recvQueue' = Append(_recvQueue, Len(kinds'))
      /\ UNCHANGED <<packet, phase, freed, leaked>>
  BY DEF QueuePacket, local, memory
<1>2. /\ Len(kinds) \in Nat /\ Len(kinds') = new /\ Received' = Received \cup {new} /\ new \notin Received
      /\ new # NULL /\ NULL \notin Received
  BY <1>1 DEF Typed, Received, NULL
<1>3. /\ Len(_recvQueue) \in Nat /\ Len(_recvQueue') = Len(_recvQueue) + 1
      /\ _recvQueue'[Len(_recvQueue) + 1] = new
      /\ \A k \in 1..Len(_recvQueue) : _recvQueue'[k] = _recvQueue[k] /\ _recvQueue[k] \in Received
  <2>1. _recvQueue' = Append(_recvQueue, new) /\ _recvQueue \in Seq(Received)
    BY <1>1, <1>2 DEF Typed
  <2> QED
    BY <2>1
<1>4. Queued' = Queued \cup {new} /\ Queued \subseteq Received
  BY <1>3 DEF Queued
<1>5. NoneTwice(_recvQueue')
  BY <1>2, <1>3 DEF Placed, NoneTwice
<1> HIDE DEF new
<1> QED
  BY <1>1, <1>2, <1>4, <1>5 DEF Placed, Typed

\* LockedQueue::next moves the head of the queue into the hand.
LEMMA NextPlaces ==
    ASSUME Typed, Placed, NextPacket
    PROVE  Placed'
<1>1. /\ packet' = Head(_recvQueue) /\ _recvQueue' = Tail(_recvQueue) /\ phase' = "handle" /\ phase = "next"
      /\ _recvQueue # <<>>
      /\ UNCHANGED <<kinds, freed, leaked>>
  BY Zenon DEF NextPacket, HasNext, memory
<1>2. /\ Received' = Received /\ Len(_recvQueue) \in Nat \ {0}
      /\ packet' = _recvQueue[1] /\ Len(_recvQueue') = Len(_recvQueue) - 1
      /\ \A k \in 1..Len(_recvQueue') : _recvQueue'[k] = _recvQueue[k + 1] /\ k + 1 \in 1..Len(_recvQueue)
  BY <1>1 DEF Typed, Received
<1>3. NoneTwice(_recvQueue') /\ packet' \notin Queued'
  BY <1>2 DEF Placed, NoneTwice, Queued
<1>4. Queued = Queued' \cup {packet'}
  <2>1. \A k \in 1..Len(_recvQueue) : k = 1 \/ (k - 1 \in 1..Len(_recvQueue') /\ _recvQueue[k] = _recvQueue'[k - 1])
    BY <1>2
  <2> QED
    BY <1>2, <2>1 DEF Queued
<1>5. packet = NULL /\ NULL \notin Received
  BY <1>1 DEF Placed, Received, NULL
<1> QED
  BY <1>1, <1>2, <1>3, <1>4, <1>5 DEF Placed

\* A packet put off goes from the hand back into the queue.
LEMMA DelayPlaces ==
    ASSUME Typed, Placed, Delay
    PROVE  Placed'
<1>1. /\ phase = "handle" /\ packet' = NULL /\ _recvQueue' = Append(_recvQueue, packet)
      /\ UNCHANGED <<kinds, freed, leaked>>
  BY Zenon DEF Delay
<1>2. /\ Received' = Received /\ Len(_recvQueue) \in Nat /\ packet \in Received /\ NULL \notin Received
      /\ Len(_recvQueue') = Len(_recvQueue) + 1
      /\ \A k \in 1..Len(_recvQueue) : _recvQueue'[k] = _recvQueue[k] /\ _recvQueue[k] \in Received
      /\ _recvQueue'[Len(_recvQueue) + 1] = packet
  BY <1>1 DEF Typed, Received, NULL
<1>3. Queued' = Queued \cup {packet} /\ Queued \subseteq Received
  BY <1>2 DEF Queued
<1>4. NoneTwice(_recvQueue')
  <2>1. \A k \in 1..Len(_recvQueue) : _recvQueue[k] # packet
    BY DEF Placed, Queued
  <2> QED
    BY <1>2, <2>1 DEF Placed, NoneTwice
<1> QED
  BY <1>1, <1>2, <1>3, <1>4 DEF Placed

\* A packet that is done with is deleted, or forgotten where an earlier packet
\* was put off.
LEMMA DonePlaces ==
    ASSUME Typed, Placed, phase = "handle", Done, UNCHANGED kinds
    PROVE  Placed'
<1>1. /\ packet' = NULL /\ UNCHANGED _recvQueue
      /\ \/ freed' = freed \cup {packet} /\ leaked' = leaked
         \/ leaked' = leaked \cup {packet} /\ freed' = freed
  BY DEF Done, Dispose
<1>2. Received' = Received /\ packet \in Received /\ NULL \notin Received /\ Queued' = Queued
  BY <1>1 DEF Typed, Received, NULL, Queued
<1>3. Queued \subseteq Received
  BY DEF Typed, Queued
<1> QED
  BY <1>1, <1>2, <1>3 DEF Placed

\* ~WorldSession deletes what is still in the queue.
LEMMA FinishPlaces ==
    ASSUME Typed, Placed, FinishUpdate
    PROVE  Placed'
<1>1. /\ phase = "finish" /\ UNCHANGED <<kinds, packet, leaked>>
      /\ \/ freed' = freed \cup Queued /\ _recvQueue' = <<>>
         \/ UNCHANGED <<freed, _recvQueue>>
  BY Zenon DEF FinishUpdate, DestroySession
<1>2. CASE UNCHANGED <<freed, _recvQueue>>
  BY <1>1, <1>2, PlacesKept DEF Placed
<1>3. CASE freed' = freed \cup Queued /\ _recvQueue' = <<>>
  <2>1. Queued' = {} /\ NoneTwice(_recvQueue')
    <3>1. Len(_recvQueue') = 0
      BY <1>3
    <3>2. \A k : k \notin 1..Len(_recvQueue')
      BY <3>1
    <3> QED
      BY <3>2 DEF Queued, NoneTwice
  <2>2. Queued \subseteq Received /\ Received' = Received
    BY <1>1 DEF Typed, Queued, Received
  <2>3. packet = NULL /\ packet' = NULL /\ NULL \notin Received
    BY <1>1 DEF Placed, Received, NULL
  <2> QED
    BY <1>1, <1>3, <2>1, <2>2, <2>3, Zenon DEF Placed
<1> QED
  BY <1>1, <1>2, <1>3

LEMMA PlacesInit == PacketInit => Placed
<1> SUFFICES ASSUME PacketInit PROVE Placed
  OBVIOUS
<1>1. kinds = <<>> /\ _recvQueue = <<>> /\ packet = NULL /\ freed = {} /\ leaked = {}
  BY Zenon DEF PacketInit
<1>2. Len(kinds) = 0 /\ Len(_recvQueue) = 0
  BY <1>1
<1> QED
  BY <1>1, <1>2 DEF Placed, NoneTwice, Queued, Received

LEMMA PlacesStep == PacketInv /\ Placed /\ [PacketNext]_packetVars => Placed'
<1> SUFFICES ASSUME Typed, Placed, [PacketNext]_packetVars PROVE Placed'
  BY DEF PacketInv
<1>1. ASSUME CloseSession \/ LeaveQueue \/ TeleportTo \/ DeleteAccount \/ UNCHANGED packetVars
      PROVE  Placed'
  <2>1. UNCHANGED <<kinds, _recvQueue, packet, freed, leaked, phase>>
    BY <1>1, Zenon DEF CloseSession, LeaveQueue, TeleportTo, DeleteAccount, packetVars, local, memory
  <2> QED
    BY <2>1, PlacesKept DEF Placed
<1>2. ASSUME ProcessQueryCallbacks \/ \E who \in {"world", "map"} : Update(who)
      PROVE  Placed'
  <2>1. UNCHANGED <<kinds, _recvQueue, packet, freed, leaked>> /\ phase \in {"next", "idle"}
    BY <1>2, Zenon DEF ProcessQueryCallbacks, Update, memory
  <2> QED
    BY <2>1, PlacesKept DEF Placed
<1>3. ASSUME Drop \/ Handle
      PROVE  Placed'
  <2>1. phase = "handle" /\ Done /\ UNCHANGED kinds
    BY <1>3, Zenon DEF Drop, Handle
  <2> QED
    BY <2>1, DonePlaces
<1> QED
  BY <1>1, <1>2, <1>3, QueuePlaces, NextPlaces, DelayPlaces, FinishPlaces, Zenon DEF PacketNext, UpdateStep

LEMMA PlacesInductive == PacketSpec => []Placed
  BY PacketInductive, PlacesInit, PlacesStep, PTL DEF PacketSpec

-----------------------------------------------------------------------------
(* The theorems *)

\* A packet is overtaken only if it was put off: neither the two filters nor
\* packets that arrive during an update reorder the others
\* (WorldSession.cpp:208-376, LockedQueue.h:67-94).
THEOREM OvertakenCorrect == PacketSpec => []OvertakenOnlyIfDelayed
<1>1. PacketInv => OvertakenOnlyIfDelayed
  <2> SUFFICES ASSUME PacketInv, NEW i \in 1..Len(taken), NEW j \in 1..Len(taken), i < j, taken[j] < taken[i]
               PROVE  taken[j] \in delayed
    BY DEF OvertakenOnlyIfDelayed
  <2>1. taken[i] \in Nat /\ taken[j] \in Nat
    BY DEF PacketInv, Typed, Received
  <2> QED
    BY <2>1 DEF PacketInv, Ordered, Before
<1> QED
  BY <1>1, PacketInductive, PTL

\* No login query is under way while the session has a player
\* (CharacterHandler.cpp:673-713).
THEOREM LoginMeansNoPlayerCorrect == PacketSpec => []LoginMeansNoPlayer
  BY PacketInductive, PTL DEF PacketInv

\* Every packet that arrived is in one place, whatever is put off, taken by the
\* other thread or dropped, and until the session is deleted: no packet is
\* deleted twice, or while it waits in the queue (WorldSession.cpp:208-376).
THEOREM OnePlaceCorrect == PacketSpec => []OnePlace
<1>1. Typed /\ Placed => OnePlace
  <2> SUFFICES ASSUME Typed, Placed PROVE OnePlace
    OBVIOUS
  <2>1. Cardinality(Queued) = Len(_recvQueue)
    <3>1. Len(_recvQueue) \in Nat /\ _recvQueue \in [1..Len(_recvQueue) -> Queued]
      BY DEF Typed, Queued
    <3>2. _recvQueue \in Bijection(1..Len(_recvQueue), Queued)
      BY <3>1 DEF Placed, NoneTwice, Queued, Bijection, Injection, Surjection, IsInjective
    <3>3. ExistsBijection(1..Len(_recvQueue), Queued)
      BY <3>2 DEF ExistsBijection
    <3> QED
      BY <3>1, <3>3, FS_CountingElements, Zenon
  <2>2. ASSUME NEW p \in Received
        PROVE  Cardinality({place \in {"queue", "hand", "freed", "leaked"} :
                   \/ place = "queue" /\ p \in Queued
                   \/ place = "hand" /\ p = packet
                   \/ place = "freed" /\ p \in freed
                   \/ place = "leaked" /\ p \in leaked}) = 1
    <3> DEFINE places == {place \in {"queue", "hand", "freed", "leaked"} :
                             \/ place = "queue" /\ p \in Queued
                             \/ place = "hand" /\ p = packet
                             \/ place = "freed" /\ p \in freed
                             \/ place = "leaked" /\ p \in leaked}
    <3>1. \E place : places = {place}
      <4>1. CASE p \in Queued
        BY <4>1 DEF Placed
      <4>2. CASE p = packet
        BY <4>2 DEF Placed
      <4>3. CASE p \in freed
        BY <4>3 DEF Placed
      <4>4. CASE p \in leaked
        BY <4>4, Zenon DEF Placed
      <4> QED
        BY <4>1, <4>2, <4>3, <4>4, Zenon DEF Placed
    <3> HIDE DEF places
    <3>2. Cardinality(places) = 1
      BY <3>1, FS_Singleton, Zenon
    <3> QED
      BY <3>2 DEF places
  <2> QED
    BY <2>1, <2>2 DEF OnePlace
<1> QED
  BY <1>1, PacketInductive, PlacesInductive, PTL DEF PacketInv

MapStep == updater = "map" /\ phase # "idle" => (_player' = "none" => _player = "none")

\* A player does not go away under the map update that is running: the filter of
\* the map thread lets no packet through whose handler logs out
\* (WorldSession.cpp:31-49).
THEOREM MapKeepsPlayerCorrect == PacketSpec => MapKeepsPlayer
<1>1. PacketInv /\ [PacketNext]_packetVars => [MapStep]_packetVars
  <2> SUFFICES ASSUME PacketInv, PacketNext, updater = "map", phase # "idle", _player' = "none" PROVE _player = "none"
    BY DEF MapStep
  <2>1. CASE Handle
    BY <2>1, HandleStep
  <2>2. CASE ProcessQueryCallbacks
    BY <2>2, CallbackStep
  <2>3. CASE FinishUpdate
    BY <2>3, FinishStep
  <2>4. ~TeleportTo /\ ~DeleteAccount
    BY DEF TeleportTo, DeleteAccount
  <2>5. CASE UNCHANGED _player
    BY <2>5
  <2>6. \/ \E kind \in Kinds : QueuePacket(kind)
        \/ CloseSession \/ LeaveQueue \/ NextPacket \/ Delay \/ Drop
        \/ \E who \in {"world", "map"} : Update(who)
        => UNCHANGED _player
    BY Zenon DEF QueuePacket, CloseSession, LeaveQueue, NextPacket, Delay, Drop, Update, state
  <2> QED
    BY <2>1, <2>2, <2>3, <2>4, <2>5, <2>6, Zenon DEF PacketNext, UpdateStep
<1>2. PacketSpec => [][MapStep]_packetVars
  BY <1>1, PacketInductive, PTL DEF PacketSpec
<1> QED
  BY <1>2 DEF MapKeepsPlayer, MapStep

-----------------------------------------------------------------------------
(* LoginQueue *)

Distinct(q) == \A j, k \in 1..Len(q) : q[j] = q[k] => j = k

\* What stays of q in r stays in its order, and nobody is passed over but s.
Kept(q, r, s) ==
    \A j, k \in 1..Len(q) :
        j < k /\ q[j] \in Elems(r) /\ q[k] # s
            => \E m, n \in 1..Len(r) : m < n /\ r[m] = q[j] /\ r[n] = q[k]

-----------------------------------------------------------------------------
(* The operations on the queue *)

\* erase takes one pointer out of a list that holds it at most once.
LEMMA EraseFacts ==
    ASSUME NEW q \in Seq(Session), Distinct(q), NEW s
    PROVE  /\ erase(q, s) \in Seq(Session)
           /\ Distinct(erase(q, s))
           /\ Elems(erase(q, s)) = Elems(q) \ {s}
           /\ Kept(q, erase(q, s), s)
<1>1. CASE s \notin Elems(q)
  BY <1>1 DEF erase, Elems, Kept
<1>2. CASE s \in Elems(q)
  <2> DEFINE First(k) == q[k] = s /\ \A j \in 1..(k - 1) : q[j] # s
             at == CHOOSE k \in 1..Len(q) : First(k)
             r  == [k \in 1..(Len(q) - 1) |-> IF k < at THEN q[k] ELSE q[k + 1]]
  <2>1. \E k \in 1..Len(q) : First(k)
    BY <1>2 DEF Elems, Distinct
  <2>2. at \in 1..Len(q) /\ q[at] = s
    BY <2>1
  <2>3. erase(q, s) = r
    BY <1>2 DEF erase
  <2> HIDE DEF First, at
  <2>4. Len(q) \in Nat /\ Len(q) - 1 \in Nat /\ \A k \in 1..Len(q) : q[k] \in Session
    BY <2>2
  <2>5. r \in Seq(Session) /\ Len(r) = Len(q) - 1
    BY <2>2, <2>4
  <2>6. \A k \in 1..Len(r) : r[k] = IF k < at THEN q[k] ELSE q[k + 1]
    BY <2>5, Zenon
  <2> HIDE DEF r
  <2>7. Distinct(r)
    <3> SUFFICES ASSUME NEW j \in 1..Len(r), NEW k \in 1..Len(r), r[j] = r[k] PROVE j = k
      BY Zenon DEF Distinct
    <3>1. PICK m \in 1..Len(q) : m = (IF j < at THEN j ELSE j + 1) /\ r[j] = q[m]
      BY <2>2, <2>4, <2>5, <2>6
    <3>2. PICK n \in 1..Len(q) : n = (IF k < at THEN k ELSE k + 1) /\ r[k] = q[n]
      BY <2>2, <2>4, <2>5, <2>6
    <3>3. m = n
      BY <3>1, <3>2, Zenon DEF Distinct
    <3> QED
      BY <2>2, <2>4, <2>5, <3>1, <3>2, <3>3
  <2>8. \A k \in 1..Len(q) : k # at =>
            \E m \in 1..Len(r) : r[m] = q[k] /\ m = IF k < at THEN k ELSE k - 1
    BY <2>2, <2>4, <2>5, <2>6
  <2>9. Elems(r) = Elems(q) \ {s}
    <3>1. ASSUME NEW k \in 1..Len(r) PROVE r[k] \in Elems(q) \ {s}
      BY <2>2, <2>4, <2>5, <2>6 DEF Elems, Distinct
    <3>2. ASSUME NEW k \in 1..Len(q), q[k] # s PROVE q[k] \in Elems(r)
      BY <2>2, <2>8, <3>2, Zenon DEF Elems
    <3> QED
      BY <3>1, <3>2, Zenon DEF Elems
  <2>10. Kept(q, r, s)
    <3> SUFFICES ASSUME NEW j \in 1..Len(q), NEW k \in 1..Len(q), j < k, q[j] \in Elems(r), q[k] # s
                 PROVE  \E m, n \in 1..Len(r) : m < n /\ r[m] = q[j] /\ r[n] = q[k]
      BY DEF Kept
    <3>1. j # at /\ k # at
      BY <2>2, <2>9, Zenon
    <3>2. PICK m \in 1..Len(r) : r[m] = q[j] /\ m = IF j < at THEN j ELSE j - 1
      BY <2>8, <3>1, Zenon
    <3>3. PICK n \in 1..Len(r) : r[n] = q[k] /\ n = IF k < at THEN k ELSE k - 1
      BY <2>8, <3>1, Zenon
    <3>4. m < n
      BY <2>2, <3>1, <3>2, <3>3
    <3> QED
      BY <3>2, <3>3, <3>4, Zenon
  <2> QED
    BY <2>3, <2>5, <2>7, <2>9, <2>10, Zenon
<1> QED
  BY <1>1, <1>2, Zenon

LEMMA HeadFacts ==
    ASSUME NEW q \in Seq(Session), q # <<>>
    PROVE  Head(q) \in Elems(q) /\ Head(q) \in Session
<1>1. Head(q) = q[1] /\ 1 \in 1..Len(q)
  OBVIOUS
<1> QED
  BY <1>1 DEF Elems

\* pop_front takes the first session only.
LEMMA TailFacts ==
    ASSUME NEW q \in Seq(Session), q # <<>>, Distinct(q), NEW s
    PROVE  /\ Tail(q) \in Seq(Session)
           /\ Head(q) \in Session
           /\ Distinct(Tail(q))
           /\ Elems(Tail(q)) = Elems(q) \ {Head(q)}
           /\ Kept(q, Tail(q), s)
<1> DEFINE r == Tail(q)
<1>1. /\ r \in Seq(Session) /\ Len(r) = Len(q) - 1 /\ Len(q) \in Nat \ {0}
      /\ Head(q) = q[1] /\ q[1] \in Session
  OBVIOUS
<1>2. \A k \in 1..Len(r) : r[k] = q[k + 1]
  BY <1>1
<1> HIDE DEF r
<1>3. Distinct(r)
  BY <1>1, <1>2 DEF Distinct
<1>4. \A k \in 1..Len(q) : k # 1 => k - 1 \in 1..Len(r) /\ r[k - 1] = q[k]
  BY <1>1, <1>2
<1>5. Elems(r) = Elems(q) \ {q[1]}
  <2>1. ASSUME NEW k \in 1..Len(r) PROVE r[k] \in Elems(q) \ {q[1]}
    <3>1. k + 1 \in 1..Len(q) /\ 1 \in 1..Len(q) /\ k + 1 # 1
      BY <1>1
    <3> QED
      BY <1>2, <3>1 DEF Elems, Distinct
  <2>2. ASSUME NEW k \in 1..Len(q), q[k] # q[1] PROVE q[k] \in Elems(r)
    BY <1>4, <2>2, Zenon DEF Elems
  <2> QED
    BY <2>1, <2>2, Zenon DEF Elems
<1>6. Kept(q, r, s)
  <2> SUFFICES ASSUME NEW j \in 1..Len(q), NEW k \in 1..Len(q), j < k, q[j] \in Elems(r)
               PROVE  \E m, n \in 1..Len(r) : m < n /\ r[m] = q[j] /\ r[n] = q[k]
    BY DEF Kept
  <2>1. j # 1 /\ k # 1 /\ j - 1 < k - 1
    BY <1>5
  <2> QED
    BY <1>4, <2>1, Zenon
<1> QED
  BY <1>1, <1>3, <1>5, <1>6 DEF r

\* Passing over nobody but s is kept by two operations in a row.
LEMMA KeptTwice ==
    ASSUME NEW p, NEW q, NEW r, NEW s,
           Kept(p, q, s), Kept(q, r, s), Elems(r) \subseteq Elems(q)
    PROVE  Kept(p, r, s)
<1> SUFFICES ASSUME NEW j \in 1..Len(p), NEW k \in 1..Len(p), j < k, p[j] \in Elems(r), p[k] # s
             PROVE  \E m, n \in 1..Len(r) : m < n /\ r[m] = p[j] /\ r[n] = p[k]
  BY Zenon DEF Kept
<1>1. PICK m, n \in 1..Len(q) : m < n /\ q[m] = p[j] /\ q[n] = p[k]
  BY Zenon DEF Kept
<1> QED
  BY <1>1 DEF Kept

\* What World::RemoveQueuedPlayer leaves of the queue q and of the flags.
Removed(q, flags, r, f, s) ==
    /\ r \in Seq(Session) /\ Distinct(r)
    /\ Elems(r) \subseteq Elems(q) \ {s}
    /\ f \subseteq flags
    /\ flags = Elems(q) => f = Elems(r)
    /\ Kept(q, r, s)

LEMMA RemoveFacts ==
    ASSUME NEW q \in Seq(Session), Distinct(q), NEW flags, NEW s, NEW size, NEW found,
           NEW st, st = [size |-> size, queue |-> q, flags |-> flags, found |-> found]
    PROVE  LET after == RemoveQueuedPlayer(st, s)
           IN  /\ Removed(q, flags, after.queue, after.flags, s)
               /\ after = [size |-> size, queue |-> after.queue, flags |-> after.flags, found |-> after.found]
<1> DEFINE isIn == s \in Elems(st.queue)
           rest == erase(st.queue, s)
           pop  == Room(st, isIn) /\ rest # <<>>
           r    == IF pop THEN Tail(rest) ELSE rest
           f    == flags \ ((IF isIn THEN {s} ELSE {}) \cup (IF pop THEN {Head(rest)} ELSE {}))
<1>1. /\ RemoveQueuedPlayer(st, s) = [st EXCEPT !.queue = r, !.flags = f, !.found = isIn]
      /\ st.queue = q /\ st.flags = flags
  BY DEF RemoveQueuedPlayer
<1>2. /\ rest \in Seq(Session) /\ Distinct(rest) /\ Elems(rest) = Elems(q) \ {s}
      /\ Kept(q, rest, s)
  BY <1>1, EraseFacts
<1>3. RemoveQueuedPlayer(st, s) = [size |-> size, queue |-> r, flags |-> f, found |-> isIn]
  BY <1>1, Zenon
<1> HIDE DEF rest
<1>4. Removed(q, flags, r, f, s)
  <2>1. CASE pop
    <3>1. /\ Tail(rest) \in Seq(Session) /\ Distinct(Tail(rest))
          /\ Elems(Tail(rest)) = Elems(rest) \ {Head(rest)} /\ Kept(rest, Tail(rest), s)
      BY <1>2, <2>1, TailFacts, Zenon
    <3>2. Kept(q, Tail(rest), s)
      BY <1>2, <3>1, KeptTwice, Zenon
    <3>3. f = flags \ ((IF isIn THEN {s} ELSE {}) \cup {Head(rest)}) /\ r = Tail(rest)
      BY <2>1
    <3>4. flags = Elems(q) => f = Elems(Tail(rest))
      BY <1>1, <1>2, <3>1, <3>3, Zenon
    <3> HIDE DEF f, r
    <3> QED
      BY <1>2, <3>1, <3>2, <3>3, <3>4, Zenon DEF Removed
  <2>2. CASE ~pop
    <3>1. f = flags \ (IF isIn THEN {s} ELSE {}) /\ r = rest
      BY <2>2
    <3>2. flags = Elems(q) => f = Elems(rest)
      BY <1>1, <1>2, <3>1, Zenon
    <3> HIDE DEF f, r
    <3> QED
      BY <1>2, <3>1, <3>2, Zenon DEF Removed
  <2> QED
    BY <2>1, <2>2, Zenon
<1> HIDE DEF isIn, r, f
<1>5. /\ RemoveQueuedPlayer(st, s).queue = r
      /\ RemoveQueuedPlayer(st, s).flags = f
      /\ RemoveQueuedPlayer(st, s).found = isIn
  BY <1>3
<1> QED
  BY <1>3, <1>4, <1>5

-----------------------------------------------------------------------------
(* The invariant *)

IInv ==
    /\ TypeOK
    /\ NoDanglingSession
    /\ FlagMatchesQueue
    /\ Distinct(addSessQueue)

\* What DropSession does to the queue, by its two calls.
LEMMA DropFacts ==
    ASSUME IInv, NEW a \in Account, DropSession(a)
    PROVE  \E f : /\ Removed(m_QueuedPlayer, inQueue, m_QueuedPlayer', f, m_sessions[a])
                  /\ inQueue' = f \ {m_sessions[a]}
<1> DEFINE s == m_sessions[a]
           first == RemoveQueuedPlayer(Lists, s)
           second == RemoveQueuedPlayer(first, s)
<1>1. m_QueuedPlayer \in Seq(Session) /\ Distinct(m_QueuedPlayer)
  BY Zenon DEF IInv, TypeOK, NoDanglingSession, Distinct
<1>2. /\ Removed(m_QueuedPlayer, inQueue, first.queue, first.flags, s)
      /\ first = [size |-> Cardinality(Online), queue |-> first.queue, flags |-> first.flags, found |-> first.found]
  BY <1>1, RemoveFacts DEF Lists
<1>3. m_QueuedPlayer' = second.queue /\ inQueue' = second.flags \ {s}
  BY Zenon DEF DropSession
<1> HIDE DEF first, s
<1>4. Removed(first.queue, first.flags, second.queue, second.flags, s)
  <2>1. first.queue \in Seq(Session) /\ Distinct(first.queue)
    BY <1>2, Zenon DEF Removed
  <2> QED
    BY <1>2, <2>1, RemoveFacts, Zenon
<1> HIDE DEF second
<1>5. Removed(m_QueuedPlayer, inQueue, second.queue, second.flags, s)
  <2>1. Kept(m_QueuedPlayer, second.queue, s)
    BY <1>2, <1>4, KeptTwice, Zenon DEF Removed
  <2> QED
    BY <1>2, <1>4, <2>1, Zenon DEF Removed
<1> QED
  BY <1>3, <1>5, Zenon DEF s

\* What AcceptSession does to the queue: the account's old session is taken out
\* of it, then the new one may be put at its end.
LEMMA AcceptFacts ==
    ASSUME IInv, AcceptSession
    PROVE  LET s == Head(addSessQueue)
               old == m_sessions[account[s]]
           IN  \E q, f : /\ Removed(m_QueuedPlayer, inQueue, q, f, old)
                         /\ \/ m_QueuedPlayer' = q /\ inQueue' = f \ {old}
                            \/ m_QueuedPlayer' = Append(q, s) /\ inQueue' = (f \ {old}) \cup {s}
<1> DEFINE s == Head(addSessQueue)
           a == account[s]
           old == m_sessions[a]
           st == IF old = None THEN Lists ELSE RemoveQueuedPlayer(Lists, old)
           full == MustQueue(a, Cardinality(Online \cup {a}), ~st.found)
<1>1. m_QueuedPlayer \in Seq(Session) /\ Distinct(m_QueuedPlayer)
  BY DEF IInv, TypeOK, NoDanglingSession, Distinct
<1>2. /\ m_QueuedPlayer' = IF full THEN Append(st.queue, s) ELSE st.queue
      /\ inQueue' = (st.flags \ {old}) \cup (IF full THEN {s} ELSE {})
  BY Zenon DEF AcceptSession
<1>3. Removed(m_QueuedPlayer, inQueue, st.queue, st.flags, old)
  <2>1. CASE old = None
    <3>1. st.queue = m_QueuedPlayer /\ st.flags = inQueue
      BY <2>1, Zenon DEF Lists
    <3>2. old \notin Elems(m_QueuedPlayer)
      BY <1>1, <2>1, LoginAssumption DEF Elems
    <3>3. Kept(m_QueuedPlayer, m_QueuedPlayer, old)
      BY <1>1, Zenon DEF Kept
    <3> HIDE DEF st, old
    <3> QED
      BY <1>1, <3>1, <3>2, <3>3, Zenon DEF Removed
  <2>2. CASE old # None
    <3>1. st = RemoveQueuedPlayer(Lists, old)
      BY <2>2
    <3> HIDE DEF st, old
    <3> QED
      BY <1>1, <3>1, RemoveFacts, Zenon DEF Lists
  <2> QED
    BY <2>1, <2>2, Zenon
<1> HIDE DEF st, full
<1> QED
  BY <1>2, <1>3, Zenon

LEMMA InvInit == Init => IInv
<1> SUFFICES ASSUME Init PROVE IInv
  OBVIOUS
<1>1. stopping \in BOOLEAN
  BY Zenon DEF Init
<1>2. TypeOK
  BY <1>1, LoginAssumption DEF Init, TypeOK
<1>3. NoDanglingSession /\ FlagMatchesQueue /\ Distinct(addSessQueue)
  BY DEF Init, NoDanglingSession, FlagMatchesQueue, Distinct, Elems, Online
<1> QED
  BY <1>2, <1>3 DEF IInv

LEMMA RegisteredType ==
    ASSUME IInv, NEW x \in Elems(m_QueuedPlayer)
    PROVE  x \in Session /\ account[x] \in Account /\ m_sessions[account[x]] = x
<1>1. x \in Session
  BY DEF IInv, TypeOK, Elems
<1> QED
  BY <1>1, Zenon DEF IInv, TypeOK, NoDanglingSession

\* A session appended to a list it is not in is listed once, as are the others.
LEMMA AppendedOnce ==
    ASSUME NEW q \in Seq(Session), Distinct(q), NEW s \in Session, s \notin Elems(q)
    PROVE  /\ Append(q, s) \in Seq(Session) /\ Distinct(Append(q, s))
           /\ Elems(Append(q, s)) = Elems(q) \cup {s}
<1>1. PICK n \in Nat : n = Len(q)
  OBVIOUS
<1>2. PICK r : r = Append(q, s)
  BY Zenon
<1>3. /\ r \in Seq(Session) /\ Len(r) = n + 1 /\ r[n + 1] = s
      /\ \A k \in 1..n : r[k] = q[k] /\ r[k] # s
  BY <1>1, <1>2 DEF Elems
<1>4. \A k \in 1 .. n + 1 : k \in 1..n \/ k = n + 1
  OBVIOUS
<1>5. Distinct(r)
  BY <1>1, <1>3, <1>4 DEF Distinct
<1>6. Elems(r) = Elems(q) \cup {s}
  BY <1>1, <1>3, <1>4 DEF Elems
<1> QED
  BY <1>2, <1>3, <1>5, <1>6, Zenon

\* The network threads: a session object that is not allocated is in no list.
LEMMA InvAddSession ==
    ASSUME IInv, NEW s \in Session, NEW a \in Account, AddSession(s, a)
    PROVE  IInv'
<1> USE DEF IInv
<1>1. /\ account[s] = None /\ account' = [account EXCEPT ![s] = a]
      /\ addSessQueue' = Append(addSessQueue, s)
      /\ open' = open \cup {s}
      /\ UNCHANGED <<pc, stopping, todo, m_sessions, m_QueuedPlayer, m_disconnects, m_playerLimit, inQueue, loading>>
  BY Zenon DEF AddSession, worldVars
<1>2. \A b \in Account : m_sessions[b] # s
  BY <1>1, LoginAssumption DEF NoDanglingSession, Online, TypeOK
<1>3. s \notin Elems(addSessQueue) /\ s \notin Elems(m_QueuedPlayer)
  BY <1>1, Zenon DEF NoDanglingSession
<1>4. /\ addSessQueue' \in Seq(Session) /\ Distinct(addSessQueue')
      /\ Elems(addSessQueue') = Elems(addSessQueue) \cup {s}
  <2>1. addSessQueue \in Seq(Session) /\ Distinct(addSessQueue)
    BY Zenon DEF TypeOK
  <2> QED
    BY <1>1, <1>3, <2>1, AppendedOnce, Zenon
<1>5. TypeOK'
  BY <1>1 DEF TypeOK
<1>6. Distinct(addSessQueue)'
  BY <1>4, Zenon DEF Distinct
<1>7. FlagMatchesQueue'
  BY <1>1, Zenon DEF FlagMatchesQueue, Elems
<1>8. NoDanglingSession'
  <2>1. \A b \in Online' : account'[m_sessions'[b]] = b
    BY <1>1, <1>2 DEF NoDanglingSession, Online, TypeOK
  <2>2. \A x \in Elems(m_QueuedPlayer') : account'[x] # None /\ m_sessions'[account'[x]] = x
    <3> SUFFICES ASSUME NEW x \in Elems(m_QueuedPlayer) PROVE account'[x] # None /\ m_sessions'[account'[x]] = x
      BY <1>1, Zenon
    <3>1. x \in Session /\ account[x] \in Account /\ m_sessions[account[x]] = x
      BY RegisteredType, Zenon
    <3>2. x # s
      BY <1>3, Zenon
    <3>3. account'[x] = account[x] /\ m_sessions' = m_sessions
      BY <1>1, <3>1, <3>2 DEF TypeOK
    <3> QED
      BY <3>1, <3>3, LoginAssumption, Zenon
  <2>3. \A x \in Elems(addSessQueue') : account'[x] # None /\ m_sessions'[account'[x]] # x
    <3> SUFFICES ASSUME NEW x \in Elems(addSessQueue) \cup {s} PROVE account'[x] # None /\ m_sessions'[account'[x]] # x
      BY <1>1, <1>4
    <3>1. CASE x = s
      BY <1>1, <1>2, <3>1, LoginAssumption DEF TypeOK
    <3>2. CASE x # s
      <4>1. x \in Session /\ x \in Elems(addSessQueue)
        BY <3>2 DEF TypeOK, Elems
      <4> QED
        BY <1>1, <3>2, <4>1 DEF NoDanglingSession, TypeOK
    <3> QED
      BY <3>1, <3>2
  <2>4. Distinct(m_QueuedPlayer')
    BY <1>1 DEF NoDanglingSession, Distinct
  <2> QED
    BY <2>1, <2>2, <2>3, <2>4, Zenon DEF NoDanglingSession, Elems, Online, Distinct
<1> QED
  BY <1>5, <1>6, <1>7, <1>8, Zenon

\* A session that is refused is in addSessQueue only.
LEMMA InvRefuse ==
    ASSUME IInv, RefuseSession
    PROVE  IInv'
<1> USE DEF IInv
<1> DEFINE s == Head(addSessQueue)
<1>1. /\ addSessQueue # <<>> /\ addSessQueue \in Seq(Session) /\ Distinct(addSessQueue)
      /\ account' = Deleted({s}) /\ open' = open \ {s} /\ addSessQueue' = Tail(addSessQueue)
      /\ UNCHANGED <<pc, stopping, todo, m_sessions, m_QueuedPlayer, m_disconnects, m_playerLimit, inQueue, loading>>
  BY Zenon DEF RefuseSession, TypeOK, worldVars
<1>2. /\ s \in Session /\ Tail(addSessQueue) \in Seq(Session) /\ Distinct(Tail(addSessQueue))
      /\ Elems(Tail(addSessQueue)) = Elems(addSessQueue) \ {s}
      /\ s \in Elems(addSessQueue)
  <2>1. s \in Elems(addSessQueue)
    BY <1>1 DEF Elems
  <2> QED
    BY <1>1, <2>1, TailFacts, Zenon
<1> HIDE DEF s
<1>3. \A x \in Session : account'[x] = IF x = s THEN None ELSE account[x]
  BY <1>1, Zenon DEF Deleted
<1>4. account[s] # None /\ m_sessions[account[s]] # s
  BY <1>2, Zenon DEF NoDanglingSession
<1>5. TypeOK'
  BY <1>1, <1>2, Zenon DEF TypeOK, Deleted
<1>6. FlagMatchesQueue' /\ Distinct(addSessQueue)'
  BY <1>1, <1>2 DEF FlagMatchesQueue, Elems, Distinct
<1>7. NoDanglingSession'
  <2>1. \A b \in Online' : account'[m_sessions'[b]] = b
    <3> SUFFICES ASSUME NEW b \in Account, m_sessions[b] # None PROVE account'[m_sessions[b]] = b
      BY <1>1, Zenon DEF Online
    <3>1. m_sessions[b] \in Session /\ account[m_sessions[b]] = b
      BY Zenon DEF NoDanglingSession, Online, TypeOK
    <3>2. m_sessions[b] # s
      BY <1>4, <3>1
    <3> QED
      BY <1>3, <3>1, <3>2
  <2>2. \A x \in Elems(m_QueuedPlayer') : account'[x] # None /\ m_sessions'[account'[x]] = x
    <3> SUFFICES ASSUME NEW x \in Elems(m_QueuedPlayer) PROVE account'[x] # None /\ m_sessions'[account'[x]] = x
      BY <1>1, Zenon
    <3>1. x \in Session /\ x # s
      <4>1. x \in Session
        BY DEF TypeOK, Elems
      <4>2. account[x] # None /\ m_sessions[account[x]] = x
        BY Zenon DEF NoDanglingSession
      <4> QED
        BY <1>4, <4>1, <4>2, Zenon DEF TypeOK
    <3> QED
      BY <1>1, <1>3, <3>1, Zenon DEF NoDanglingSession, TypeOK
  <2>3. \A x \in Elems(addSessQueue') : account'[x] # None /\ m_sessions'[account'[x]] # x
    <3> SUFFICES ASSUME NEW x \in Elems(addSessQueue), x # s PROVE account'[x] # None /\ m_sessions'[account'[x]] # x
      BY <1>1, <1>2, Zenon
    <3>1. x \in Session
      BY DEF TypeOK, Elems
    <3> QED
      BY <1>1, <1>3, <3>1, Zenon DEF NoDanglingSession, TypeOK
  <2>4. Distinct(m_QueuedPlayer')
    BY <1>1 DEF NoDanglingSession, Distinct
  <2> QED
    BY <2>1, <2>2, <2>3, <2>4, Zenon DEF NoDanglingSession, Elems, Online, Distinct
<1> QED
  BY <1>5, <1>6, <1>7, Zenon

\* The account's old session is deleted and leaves every list; the new one
\* takes its place.
LEMMA InvAccept ==
    ASSUME IInv, AcceptSession
    PROVE  IInv'
<1> USE DEF IInv
<1> DEFINE s == Head(addSessQueue)
           a == account[s]
           old == m_sessions[a]
<1>1. /\ addSessQueue # <<>> /\ addSessQueue \in Seq(Session) /\ Distinct(addSessQueue)
      /\ m_sessions' = [m_sessions EXCEPT ![a] = s]
      /\ account' = Deleted({old}) /\ open' = open \ {old} /\ addSessQueue' = Tail(addSessQueue)
      /\ UNCHANGED <<pc, stopping, todo, m_disconnects, m_playerLimit, loading>>
  BY Zenon DEF AcceptSession, TypeOK
<1>2. /\ s \in Session /\ Tail(addSessQueue) \in Seq(Session) /\ Distinct(Tail(addSessQueue))
      /\ Elems(Tail(addSessQueue)) = Elems(addSessQueue) \ {s}
      /\ s \in Elems(addSessQueue)
  <2>1. s \in Elems(addSessQueue)
    BY <1>1 DEF Elems
  <2> QED
    BY <1>1, <2>1, TailFacts, Zenon
<1>3. PICK q, f : /\ Removed(m_QueuedPlayer, inQueue, q, f, old)
                  /\ \/ m_QueuedPlayer' = q /\ inQueue' = f \ {old}
                     \/ m_QueuedPlayer' = Append(q, s) /\ inQueue' = (f \ {old}) \cup {s}
  BY AcceptFacts, Zenon
<1> HIDE DEF s
<1>4. a \in Account /\ old # s
  BY <1>2, Zenon DEF NoDanglingSession, TypeOK
<1> HIDE DEF a
<1>5. /\ q \in Seq(Session) /\ Distinct(q) /\ Elems(q) \subseteq Elems(m_QueuedPlayer) \ {old}
      /\ f \subseteq inQueue /\ (inQueue = Elems(m_QueuedPlayer) => f = Elems(q))
  BY <1>3, Zenon DEF Removed
<1>6. \A x \in Session : account'[x] = IF x = old THEN None ELSE account[x]
  BY <1>1, Zenon DEF Deleted
<1>7. \A b \in Account : m_sessions'[b] = IF b = a THEN s ELSE m_sessions[b]
  BY <1>1, <1>4, Zenon DEF TypeOK
<1>8. s \notin Elems(q)
  BY <1>2, <1>5 DEF NoDanglingSession
<1>9. /\ Append(q, s) \in Seq(Session) /\ Distinct(Append(q, s))
      /\ Elems(Append(q, s)) = Elems(q) \cup {s}
  BY <1>2, <1>5, <1>8, AppendedOnce, Zenon
<1>10. /\ m_QueuedPlayer' \in Seq(Session) /\ Distinct(m_QueuedPlayer')
       /\ Elems(m_QueuedPlayer') \subseteq Elems(q) \cup {s}
  BY <1>3, <1>5, <1>9, Zenon
<1>11. TypeOK'
  <2>1. inQueue' \subseteq Session
    BY <1>2, <1>3, <1>5, Zenon DEF TypeOK
  <2>2. account' \in [Session -> Account \cup {None}]
    BY <1>1, Zenon DEF TypeOK, Deleted
  <2>3. m_sessions' \in [Account -> Session \cup {None}]
    BY <1>1, <1>2, <1>4, Zenon DEF TypeOK
  <2> QED
    BY <1>1, <1>2, <1>10, <2>1, <2>2, <2>3, Zenon DEF TypeOK
<1>12. FlagMatchesQueue'
  <2> SUFFICES ASSUME ~stopping PROVE inQueue' = Elems(m_QueuedPlayer')
    BY <1>1, Zenon DEF FlagMatchesQueue, Elems
  <2>1. f = Elems(q) /\ f \ {old} = f
    BY <1>5, Zenon DEF FlagMatchesQueue
  <2> QED
    BY <1>3, <1>9, <2>1, Zenon
<1>13. NoDanglingSession'
  <2>1. \A b \in Online' : account'[m_sessions'[b]] = b
    <3> SUFFICES ASSUME NEW b \in Account, m_sessions'[b] # None PROVE account'[m_sessions'[b]] = b
      BY Zenon DEF Online
    <3>1. CASE b = a
      BY <1>2, <1>4, <1>6, <1>7, <3>1, Zenon DEF a
    <3>2. CASE b # a
      <4>1. m_sessions'[b] = m_sessions[b] /\ m_sessions[b] \in Session /\ account[m_sessions[b]] = b
        BY <1>7, <3>2, Zenon DEF NoDanglingSession, Online, TypeOK
      <4>2. m_sessions[b] # old
        BY <1>4, <3>2, <4>1, Zenon DEF NoDanglingSession, Online
      <4> QED
        BY <1>6, <4>1, <4>2, Zenon
    <3> QED
      BY <3>1, <3>2, Zenon
  <2>2. \A x \in Elems(m_QueuedPlayer') : account'[x] # None /\ m_sessions'[account'[x]] = x
    <3> SUFFICES ASSUME NEW x \in Elems(q) \cup {s} PROVE account'[x] # None /\ m_sessions'[account'[x]] = x
      BY <1>10, Zenon
    <3>1. CASE x = s
      <4>1. account'[s] = a /\ a # None
        BY <1>2, <1>4, <1>6, LoginAssumption, Zenon DEF a
      <4> QED
        BY <1>4, <1>7, <3>1, <4>1, Zenon
    <3>2. CASE x # s
      <4>1. x \in Elems(m_QueuedPlayer) /\ x # old
        BY <1>5, <3>2, Zenon
      <4>2. x \in Session /\ account[x] \in Account /\ m_sessions[account[x]] = x
        BY <4>1, RegisteredType, Zenon
      <4>3. account[x] # a
        BY <4>1, <4>2, Zenon
      <4> QED
        BY <1>6, <1>7, <4>1, <4>2, <4>3, LoginAssumption, Zenon
    <3> QED
      BY <3>1, <3>2, Zenon
  <2>3. \A x \in Elems(addSessQueue') : account'[x] # None /\ m_sessions'[account'[x]] # x
    <3> SUFFICES ASSUME NEW x \in Elems(addSessQueue), x # s PROVE account'[x] # None /\ m_sessions'[account'[x]] # x
      BY <1>1, <1>2, Zenon
    <3>1. x \in Session /\ account[x] \in Account /\ m_sessions[account[x]] # x
      <4>1. x \in Session
        BY DEF TypeOK, Elems
      <4> QED
        BY <4>1, Zenon DEF NoDanglingSession, TypeOK
    <3>2. x # old
      <4>1. SUFFICES ASSUME x = old PROVE FALSE
        BY Zenon
      <4>2. old # None
        BY <3>1, <4>1, LoginAssumption, Zenon
      <4>3. account[old] = a
        BY <1>4, <4>2, Zenon DEF NoDanglingSession, Online
      <4> QED
        BY <3>1, <4>1, <4>3, Zenon
    <3> QED
      BY <1>6, <1>7, <3>1, <3>2, LoginAssumption, Zenon
  <2> QED
    BY <1>10, <2>1, <2>2, <2>3, Zenon DEF NoDanglingSession, Elems, Online, Distinct
<1>14. Distinct(addSessQueue)'
  BY <1>1, <1>2, Zenon DEF Distinct
<1> QED
  BY <1>11, <1>12, <1>13, <1>14, Zenon

\* A session that goes away is deleted after it has left m_sessions and the queue.
LEMMA InvDrop ==
    ASSUME IInv, NEW a \in Account, DropSession(a)
    PROVE  IInv'
<1> USE DEF IInv
<1> DEFINE s == m_sessions[a]
<1>1. /\ m_sessions' = [m_sessions EXCEPT ![a] = None]
      /\ account' = Deleted({s}) /\ open' = open \ {s} /\ loading' = loading \ {s}
      /\ todo' = todo \ {a}
      /\ m_disconnects' \in {m_disconnects, m_disconnects \cup {a}}
      /\ UNCHANGED <<pc, stopping, addSessQueue, m_playerLimit>>
  BY Zenon DEF DropSession
<1>2. PICK f : Removed(m_QueuedPlayer, inQueue, m_QueuedPlayer', f, s) /\ inQueue' = f \ {s}
  BY DropFacts
<1> HIDE DEF s
<1>3. /\ m_QueuedPlayer' \in Seq(Session) /\ Distinct(m_QueuedPlayer')
      /\ Elems(m_QueuedPlayer') \subseteq Elems(m_QueuedPlayer) \ {s}
      /\ f \subseteq inQueue /\ (inQueue = Elems(m_QueuedPlayer) => f = Elems(m_QueuedPlayer'))
  BY <1>2, Zenon DEF Removed
<1>4. \A x \in Session : account'[x] = IF x = s THEN None ELSE account[x]
  BY <1>1, Zenon DEF Deleted
<1>5. \A b \in Account : m_sessions'[b] = IF b = a THEN None ELSE m_sessions[b]
  BY <1>1 DEF TypeOK
<1>6. TypeOK'
  <2>1. account' \in [Session -> Account \cup {None}]
    BY <1>1, Zenon DEF TypeOK, Deleted
  <2>2. m_sessions' \in [Account -> Session \cup {None}]
    BY <1>1, Zenon DEF TypeOK
  <2> QED
    BY <1>1, <1>2, <1>3, <2>1, <2>2, Zenon DEF TypeOK
<1>7. FlagMatchesQueue'
  <2> SUFFICES ASSUME ~stopping PROVE inQueue' = Elems(m_QueuedPlayer')
    BY <1>1, Zenon DEF FlagMatchesQueue, Elems
  <2> QED
    BY <1>2, <1>3, Zenon DEF FlagMatchesQueue
<1>8. NoDanglingSession'
  <2>1. \A b \in Online' : account'[m_sessions'[b]] = b
    <3> SUFFICES ASSUME NEW b \in Account, m_sessions'[b] # None PROVE account'[m_sessions'[b]] = b
      BY Zenon DEF Online
    <3>1. b # a /\ m_sessions'[b] = m_sessions[b]
      BY <1>5, Zenon
    <3>2. m_sessions[b] \in Session /\ account[m_sessions[b]] = b
      BY <3>1, Zenon DEF NoDanglingSession, Online, TypeOK
    <3>3. m_sessions[b] # s
      BY <3>1, <3>2 DEF NoDanglingSession, Online, s
    <3> QED
      BY <1>4, <3>1, <3>2, <3>3, Zenon
  <2>2. \A x \in Elems(m_QueuedPlayer') : account'[x] # None /\ m_sessions'[account'[x]] = x
    <3> SUFFICES ASSUME NEW x \in Elems(m_QueuedPlayer), x # s PROVE account'[x] # None /\ m_sessions'[account'[x]] = x
      BY <1>3, Zenon
    <3>1. x \in Session /\ account[x] \in Account /\ m_sessions[account[x]] = x
      BY RegisteredType, Zenon
    <3>2. account[x] # a
      BY <3>1, Zenon DEF s
    <3> QED
      BY <1>4, <1>5, <3>1, <3>2, LoginAssumption, Zenon
  <2>3. \A x \in Elems(addSessQueue') : account'[x] # None /\ m_sessions'[account'[x]] # x
    <3> SUFFICES ASSUME NEW x \in Elems(addSessQueue) PROVE account'[x] # None /\ m_sessions'[account'[x]] # x
      BY <1>1, Zenon
    <3>1. x \in Session /\ account[x] \in Account /\ m_sessions[account[x]] # x
      <4>1. x \in Session
        BY DEF TypeOK, Elems
      <4> QED
        BY <4>1, Zenon DEF NoDanglingSession, TypeOK
    <3>2. x # s
      BY <3>1, LoginAssumption DEF NoDanglingSession, Online, s
    <3> QED
      BY <1>4, <1>5, <3>1, <3>2, LoginAssumption
  <2> QED
    BY <1>3, <2>1, <2>2, <2>3, Zenon DEF NoDanglingSession, Elems, Online, Distinct
<1>9. Distinct(addSessQueue)'
  BY <1>1, Zenon DEF Distinct
<1> QED
  BY <1>6, <1>7, <1>8, <1>9, Zenon

\* The other steps leave the lists alone, or empty the queue.
LEMMA InvOther ==
    ASSUME IInv,
           \/ BeginUpdateSessions \/ BeginUpdate \/ EndUpdateSessions \/ KickAll
           \/ \E a \in Account : UpdateSession(a)
           \/ \E limit \in Limit : SetPlayerAmountLimit(limit)
           \/ \E s \in Session : CloseSocket(s)
           \/ UNCHANGED vars
    PROVE  IInv'
<1> USE DEF IInv
<1>1. /\ UNCHANGED <<addSessQueue, m_sessions, account, inQueue>>
      /\ \/ UNCHANGED <<m_QueuedPlayer, stopping>>
         \/ m_QueuedPlayer' = <<>> /\ stopping' = TRUE
  BY Zenon DEF BeginUpdateSessions, BeginUpdate, EndUpdateSessions, KickAll, UpdateSession,
               SetPlayerAmountLimit, CloseSocket, vars, worldVars
<1>2. TypeOK'
  <2>1. stopping' \in BOOLEAN
    <3>1. stopping \in BOOLEAN
      BY DEF TypeOK
    <3> QED
      BY <1>1, <3>1, Zenon
  <2>2. m_QueuedPlayer' \in Seq(Session)
    <3>1. m_QueuedPlayer \in Seq(Session) /\ <<>> \in Seq(Session)
      BY DEF TypeOK
    <3>2. m_QueuedPlayer' = m_QueuedPlayer \/ m_QueuedPlayer' = <<>>
      BY <1>1, Zenon
    <3> QED
      BY <3>1, <3>2, Zenon
  <2> DEFINE Rest == /\ pc' \in {"tick", "add", "update", "halted"}
                     /\ todo' \subseteq Account /\ m_playerLimit' \in Limit /\ m_disconnects' \subseteq Account
                     /\ open' \subseteq Session /\ loading' \subseteq Session
  <2>3. ASSUME BeginUpdateSessions \/ BeginUpdate \/ EndUpdateSessions PROVE Rest
    BY <2>3, Zenon DEF BeginUpdateSessions, BeginUpdate, EndUpdateSessions, worldVars, TypeOK, Online
  <2>4. ASSUME KickAll PROVE Rest
    BY <2>4, Zenon DEF KickAll, TypeOK
  <2>5. ASSUME NEW a \in Account, UpdateSession(a) PROVE Rest
    BY <2>5, Zenon DEF UpdateSession, worldVars, TypeOK
  <2>6. ASSUME UNCHANGED vars PROVE Rest
    BY <2>6, Zenon DEF vars, worldVars, TypeOK
  <2>7. ASSUME NEW limit \in Limit, SetPlayerAmountLimit(limit) PROVE Rest
    BY <2>7, Zenon DEF SetPlayerAmountLimit, worldVars, TypeOK
  <2>8. ASSUME NEW s \in Session, CloseSocket(s) PROVE Rest
    BY <2>8, Zenon DEF CloseSocket, worldVars, TypeOK
  <2>9. Rest
    BY <2>3, <2>4, <2>5, <2>6, <2>7, <2>8, Zenon
  <2> QED
    BY <1>1, <2>1, <2>2, <2>9, Zenon DEF TypeOK
<1>3. NoDanglingSession' /\ FlagMatchesQueue' /\ Distinct(addSessQueue)'
  <2>1. CASE UNCHANGED <<m_QueuedPlayer, stopping>>
    <3>1. /\ addSessQueue' = addSessQueue /\ m_sessions' = m_sessions /\ account' = account
          /\ inQueue' = inQueue /\ m_QueuedPlayer' = m_QueuedPlayer /\ stopping' = stopping
      BY <1>1, <2>1, Zenon
    <3>2. NoDanglingSession'
      BY <3>1 DEF NoDanglingSession, Elems, Online
    <3>3. FlagMatchesQueue'
      BY <3>1, Zenon DEF FlagMatchesQueue, Elems
    <3>4. Distinct(addSessQueue)'
      BY <3>1, Zenon DEF Distinct
    <3> QED
      BY <3>2, <3>3, <3>4, Zenon
  <2>2. CASE m_QueuedPlayer' = <<>> /\ stopping' = TRUE
    BY <1>1, <2>2 DEF NoDanglingSession, FlagMatchesQueue, Distinct, Elems, Online
  <2> QED
    BY <1>1, <2>1, <2>2, Zenon
<1> QED
  BY <1>2, <1>3

LEMMA InvStep == IInv /\ [Next]_vars => IInv'
<1> SUFFICES ASSUME IInv, [Next]_vars PROVE IInv'
  OBVIOUS
<1>1. ASSUME NEW s \in Session, NEW a \in Account, AddSession(s, a) PROVE IInv'
  BY <1>1, InvAddSession, Zenon
<1>2. ASSUME NEW a \in Account, DropSession(a) PROVE IInv'
  BY <1>2, InvDrop, Zenon
<1>3. CASE RefuseSession
  BY <1>3, InvRefuse, Zenon
<1>4. CASE AcceptSession
  BY <1>4, InvAccept, Zenon
<1> QED
  BY <1>1, <1>2, <1>3, <1>4, InvOther, Zenon DEF Next, WorldStep

LEMMA Inductive == Spec => []IInv
  BY InvInit, InvStep, PTL DEF Spec

-----------------------------------------------------------------------------
(* The theorems *)

\* No list holds a pointer to a deleted session, and the queue holds no session
\* twice (AddSession_, RemoveQueuedPlayer, UpdateSessions; World.cpp:201-272, 316-372, 2610-2641).
THEOREM NoDanglingCorrect == Spec => []NoDanglingSession
  BY Inductive, PTL DEF IInv

\* m_inQueue is set exactly for the sessions in the queue until the server stops.
THEOREM FlagMatchesCorrect == Spec => []FlagMatchesQueue
  BY Inductive, PTL DEF IInv

LEMMA PositionFacts ==
    ASSUME NEW q \in Seq(Session), Distinct(q), NEW k \in 1..Len(q)
    PROVE  (CHOOSE m \in 1..Len(q) : q[m] = q[k]) = k
<1>1. \E m \in 1..Len(q) : q[m] = q[k]
  BY Zenon
<1> QED
  BY <1>1 DEF Distinct

\* No step lets a session that waits be overtaken by one behind it.
Fair ==
    \A s, t \in Elems(m_QueuedPlayer) :
        PositionOf(s) < PositionOf(t) /\ s \in Elems(m_QueuedPlayer)' /\ account[t] = account'[t]
            => t \in Elems(m_QueuedPlayer)' /\ PositionOf(s)' < PositionOf(t)'

\* Whoever takes sessions out of the queue as RemoveQueuedPlayer does, keeps it fair.
LEMMA KeptIsFair ==
    ASSUME IInv, IInv', NEW q \in Seq(Session), NEW x,
           Kept(m_QueuedPlayer, q, x), Elems(m_QueuedPlayer') \cap Elems(m_QueuedPlayer) \subseteq Elems(q),
           \A k \in 1..Len(q) : k \in 1..Len(m_QueuedPlayer') /\ m_QueuedPlayer'[k] = q[k],
           x \in Session => account'[x] = None
    PROVE  Fair
<1> SUFFICES ASSUME NEW s \in Elems(m_QueuedPlayer), NEW t \in Elems(m_QueuedPlayer),
                    PositionOf(s) < PositionOf(t), s \in Elems(m_QueuedPlayer'), account[t] = account'[t]
             PROVE  t \in Elems(m_QueuedPlayer') /\ PositionOf(s)' < PositionOf(t)'
  BY Zenon DEF Fair, Elems
<1> DEFINE p == m_QueuedPlayer
<1>1. p \in Seq(Session) /\ Distinct(p) /\ p' \in Seq(Session) /\ Distinct(p')
  BY Zenon DEF IInv, TypeOK, NoDanglingSession, Distinct
<1>2. PICK j \in 1..Len(p) : s = p[j]
  BY Zenon DEF Elems
<1>3. PICK k \in 1..Len(p) : t = p[k]
  BY Zenon DEF Elems
<1>4. j < k
  <2>1. /\ (CHOOSE m \in 1..Len(p) : p[m] = p[j]) = j
        /\ (CHOOSE m \in 1..Len(p) : p[m] = p[k]) = k
    BY <1>1, PositionFacts, Zenon
  <2>2. PositionOf(p[j]) = j /\ PositionOf(p[k]) = k
    BY <2>1, Zenon DEF PositionOf
  <2> QED
    BY <1>2, <1>3, <2>2, Zenon
<1>5. t # x
  <2>1. t \in Session /\ account[t] \in Account
    BY RegisteredType, Zenon
  <2> QED
    BY <2>1, LoginAssumption, Zenon
<1>6. s \in Elems(q)
  BY Zenon
<1>7. PICK m, n \in 1..Len(q) : m < n /\ q[m] = s /\ q[n] = t
  BY <1>2, <1>3, <1>4, <1>5, <1>6 DEF Kept
<1>8. m \in 1..Len(p') /\ n \in 1..Len(p') /\ p'[m] = s /\ p'[n] = t
  BY <1>7, Zenon
<1>9. PositionOf(s)' = m /\ PositionOf(t)' = n
  <2>1. /\ (CHOOSE l \in 1..Len(p') : p'[l] = p'[m]) = m
        /\ (CHOOSE l \in 1..Len(p') : p'[l] = p'[n]) = n
    BY <1>1, <1>8, PositionFacts, Zenon
  <2> QED
    BY <1>8, <2>1 DEF PositionOf
<1> QED
  BY <1>7, <1>8, <1>9, Zenon DEF Elems

LEMMA FairStep == IInv /\ IInv' /\ [Next]_vars => Fair \/ UNCHANGED vars
<1> SUFFICES ASSUME IInv, IInv', Next PROVE Fair
  BY Zenon
<1> DEFINE p == m_QueuedPlayer
<1>1. p \in Seq(Session) /\ p' \in Seq(Session)
  BY DEF IInv, TypeOK
<1>2. CASE UNCHANGED p
  <2>1. Kept(p, p, None) /\ \A k \in 1..Len(p) : k \in 1..Len(p') /\ p'[k] = p[k]
    BY <1>2, Zenon DEF Kept
  <2> QED
    BY <1>1, <1>2, <2>1, KeptIsFair, LoginAssumption, Zenon
<1>3. CASE KickAll
  BY <1>3 DEF KickAll, Fair, Elems
<1>4. ASSUME NEW a \in Account, DropSession(a) PROVE Fair
  <2>1. PICK f : Removed(p, inQueue, p', f, m_sessions[a])
    BY <1>4, DropFacts, Zenon
  <2>2. Kept(p, p', m_sessions[a])
    BY <2>1, Zenon DEF Removed
  <2>3. m_sessions[a] \in Session => account'[m_sessions[a]] = None
    BY <1>4, Zenon DEF DropSession, Deleted
  <2> QED
    BY <1>1, <2>2, <2>3, KeptIsFair, Zenon
<1>5. CASE AcceptSession
  <2> DEFINE s == Head(addSessQueue)
             old == m_sessions[account[s]]
  <2>1. PICK q, f : /\ Removed(p, inQueue, q, f, old)
                    /\ p' = q \/ p' = Append(q, s)
    BY <1>5, AcceptFacts
  <2>2. old \in Session => account'[old] = None
    BY <1>5, Zenon DEF AcceptSession, Deleted
  <2>3. s \notin Elems(p)
    <3>1. s \in Elems(addSessQueue)
      BY <1>5, HeadFacts, Zenon DEF AcceptSession, IInv, TypeOK
    <3> QED
      BY <3>1 DEF IInv, NoDanglingSession
  <2> HIDE DEF s, old
  <2>4. q \in Seq(Session) /\ Kept(p, q, old)
    BY <2>1, Zenon DEF Removed
  <2>5. \A k \in 1..Len(q) : k \in 1..Len(p') /\ p'[k] = q[k]
    BY <2>1, <2>4
  <2>6. Elems(p') \cap Elems(p) \subseteq Elems(q)
    BY <2>1, <2>3, <2>4 DEF Elems
  <2> QED
    BY <2>2, <2>4, <2>5, <2>6, KeptIsFair, Zenon
<1> QED
  BY <1>2, <1>3, <1>4, <1>5, Zenon
     DEF Next, WorldStep, BeginUpdateSessions, RefuseSession, BeginUpdate, EndUpdateSessions,
         UpdateSession, SetPlayerAmountLimit, CloseSocket, AddSession, worldVars

\* The queue is first come, first served: RemoveQueuedPlayer admits its first
\* session only, and no other step changes the order (World.cpp:316-372).
THEOREM QueueIsFairCorrect == Spec => QueueIsFair
<1>1. IInv /\ IInv' /\ [Next]_vars => [Fair]_vars
  BY FairStep
<1>2. Spec => [][Fair]_vars
  BY <1>1, Inductive, PTL DEF Spec
<1> QED
  BY <1>2, Zenon DEF QueueIsFair, Fair

-----------------------------------------------------------------------------
(* No departure leaves a slot idle *)

LEMMA EraseLength ==
    ASSUME NEW q \in Seq(Session), NEW s \in Elems(q)
    PROVE  Len(q) > 0 /\ Len(erase(q, s)) = Len(q) - 1
<1>1. Len(q) \in Nat /\ Len(q) > 0
  BY DEF Elems
<1> DEFINE at == CHOOSE k \in 1..Len(q) : q[k] = s /\ \A j \in 1..(k - 1) : q[j] # s
<1>2. erase(q, s) = [k \in 1..(Len(q) - 1) |-> IF k < at THEN q[k] ELSE q[k + 1]]
  BY DEF erase
<1> HIDE DEF at
<1> QED
  BY <1>1, <1>2

\* The length of the queue when rest sessions are left in it and count are
\* admitted: the first one is admitted if there is room.
LenAfter(rest, count) ==
    IF (m_playerLimit = 0 \/ count < m_playerLimit) /\ rest # 0 THEN rest - 1 ELSE rest

\* s is erased if it is in the queue, and not counted if it is not.
LengthRemoved(size, q, r, s) ==
    LET active == size - Len(q)
    IN  /\ s \in Elems(q) => Len(r) = LenAfter(Len(q) - 1, active)
        /\ s \notin Elems(q) => Len(r) = LenAfter(Len(q), IF active > 0 THEN active - 1 ELSE active)

LEMMA RemoveLength ==
    ASSUME NEW q \in Seq(Session), Distinct(q), NEW flags, NEW s, NEW size \in Nat, NEW found,
           NEW st, st = [size |-> size, queue |-> q, flags |-> flags, found |-> found]
    PROVE  LET after == RemoveQueuedPlayer(st, s)
           IN  /\ after.found <=> s \in Elems(q)
               /\ LengthRemoved(size, q, after.queue, s)
<1> DEFINE isIn == s \in Elems(q)
           rest == erase(q, s)
           pop  == Room(st, isIn) /\ rest # <<>>
<1>1. /\ RemoveQueuedPlayer(st, s).queue = IF pop THEN Tail(rest) ELSE rest
      /\ RemoveQueuedPlayer(st, s).found = isIn
  BY Zenon DEF RemoveQueuedPlayer
<1>2. rest \in Seq(Session)
  BY EraseFacts, Zenon
<1>3. Len(rest) = IF isIn THEN Len(q) - 1 ELSE Len(q)
  BY EraseLength, Zenon DEF erase
<1>4. Room(st, isIn) <=>
          \/ m_playerLimit = 0
          \/ (IF ~isIn /\ size - Len(q) > 0 THEN size - Len(q) - 1 ELSE size - Len(q)) < m_playerLimit
  BY Zenon DEF Room
<1> HIDE DEF isIn, rest
<1>5. /\ rest # <<>> <=> Len(rest) # 0
      /\ rest # <<>> => Len(Tail(rest)) = Len(rest) - 1
  BY <1>2
<1> QED
  BY <1>1, <1>3, <1>4, <1>5, Zenon DEF LenAfter, LengthRemoved, isIn

LEMMA OnlineFinite == IsFiniteSet(Online) /\ Cardinality(Online) \in Nat
  BY LoginAssumption, FS_Subset, FS_CardinalityType, Zenon DEF Online

\* The loop over m_sessions visits accounts that have a session.
TodoOnline == todo \subseteq Online

LEMMA TodoStep == IInv /\ TodoOnline /\ [Next]_vars => TodoOnline'
<1> SUFFICES ASSUME IInv, TodoOnline, [Next]_vars PROVE TodoOnline'
  OBVIOUS
<1>1. CASE AcceptSession
  <2>1. Head(addSessQueue) \in Session
    BY <1>1, HeadFacts, Zenon DEF AcceptSession, IInv, TypeOK
  <2> QED
    BY <1>1, <2>1, LoginAssumption, Zenon DEF AcceptSession, TodoOnline, Online, IInv, TypeOK
<1>2. ASSUME NEW a \in Account, DropSession(a) PROVE TodoOnline'
  BY <1>2, Zenon DEF DropSession, TodoOnline, Online, IInv, TypeOK
<1>3. CASE BeginUpdate
  BY <1>3, Zenon DEF BeginUpdate, TodoOnline, Online, worldVars
<1>4. CASE UNCHANGED m_sessions /\ todo' \subseteq todo
  BY <1>4, Zenon DEF TodoOnline, Online
<1> QED
  BY <1>1, <1>2, <1>3, <1>4, Zenon
     DEF Next, WorldStep, BeginUpdateSessions, RefuseSession, EndUpdateSessions, KickAll,
         UpdateSession, SetPlayerAmountLimit, CloseSocket, AddSession, vars, worldVars

LEMMA DropNoIdle ==
    ASSUME IInv, TodoOnline, NoIdle, NEW a \in Account, DropSession(a)
    PROVE  NoIdle'
<1> DEFINE s == m_sessions[a]
           n == Cardinality(Online)
           length == Len(m_QueuedPlayer)
           isIn == s \in Elems(m_QueuedPlayer)
           first == RemoveQueuedPlayer(Lists, s)
           second == RemoveQueuedPlayer(first, s)
<1>1. m_QueuedPlayer \in Seq(Session) /\ Distinct(m_QueuedPlayer)
  BY Zenon DEF IInv, TypeOK, NoDanglingSession, Distinct
<1>2. n \in Nat /\ m_playerLimit \in Nat /\ length \in Nat
  BY <1>1, OnlineFinite, LoginAssumption DEF IInv, TypeOK
<1>3. Cardinality(Online)' = n - 1
  <2>1. a \in Online /\ Online' = Online \ {a}
    BY Zenon DEF DropSession, TodoOnline, Online, IInv, TypeOK
  <2> QED
    BY <2>1, OnlineFinite, FS_RemoveElement, Zenon
<1>4. /\ Removed(m_QueuedPlayer, inQueue, first.queue, first.flags, s)
      /\ first = [size |-> n, queue |-> first.queue, flags |-> first.flags, found |-> first.found]
  BY <1>1, RemoveFacts DEF Lists
<1>5. LengthRemoved(n, m_QueuedPlayer, first.queue, s)
  BY <1>1, <1>2, RemoveLength, Zenon DEF Lists
<1>6. m_QueuedPlayer' = second.queue /\ m_playerLimit' = m_playerLimit
  BY Zenon DEF DropSession
<1> HIDE DEF first, s, n
<1>7. first.queue \in Seq(Session) /\ Distinct(first.queue) /\ s \notin Elems(first.queue)
  BY <1>4 DEF Removed
<1>8. LengthRemoved(n, first.queue, second.queue, s)
  BY <1>2, <1>4, <1>7, RemoveLength, Zenon
<1>9. second.queue \in Seq(Session)
  BY <1>4, <1>7, RemoveFacts, Zenon DEF Removed
<1> HIDE DEF second, length
<1>10. isIn => length > 0
  BY <1>1, EraseLength, Zenon DEF length
<1>11. length > 0 => m_playerLimit > 0 /\ n - length >= m_playerLimit
  BY <1>1, <1>2 DEF NoIdle, Active, n, length
<1> HIDE DEF isIn
<1> DEFINE one == Len(first.queue)
           two == Len(second.queue)
<1>12. two = LenAfter(one, IF n - one > 0 THEN n - one - 1 ELSE n - one)
  BY <1>7, <1>8, Zenon DEF LengthRemoved
<1>13. two > 0 => m_playerLimit > 0 /\ (n - 1) - two >= m_playerLimit
  <2>1. CASE isIn
    <3>1. one = LenAfter(length - 1, n - length) /\ length > 0
      BY <1>5, <1>10, <2>1, Zenon DEF LengthRemoved, length, isIn
    <3> HIDE DEF one, two
    <3> QED
      BY <1>2, <1>11, <1>12, <3>1 DEF LenAfter
  <2>2. CASE ~isIn
    <3>1. one = LenAfter(length, IF n - length > 0 THEN n - length - 1 ELSE n - length)
      BY <1>5, <2>2, Zenon DEF LengthRemoved, length, isIn
    <3> HIDE DEF one, two
    <3> QED
      BY <1>2, <1>11, <1>12, <3>1 DEF LenAfter
  <2> QED
    BY <2>1, <2>2, Zenon
<1> QED
  BY <1>3, <1>6, <1>9, <1>13 DEF NoIdle, Active

LEMMA AcceptNoIdle ==
    ASSUME IInv, NoIdle, AcceptSession
    PROVE  NoIdle'
<1> DEFINE s == Head(addSessQueue)
           a == account[s]
           old == m_sessions[a]
           n == Cardinality(Online)
           registered == Cardinality(Online \cup {a})
           length == Len(m_QueuedPlayer)
           st == IF old = None THEN Lists ELSE RemoveQueuedPlayer(Lists, old)
           full == MustQueue(a, registered, ~st.found)
<1>1. m_QueuedPlayer \in Seq(Session) /\ Distinct(m_QueuedPlayer)
  BY Zenon DEF IInv, TypeOK, NoDanglingSession, Distinct
<1>2. n \in Nat /\ m_playerLimit \in Nat /\ length \in Nat
  BY <1>1, OnlineFinite, LoginAssumption DEF IInv, TypeOK
<1>3. s \in Session /\ a \in Account
  <2>1. s \in Elems(addSessQueue) /\ s \in Session
    BY HeadFacts, Zenon DEF AcceptSession, IInv, TypeOK
  <2> QED
    BY <2>1 DEF IInv, TypeOK, NoDanglingSession
<1>4. /\ m_sessions' = [m_sessions EXCEPT ![a] = s] /\ m_playerLimit' = m_playerLimit
      /\ m_QueuedPlayer' = IF full THEN Append(st.queue, s) ELSE st.queue
  BY Zenon DEF AcceptSession
<1>5. /\ Cardinality(Online)' = registered
      /\ registered = IF old = None THEN n + 1 ELSE n
  <2> HIDE DEF s, a
  <2>1. Online' = Online \cup {a} /\ (a \in Online <=> old # None)
    BY <1>3, <1>4, LoginAssumption, Zenon DEF Online, IInv, TypeOK
  <2> QED
    BY <2>1, OnlineFinite, FS_AddElement, Zenon
<1>6. full => m_playerLimit > 0 /\ registered - (IF ~st.found THEN 1 ELSE 0) >= m_playerLimit
  BY Zenon DEF MustQueue
<1>7. length > 0 => m_playerLimit > 0 /\ n - length >= m_playerLimit
  BY <1>1, <1>2 DEF NoIdle, Active
<1>8. CASE old = None
  <2>1. st.queue = m_QueuedPlayer /\ ~st.found
    BY <1>8, Zenon DEF Lists
  <2> HIDE DEF s, old, st, full, registered, n
  <2>2. Len(m_QueuedPlayer') = IF full THEN length + 1 ELSE length
    BY <1>1, <1>3, <1>4, <2>1
  <2>3. m_QueuedPlayer' # <<>> => Len(m_QueuedPlayer') > 0
    BY <1>1, <1>3, <1>4, <2>1
  <2> HIDE DEF length
  <2>4. Len(m_QueuedPlayer') > 0 => m_playerLimit > 0 /\ registered - Len(m_QueuedPlayer') >= m_playerLimit
    BY <1>2, <1>5, <1>6, <1>7, <1>8, <2>1, <2>2
  <2> QED
    BY <1>4, <1>5, <2>3, <2>4, Zenon DEF NoIdle, Active
<1>9. CASE old # None
  <2>1. st = RemoveQueuedPlayer(Lists, old)
    BY <1>9, Zenon
  <2> HIDE DEF s, old, st, full, registered
  <2>2. /\ Removed(m_QueuedPlayer, inQueue, st.queue, st.flags, old)
        /\ st.found <=> old \in Elems(m_QueuedPlayer)
        /\ LengthRemoved(n, m_QueuedPlayer, st.queue, old)
    BY <1>1, <1>2, <2>1, RemoveFacts, RemoveLength DEF Lists
  <2> HIDE DEF n
  <2>3. st.queue \in Seq(Session)
    BY <2>2, Zenon DEF Removed
  <2>4. Len(m_QueuedPlayer') = IF full THEN Len(st.queue) + 1 ELSE Len(st.queue)
    BY <1>3, <1>4, <2>3
  <2>5. m_QueuedPlayer' # <<>> => Len(m_QueuedPlayer') > 0
    BY <1>3, <1>4, <2>3
  <2>6. old \in Elems(m_QueuedPlayer) => length > 0
    BY <1>1, EraseLength, Zenon
  <2>7. Len(m_QueuedPlayer') > 0 => m_playerLimit > 0 /\ registered - Len(m_QueuedPlayer') >= m_playerLimit
    <3>1. CASE old \in Elems(m_QueuedPlayer)
      <4>1. Len(st.queue) = LenAfter(length - 1, n - length)
        BY <2>2, <3>1, Zenon DEF LengthRemoved
      <4> HIDE DEF length
      <4> QED
        BY <1>2, <1>5, <1>7, <1>9, <2>4, <2>6, <3>1, <4>1 DEF LenAfter
    <3>2. CASE old \notin Elems(m_QueuedPlayer)
      <4>1. Len(st.queue) = LenAfter(length, IF n - length > 0 THEN n - length - 1 ELSE n - length)
        BY <2>2, <3>2, Zenon DEF LengthRemoved
      <4>2. full => m_playerLimit > 0 /\ n - 1 >= m_playerLimit
        BY <1>5, <1>6, <1>9, <2>2, <3>2, Zenon
      <4> HIDE DEF length
      <4> QED
        BY <1>2, <1>5, <1>7, <1>9, <2>4, <4>1, <4>2 DEF LenAfter
    <3> QED
      BY <3>1, <3>2, Zenon
  <2> QED
    BY <1>4, <1>5, <2>5, <2>7, Zenon DEF NoIdle, Active
<1> QED
  BY <1>8, <1>9, Zenon

LEMMA NoIdleStep ==
    ASSUME IInv, TodoOnline, Next, NoIdle, m_playerLimit' = m_playerLimit, ~stopping'
    PROVE  NoIdle'
<1>1. CASE AcceptSession
  BY <1>1, AcceptNoIdle, Zenon
<1>2. ASSUME NEW a \in Account, DropSession(a) PROVE NoIdle'
  BY <1>2, DropNoIdle, Zenon
<1>3. CASE UNCHANGED <<m_sessions, m_QueuedPlayer>>
  BY <1>3 DEF NoIdle, Active, Online
<1>4. ~KickAll
  BY Zenon DEF KickAll
<1> QED
  BY <1>1, <1>2, <1>3, <1>4, Zenon
     DEF Next, WorldStep, BeginUpdateSessions, RefuseSession, BeginUpdate, EndUpdateSessions,
         UpdateSession, SetPlayerAmountLimit, CloseSocket, AddSession, worldVars

\* Nobody waits while there is room unless an operator raised the limit: each
\* session that leaves or is replaced lets in as many as there is room for,
\* although RemoveQueuedPlayer is called twice for it and admits at most one
\* each time (World.cpp:316-372, 2615-2641).
THEOREM NoIdleCorrect == Spec => NoIdleSlot
<1> DEFINE JInv == IInv /\ TodoOnline
           Step == NoIdle /\ m_playerLimit' = m_playerLimit /\ ~stopping' => NoIdle'
<1>1. Init => JInv
  BY InvInit DEF Init, TodoOnline
<1>2. JInv /\ [Next]_vars => JInv'
  BY InvStep, TodoStep, Zenon
<1>3. JInv /\ [Next]_vars => [Step]_vars
  BY NoIdleStep
<1>4. Spec => [][Step]_vars
  BY <1>1, <1>2, <1>3, PTL DEF Spec
<1> QED
  BY <1>4, Zenon DEF NoIdleSlot
=============================================================================
