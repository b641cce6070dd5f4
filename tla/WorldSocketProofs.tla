------------------------- MODULE WorldSocketProofs --------------------------
(***************************************************************************)
(* Proofs about one connection, for any number of sessions, packets of any *)
(* sizes and any limits of the buffer and the queue.                       *)
(***************************************************************************)
EXTENDS WorldSocket, FiniteSetTheorems, SequenceTheorems, TLAPS

Opening == {"open", "opening", "added", "challenged", "registered", "failed", "done"}
Callers == {"none", "svc", "reactor", "input"}
\* The places of the network thread: in calls of the reactor for input, in
\* Update() and handle_output, and in the two ways of closing.
InInput == {"process", "count", "limit", "switch", "pong", "unsent", "authed"}
InOutput == {"update", "output"}
InHandleClose == {"handle_close", "forget", "remove"}
InDrop == {"close", "forget_drop", "drop"}
NetPlaces == {"loop"} \cup InInput \cup InOutput \cup InHandleClose \cup InDrop
Nets == [pc : NetPlaces, by : Callers, packet : Kinds \cup {"none"}]
SessionStates == {"none", "made", "added", "active", "discarded", "deleted"}

Typed ==
    /\ closing_ \in BOOLEAN /\ m_OutActive \in BOOLEAN /\ allocated \in BOOLEAN
    /\ refs \in Int /\ m_Session \in Sessions \cup {NULL}
    /\ mask \in SUBSET {"read", "write"} /\ member \in {"none", "new", "sockets"}
    /\ acc \in Opening
    /\ net \in Nets
    /\ srv \in [pc : {"idle", "close", "forget", "delete"}, session : Sessions \cup {NULL}]
    /\ session \in [Sessions -> [state : SessionStates, socket : BOOLEAN, recv : Int]]

\* Who may be inside the socket, and on behalf of whom.
Located ==
    /\ mask # {} => "read" \in mask
    /\ acc \in {"open", "opening", "added", "challenged", "failed"} => mask = {}
    /\ acc \in {"open", "opening"} => member = "none"
    /\ net.pc \in InInput => net.by = "input"
    /\ net.pc = "loop" => net.by = "none"
    /\ net.pc \in {"forget", "remove"} => closing_
    /\ (net.pc \in InOutput /\ net.by = "svc") \/ net.pc \in InDrop => member = "sockets"
    /\ (net.pc \in InOutput /\ net.by # "svc") \/ net.pc \in InInput \cup InHandleClose => mask # {}
    /\ net.pc = "output" => mask # {}
    /\ net.pc # "loop" => acc \notin {"open", "opening"}
    /\ (acc # "open" /\ mask = {}) => closing_ \/ m_OutActive
    /\ acc \in {"challenged", "registered"} => allocated
    /\ ~allocated => mask = {}

Holders ==
    /\ \A s \in Sessions : session[s].socket <=> session[s].state \notin {"none", "deleted"}
    /\ srv.pc # "idle" => srv.session \in Sessions /\ session[srv.session].socket

\* A session is used by the server thread alone once it was added, and
\* m_Session is not followed by the network thread after its session is gone.
SessionInv ==
    /\ \A s \in Sessions : session[s].state = "made" => net.pc = "authed"
    /\ \A s, t \in Sessions : session[s].state = "made" /\ session[t].state = "made" => s = t
    /\ srv.pc # "idle" => session[srv.session].state \in {"active", "discarded"}
    /\ srv.pc \in {"forget", "delete"} => closing_
    /\ srv.pc = "delete" => session[srv.session].state = "discarded"
    /\ \A s \in Sessions : session[s].state = "discarded" => srv.pc # "idle" /\ srv.session = s
    /\ (~closing_ \/ net.pc \in InInput) => m_Session = NULL \/ IsAlive(m_Session)
    /\ (closing_ /\ net.pc \in InInput) =>
          \/ m_Session = NULL \/ srv.pc = "forget"
          \/ net.pc = "authed" /\ session[m_Session].state = "made"

Control == Typed /\ Located /\ Holders /\ SessionInv

\* Where the macros of the network thread's steps lead.
LEMMA NextPlace ==
    ASSUME net \in Nets
    PROVE  /\ InLoop \in Nets /\ InLoop.pc = "loop" /\ InLoop.by = "none"
           /\ Done => net' \in Nets /\ net'.pc = "loop" /\ net'.by = "none"
           /\ Fail => /\ net' \in Nets /\ net'.by = "none"
                      /\ net'.pc = IF net.by = "svc" THEN "close" ELSE "handle_close"
           /\ \A pc \in NetPlaces :
                 At(pc) => net' \in Nets /\ net'.pc = pc /\ net'.by = net.by
           /\ \A pc \in NetPlaces, by \in Callers :
                 net' = [InLoop EXCEPT !.pc = pc, !.by = by]
                     => net' \in Nets /\ net'.pc = pc /\ net'.by = by
<1> USE DEF Nets, NetPlaces, InInput, InOutput, InHandleClose, InDrop, Callers, Kinds
<1>1. InLoop \in Nets /\ InLoop.pc = "loop" /\ InLoop.by = "none"
  BY DEF InLoop
<1>2. Done => net' \in Nets /\ net'.pc = "loop" /\ net'.by = "none"
  BY <1>1 DEF Done
<1>3. Fail => /\ net' \in Nets /\ net'.by = "none"
              /\ net'.pc = IF net.by = "svc" THEN "close" ELSE "handle_close"
  BY <1>1 DEF Fail
<1>4. \A pc \in NetPlaces : At(pc) => net' \in Nets /\ net'.pc = pc /\ net'.by = net.by
  BY DEF At
<1>5. \A pc \in NetPlaces, by \in Callers :
        net' = [InLoop EXCEPT !.pc = pc, !.by = by] => net' \in Nets /\ net'.pc = pc /\ net'.by = by
  <2> HIDE DEF NetPlaces, InInput, InOutput, InHandleClose, InDrop, Callers, Kinds
  <2> QED
    BY <1>1, Zenon
<1> QED
  BY <1>1, <1>2, <1>3, <1>4, <1>5, Zenon

LEMMA ControlInit == Init => Control
<1> SUFFICES ASSUME Init PROVE Control
  OBVIOUS
<1>1. net \in Nets /\ net.pc = "loop" /\ net.by = "none"
  BY DEF Init, InLoop, Nets, NetPlaces, Callers, Kinds
<1>2. srv.pc = "idle" /\ srv \in [pc : {"idle", "close", "forget", "delete"}, session : Sessions \cup {NULL}]
  BY DEF Init
<1>3. /\ session \in [Sessions -> [state : SessionStates, socket : BOOLEAN, recv : Int]]
      /\ \A s \in Sessions : session[s].state = "none" /\ session[s].socket = FALSE
  BY DEF Init, NoSession, SessionStates
<1>4. closing_ \in BOOLEAN /\ m_OutActive \in BOOLEAN /\ allocated \in BOOLEAN
  BY Zenon DEF Init
<1>5. Typed
  BY <1>1, <1>2, <1>3, <1>4 DEF Init, Typed, Opening
<1>6. Located
  BY <1>1 DEF Init, Located, InInput, InOutput, InHandleClose, InDrop
<1>7. Holders /\ SessionInv
  BY <1>1, <1>2, <1>3 DEF Init, Holders, SessionInv, InInput
<1> QED
  BY <1>5, <1>6, <1>7 DEF Control

LEMMA AccStep == Control /\ Acceptor => Control'
<1> SUFFICES ASSUME Control, Acceptor PROVE Control'
  BY Zenon
<1> USE SocketAssumption DEF Control, Opening, NetPlaces,
    InInput, InOutput, InHandleClose, InDrop, Callers, SessionStates, Kinds, life, output
<1>1. CASE OpenBegin
  BY <1>1 DEF OpenBegin, Typed, Located, Holders, SessionInv, IsAlive
<1>2. CASE OnSocketOpen
  BY <1>2 DEF OnSocketOpen, Typed, Located, Holders, SessionInv, IsAlive
<1>3. CASE OpenAllocate
  BY <1>3 DEF OpenAllocate, Typed, Located, Holders, SessionInv, IsAlive
<1>4. CASE OpenRegister
  BY <1>4 DEF OpenRegister, Typed, Located, Holders, SessionInv, IsAlive
<1>5. CASE OpenEnd
  BY <1>5 DEF OpenEnd, Typed, Located, Holders, SessionInv, IsAlive
<1> QED
  BY <1>1, <1>2, <1>3, <1>4, <1>5, Zenon DEF Acceptor

LEMMA NetStep == Control /\ NetThread => Control'
<1> SUFFICES ASSUME Control, NetThread PROVE Control'
  OBVIOUS
<1> USE SocketAssumption DEF Control, Opening, NetPlaces, InInput, InOutput, InHandleClose, InDrop,
        Callers, SessionStates, Kinds, life, output, NULL
<1>n. net \in Nets
  BY Zenon DEF Typed
<1>1. CASE Update
  BY <1>n, <1>1, NextPlace DEF Update, Typed, Located, Holders, SessionInv, IsAlive
<1>2. CASE DispatchOutput
  BY <1>n, <1>2, NextPlace DEF DispatchOutput, Typed, Located, Holders, SessionInv, IsAlive
<1>3. CASE handle_input
  <2>1. net' \in Nets /\ (\/ net'.pc = "handle_close"
                          \/ ~closing_ /\ net'.pc \in {"update", "process"} /\ net'.by = "input")
    <3>1. net.by = "none"
      BY <1>3 DEF handle_input, Located
    <3>2. Fail => net' \in Nets /\ net'.pc = "handle_close"
      BY <1>n, <3>1, NextPlace, Zenon
    <3>3. \A kind \in Kinds : net' = [pc |-> "process", by |-> "input", packet |-> kind]
              => net' \in Nets /\ net'.pc = "process" /\ net'.by = "input"
      BY DEF Nets
    <3>4. net' = [InLoop EXCEPT !.pc = "update", !.by = "input"]
              => net' \in Nets /\ net'.pc = "update" /\ net'.by = "input"
      BY <1>n, NextPlace, Zenon
    <3> QED
      BY <1>3, <3>2, <3>3, <3>4, Zenon DEF handle_input
  <2> QED
    BY <1>3, <2>1 DEF handle_input, Typed, Located, Holders, SessionInv, IsAlive
<1>4. CASE ProcessIncoming
  BY <1>n, <1>4, NextPlace DEF ProcessIncoming, Typed, Located, Holders, SessionInv, IsAlive
<1>5. CASE CountTest
  BY <1>n, <1>5, NextPlace DEF CountTest, Typed, Located, Holders, SessionInv, IsAlive
<1>6. CASE CountUse
  BY <1>n, <1>6, NextPlace DEF CountUse, Typed, Located, Holders, SessionInv, IsAlive
<1>7. CASE HandlePingEnd
  BY <1>n, <1>7, NextPlace DEF HandlePingEnd, Handled, Typed, Located, Holders, SessionInv, IsAlive
<1>8. CASE QueuePacket
  BY <1>n, <1>8, NextPlace DEF QueuePacket, Handled, Typed, Located, Holders, SessionInv, IsAlive
<1>9. CASE HandlePing
  BY <1>n, <1>9, NextPlace DEF HandlePing, Typed, Located, Holders, SessionInv, IsAlive
<1>10. CASE HandleAuthRefuse
  BY <1>n, <1>10, NextPlace DEF HandleAuthRefuse, Typed, Located, Holders, SessionInv, IsAlive
<1>11. CASE handle_close
  <2>1. net.pc \in InHandleClose /\ net' \in Nets /\ net'.pc \in InHandleClose \cup {"loop"}
    BY <1>n, <1>11, NextPlace, Zenon DEF handle_close
  <2>2. CASE net.pc = "handle_close"
    BY <1>11, <2>1, <2>2, NextPlace DEF handle_close, Typed, Located, Holders, SessionInv, IsAlive
  <2>3. CASE net.pc = "forget"
    BY <1>11, <2>1, <2>3, NextPlace DEF handle_close, Typed, Located, Holders, SessionInv, IsAlive
  <2>4. CASE net.pc = "remove"
    BY <1>11, <2>1, <2>4, NextPlace DEF handle_close, Typed, Located, Holders, SessionInv, IsAlive
  <2> QED
    BY <2>1, <2>2, <2>3, <2>4, Zenon
<1>12. CASE AddNewSockets
  BY <1>n, <1>12, NextPlace DEF AddNewSockets, Typed, Located, Holders, SessionInv, IsAlive
<1>13. CASE DropSocket
  <2>1. net.pc \in InDrop /\ net' \in Nets /\ net'.pc \in InDrop \cup {"loop"}
    BY <1>n, <1>13, NextPlace, Zenon DEF DropSocket
  <2>2. CASE net.pc = "close"
    BY <1>13, <2>1, <2>2, NextPlace DEF DropSocket, Typed, Located, Holders, SessionInv, IsAlive
  <2>3. CASE net.pc = "forget_drop"
    BY <1>13, <2>1, <2>3, NextPlace DEF DropSocket, Typed, Located, Holders, SessionInv, IsAlive
  <2>4. CASE net.pc = "drop"
    BY <1>13, <2>1, <2>4, NextPlace DEF DropSocket, Typed, Located, Holders, SessionInv, IsAlive
  <2> QED
    BY <2>1, <2>2, <2>3, <2>4, Zenon
<1>14. CASE handle_output
  <2>1. net' = net \/ Done \/ Fail
    BY <1>14, Zenon DEF handle_output, handle_output_queue, Again
  <2>2. mask' = mask \/ mask' = mask \cup {"write"} \/ mask' = mask \ {"write"}
    BY <1>14 DEF handle_output, handle_output_queue, cancel_wakeup_output, schedule_wakeup_output
  <2>3. m_OutActive' \in BOOLEAN
    <3>1. m_OutActive \in BOOLEAN
      BY DEF Typed
    <3> QED
      BY <1>14, <3>1, ZenonT(40) DEF handle_output, handle_output_queue, cancel_wakeup_output, schedule_wakeup_output
  <2>4. /\ net.pc = "output"
        /\ UNCHANGED <<closing_, refs, m_Session, member, allocated, acc, srv, session>>
    BY <1>14, Zenon DEF handle_output
  <2>5. /\ net' \in Nets /\ net'.pc \in {"output", "loop", "handle_close", "close"}
        /\ net'.pc = "loop" => net'.by = "none"
    BY <1>n, <2>1, <2>4, NextPlace, Zenon
  <2>6. mask' \in SUBSET {"read", "write"} /\ "read" \in mask' /\ mask' # {}
    BY <2>2, <2>4, Zenon DEF Typed, Located
  <2>7. net'.pc = "close" => member = "sockets"
    BY <1>n, <2>1, <2>4, NextPlace DEF Located
  <2>8. Typed'
    BY <2>3, <2>4, <2>5, <2>6 DEF Typed
  <2>9. Located'
    <3>1. net'.pc = "output" => net' = net
      BY <1>n, <2>1, NextPlace
    <3> QED
      BY <2>4, <2>5, <2>6, <2>7, <3>1 DEF Located
  <2>10. Holders' /\ SessionInv'
    BY <2>4, <2>5, Zenon DEF Holders, SessionInv, IsAlive
  <2> QED
    BY <2>8, <2>9, <2>10, Zenon
<1>15. CASE \E s \in Sessions : HandleAuthSession(s)
  BY <1>n, <1>15, NextPlace DEF HandleAuthSession, Typed, Located, Holders, SessionInv, IsAlive
<1>16. CASE \E s \in Sessions : AddSession(s)
  BY <1>n, <1>16, NextPlace DEF AddSession, Handled, Typed, Located, Holders, SessionInv, IsAlive
<1> QED
  BY <1>1, <1>2, <1>3, <1>4, <1>5, <1>6, <1>7, <1>8, <1>9, <1>10, <1>11, <1>12, <1>13, <1>14, <1>15, <1>16, Zenon DEF NetThread

LEMMA ServerStep == Control /\ Server => Control'
<1> SUFFICES ASSUME Control, Server PROVE Control'
  OBVIOUS
<1> USE SocketAssumption DEF Control, Opening, NetPlaces, InInput, InOutput, InHandleClose, InDrop,
        Callers, SessionStates, Kinds, life, output, InLoop, At, Done, Again, Fail, Handled, NULL
<1>1. CASE CloseSocket
  <2>1. CASE srv.pc = "close"
    BY <1>1, <2>1 DEF CloseSocket, SrvAt, Typed, Located, Holders, SessionInv, IsAlive
  <2>2. CASE srv.pc = "forget"
    BY <1>1, <2>2 DEF CloseSocket, SrvAt, Typed, Located, Holders, SessionInv, IsAlive
  <2> QED
    BY <1>1, <2>1, <2>2, Zenon DEF CloseSocket
<1>2. CASE \E s \in Sessions : AddSession_(s)
  BY <1>2 DEF AddSession_, SrvAt, SrvIdle, Deleted, Typed, Located, Holders, SessionInv, IsAlive
<1>3. CASE \E s \in Sessions : Discard(s)
  BY <1>3 DEF Discard, SrvAt, SrvIdle, Deleted, Typed, Located, Holders, SessionInv, IsAlive
<1>4. CASE \E s \in Sessions : CloseSession(s)
  BY <1>4 DEF CloseSession, SrvAt, SrvIdle, Deleted, Typed, Located, Holders, SessionInv, IsAlive
<1>5. CASE \E s \in Sessions : HandlePacket(s)
  BY <1>5 DEF HandlePacket, SrvAt, SrvIdle, Deleted, Typed, Located, Holders, SessionInv, IsAlive
<1>6. CASE \E s \in Sessions : DeleteSession(s)
  BY <1>6 DEF DeleteSession, SrvAt, SrvIdle, Deleted, Typed, Located, Holders, SessionInv, IsAlive
<1>7. CASE \E s \in Sessions : EndSession(s)
  BY <1>7 DEF EndSession, SrvAt, SrvIdle, Deleted, Typed, Located, Holders, SessionInv, IsAlive
<1>8. CASE \E s \in Sessions, size \in Sizes : ServerSend(s, size)
  BY <1>8 DEF ServerSend, SrvAt, SrvIdle, Typed, Located, Holders, SessionInv, IsAlive
<1> QED
  BY <1>1, <1>2, <1>3, <1>4, <1>5, <1>6, <1>7, <1>8, Zenon DEF Server

-----------------------------------------------------------------------------
(* The reference count *)

SocketHolders == {s \in Sessions : session[s].socket}
RefCount ==
    refs = Count(acc # "done") + Count(member # "none") + Count(mask # {})
           + Cardinality(SocketHolders)

\* The sessions that hold the socket, as a set that grows and shrinks by one.
LEMMA HoldersAreFinite == IsFiniteSet(SocketHolders) /\ Cardinality(SocketHolders) \in Nat
  BY SocketAssumption, FS_Subset, FS_CardinalityType DEF SocketHolders

LEMMA HoldersKept ==
    ASSUME \A s \in Sessions : session'[s].socket <=> session[s].socket
    PROVE  SocketHolders' = SocketHolders
  BY DEF SocketHolders

\* One more session, or one less.
LEMMA HolderAdded ==
    ASSUME NEW s \in Sessions, s \notin SocketHolders, SocketHolders' = SocketHolders \cup {s}
    PROVE  Cardinality(SocketHolders)' = Cardinality(SocketHolders) + 1
  BY HoldersAreFinite, FS_AddElement

LEMMA HolderRemoved ==
    ASSUME NEW s \in Sessions, s \in SocketHolders, SocketHolders' = SocketHolders \ {s}
    PROVE  Cardinality(SocketHolders)' = Cardinality(SocketHolders) - 1
  BY HoldersAreFinite, FS_RemoveElement, Zenon

\* The sessions do not change hands in most steps, and then the other holders do.
LEMMA OtherRefs ==
    ASSUME Control, RefCount, Acceptor \/ handle_close \/ AddNewSockets \/ DropSocket
    PROVE  RefCount'
<1> USE DEF Control, life
<1>1. UNCHANGED session
  BY DEF Acceptor, OpenBegin, OnSocketOpen, OpenAllocate, OpenRegister, OpenEnd,
         handle_close, AddNewSockets, DropSocket
<1>2. Cardinality(SocketHolders)' = Cardinality(SocketHolders) /\ Cardinality(SocketHolders) \in Nat
  BY <1>1, HoldersAreFinite, Zenon DEF SocketHolders
<1> USE DEF RefCount, Count
<1>3. CASE OpenBegin \/ OpenAllocate
  BY <1>2, <1>3, Zenon DEF OpenBegin, OpenAllocate
<1>4. CASE OnSocketOpen
  BY <1>2, <1>4 DEF OnSocketOpen, Located
<1>5. CASE OpenRegister
  BY <1>2, <1>5 DEF OpenRegister, Located
<1>6. CASE OpenEnd
  BY <1>2, <1>6 DEF OpenEnd
<1>7. CASE handle_close
  BY <1>2, <1>7 DEF handle_close, Located, InHandleClose
<1>8. CASE AddNewSockets
  BY <1>2, <1>8 DEF AddNewSockets
<1>9. CASE DropSocket
  BY <1>2, <1>9 DEF DropSocket, Located, InDrop
<1> QED
  BY <1>3, <1>4, <1>5, <1>6, <1>7, <1>8, <1>9, Zenon DEF Acceptor

LEMMA RefsKept ==
    ASSUME Control, RefCount, UNCHANGED <<refs, acc, member>>, mask' = {} <=> mask = {},
           \A s \in Sessions : session'[s].socket <=> session[s].socket
    PROVE  RefCount'
<1>1. Cardinality(SocketHolders)' = Cardinality(SocketHolders)
  BY HoldersKept, Zenon
<1> QED
  BY <1>1, Zenon DEF RefCount, Count

LEMMA NetRefs == Control /\ RefCount /\ NetThread => RefCount'
<1> SUFFICES ASSUME Control, RefCount, NetThread PROVE RefCount'
  OBVIOUS
<1> USE DEF Control, life
<1>1. CASE Update \/ DispatchOutput \/ handle_input \/ ProcessIncoming \/ CountTest \/ CountUse
             \/ HandlePingEnd \/ HandlePing \/ HandleAuthRefuse
  <2>1. UNCHANGED <<refs, acc, member, mask, session>>
    BY <1>1, Zenon DEF Update, DispatchOutput, handle_input, ProcessIncoming, CountTest, CountUse,
               HandlePingEnd, HandlePing, HandleAuthRefuse
  <2> QED
    BY <2>1, RefsKept, Zenon
<1>2. CASE QueuePacket
  <2>1. UNCHANGED <<refs, acc, member, mask>>
    BY <1>2 DEF QueuePacket
  <2>2. \A s \in Sessions : session'[s].socket <=> session[s].socket
    BY <1>2 DEF QueuePacket, Typed, NULL
  <2> QED
    BY <2>1, <2>2, RefsKept, Zenon
<1>3. CASE handle_output
  <2>1. UNCHANGED <<refs, acc, member, session>> /\ net.pc = "output"
    BY <1>3, Zenon DEF handle_output
  <2>2. mask' = mask \/ mask' = mask \cup {"write"} \/ mask' = mask \ {"write"}
    BY <1>3, Zenon DEF handle_output, handle_output_queue, cancel_wakeup_output, schedule_wakeup_output
  <2>3. mask' = {} <=> mask = {}
    BY <2>1, <2>2 DEF Located
  <2> QED
    BY <2>1, <2>3, RefsKept, Zenon
<1>4. ASSUME NEW s \in Sessions, HandleAuthSession(s) PROVE RefCount'
  <2>1. s \notin SocketHolders /\ SocketHolders' = SocketHolders \cup {s}
    BY <1>4 DEF HandleAuthSession, SocketHolders, Holders, Typed
  <2>2. Cardinality(SocketHolders)' = Cardinality(SocketHolders) + 1
    BY <2>1, HolderAdded, Zenon
  <2> QED
    BY <1>4, <2>2, HoldersAreFinite DEF HandleAuthSession, RefCount, Count
<1>5. ASSUME NEW s \in Sessions, AddSession(s) PROVE RefCount'
  <2>1. UNCHANGED <<refs, acc, member, mask>>
    BY <1>5 DEF AddSession
  <2>2. \A t \in Sessions : session'[t].socket <=> session[t].socket
    BY <1>5 DEF AddSession, Typed
  <2> QED
    BY <2>1, <2>2, RefsKept, Zenon
<1>6. CASE handle_close \/ AddNewSockets \/ DropSocket
  BY <1>6, OtherRefs, Zenon
<1> QED
  BY <1>1, <1>2, <1>3, <1>4, <1>5, <1>6, Zenon DEF NetThread

LEMMA ServerRefs == Control /\ RefCount /\ Server => RefCount'
<1> SUFFICES ASSUME Control, RefCount, Server PROVE RefCount'
  OBVIOUS
<1> USE DEF Control, life
<1>1. ASSUME NEW s \in Sessions, NEW size \in Sizes, ServerSend(s, size) PROVE RefCount'
  <2>1. UNCHANGED <<refs, acc, member, mask, session>>
    BY <1>1, Zenon DEF ServerSend
  <2> QED
    BY <2>1, RefsKept, Zenon
<1>2. ASSUME NEW s \in Sessions, AddSession_(s) \/ Discard(s) \/ HandlePacket(s)
      PROVE  RefCount'
  <2>1. UNCHANGED <<refs, acc, member, mask>>
    BY <1>2, Zenon DEF AddSession_, Discard, HandlePacket
  <2>2. \A t \in Sessions : session'[t].socket <=> session[t].socket
    BY <1>2 DEF AddSession_, Discard, HandlePacket, Typed
  <2> QED
    BY <2>1, <2>2, RefsKept
<1>3. ASSUME NEW s \in Sessions, DeleteSession(s) \/ EndSession(s)
      PROVE  RefCount'
  <2>1. session[s].socket /\ session' = [session EXCEPT ![s] = Deleted]
    BY <1>3, Zenon DEF DeleteSession, EndSession, Holders
  <2>2. s \in SocketHolders /\ SocketHolders' = SocketHolders \ {s}
    BY <2>1 DEF SocketHolders, Typed, Deleted
  <2>3. Cardinality(SocketHolders)' = Cardinality(SocketHolders) - 1
    BY <2>2, HolderRemoved, Zenon
  <2>4. refs' = refs - 1 /\ UNCHANGED <<acc, member, mask>>
    BY <1>3, Zenon DEF DeleteSession, EndSession
  <2> QED
    BY <2>3, <2>4, HoldersAreFinite DEF RefCount, Count
<1>4. ASSUME CloseSocket \/ \E s \in Sessions : CloseSession(s) PROVE RefCount'
  <2>1. UNCHANGED <<refs, acc, member, mask, session>>
    BY <1>4 DEF CloseSocket, CloseSession
  <2> QED
    BY <2>1, RefsKept
<1> QED
  BY <1>1, <1>2, <1>3, <1>4, Zenon DEF Server

-----------------------------------------------------------------------------
(* The output *)

Unit == Nat \X Nat
StreamType ==
    /\ stream \in Seq(Unit) /\ wire \in Seq(Unit)
    /\ m_OutBuffer \in Seq(Unit) /\ msg_queue \in Seq(Unit)
StreamInv == StreamType /\ StreamIntact

\* A sequence is what comes before a cut and what comes after it.
LEMMA Cut ==
    ASSUME NEW S, NEW q \in Seq(S), NEW n \in 0..Len(q)
    PROVE  /\ SubSeq(q, 1, n) \in Seq(S) /\ SubSeq(q, n + 1, Len(q)) \in Seq(S)
           /\ SubSeq(q, 1, n) \o SubSeq(q, n + 1, Len(q)) = q
<1>1. Len(q) \in Nat /\ n \in Int /\ n + 1 \in Int
  OBVIOUS
<1>2. \A i \in 1..Len(q) : q[i] \in S
  BY ElementOfSeq
<1>3. SubSeq(q, 1, n) \in Seq(S)
  <2>1. \A i \in 1..n : q[i] \in S
    BY <1>1, <1>2
  <2> QED
    BY <1>1, <2>1, SubSeqProperties
<1>4. SubSeq(q, n + 1, Len(q)) \in Seq(S)
  <2>1. \A i \in (n + 1)..Len(q) : q[i] \in S
    BY <1>1, <1>2
  <2> QED
    BY <1>1, <2>1, SubSeqProperties
<1>5. SubSeq(q, 1, n) \o SubSeq(q, n + 1, Len(q)) = SubSeq(q, 1, Len(q))
  <2>1. 1 \in 1..(Len(q) + 1) /\ n \in (1 - 1)..Len(q) /\ Len(q) \in n..Len(q)
    BY <1>1
  <2> QED
    BY <2>1, ConcatAdjacentSubSeq, Zenon
<1> QED
  BY <1>3, <1>4, <1>5, SubSeqFull, Zenon

\* Three pieces, joined in either grouping.
LEMMA Joined ==
    ASSUME NEW S, NEW a \in Seq(S), NEW b \in Seq(S), NEW c \in Seq(S)
    PROVE  /\ a \o b \in Seq(S)
           /\ (a \o b) \o c = a \o (b \o c)
BY ConcatProperties, ConcatAssociative

LEMMA PacketIsSeq ==
    ASSUME StreamType, NEW size \in Nat
    PROVE  [j \in 1..size |-> <<LastPacket + 1, j>>] \in Seq(Unit)
<1>1. LastPacket \in Nat
  <2>1. CASE stream = <<>>
    BY <2>1 DEF LastPacket
  <2>2. CASE stream # <<>>
    <3>1. Len(stream) \in 1..Len(stream)
      BY <2>2, EmptySeq DEF StreamType
    <3>2. stream[Len(stream)] \in Unit
      BY <3>1, ElementOfSeq, Zenon DEF StreamType
    <3> QED
      BY <2>2, <3>2 DEF LastPacket, Unit
  <2> QED
    BY <2>1, <2>2
<1> QED
  BY <1>1 DEF Unit

LEMMA SendKeeps ==
    ASSUME StreamInv, NEW size \in Nat, SendPacket(size), UNCHANGED wire
    PROVE  StreamInv'
<1> DEFINE packet == [j \in 1..size |-> <<LastPacket + 1, j>>]
<1>1. packet \in Seq(Unit)
  BY PacketIsSeq DEF StreamInv
<1>2. \/ UNCHANGED <<m_OutBuffer, msg_queue, stream, lost>>
      \/ /\ stream' = stream \o packet /\ msg_queue = <<>>
         /\ m_OutBuffer' = m_OutBuffer \o packet /\ UNCHANGED <<msg_queue, lost>>
      \/ /\ stream' = stream \o packet /\ lost' = "tail" /\ UNCHANGED <<m_OutBuffer, msg_queue>>
      \/ /\ stream' = stream \o packet
         /\ msg_queue' = msg_queue \o packet /\ UNCHANGED <<m_OutBuffer, lost>>
  BY Zenon DEF SendPacket
<1> HIDE DEF packet
<1>3. CASE UNCHANGED <<m_OutBuffer, msg_queue, stream, lost>>
  BY <1>3 DEF StreamInv, StreamType, StreamIntact
<1>4. /\ stream \o packet \in Seq(Unit) /\ m_OutBuffer \o packet \in Seq(Unit)
      /\ msg_queue \o packet \in Seq(Unit)
  BY <1>1, ConcatProperties DEF StreamInv, StreamType
<1>5. CASE /\ stream' = stream \o packet /\ msg_queue = <<>>
           /\ m_OutBuffer' = m_OutBuffer \o packet /\ UNCHANGED <<msg_queue, lost>>
  <2>1. (wire \o m_OutBuffer) \o packet = wire \o (m_OutBuffer \o packet)
    <3>1. wire \in Seq(Unit) /\ m_OutBuffer \in Seq(Unit) /\ packet \in Seq(Unit)
      BY <1>1, Zenon DEF StreamInv, StreamType
    <3> QED
      BY <3>1, Joined
  <2>2. /\ (wire \o m_OutBuffer) \o <<>> = wire \o m_OutBuffer
        /\ (wire \o (m_OutBuffer \o packet)) \o <<>> = wire \o (m_OutBuffer \o packet)
    BY <1>4, ConcatEmptySeq, ConcatProperties DEF StreamInv, StreamType
  <2> QED
    BY <1>4, <1>5, <2>1, <2>2, Zenon DEF StreamInv, StreamType, StreamIntact
<1>6. CASE stream' = stream \o packet /\ lost' = "tail" /\ UNCHANGED <<m_OutBuffer, msg_queue>>
  BY <1>4, <1>6, Zenon DEF StreamInv, StreamType, StreamIntact
<1>7. CASE /\ stream' = stream \o packet
           /\ msg_queue' = msg_queue \o packet /\ UNCHANGED <<m_OutBuffer, lost>>
  <2>1. ((wire \o m_OutBuffer) \o msg_queue) \o packet = (wire \o m_OutBuffer) \o (msg_queue \o packet)
    <3> DEFINE ab == wire \o m_OutBuffer
    <3>1. ab \in Seq(Unit) /\ msg_queue \in Seq(Unit)
      BY ConcatProperties DEF StreamInv, StreamType
    <3> HIDE DEF ab
    <3>2. (ab \o msg_queue) \o packet = ab \o (msg_queue \o packet)
      BY <1>1, <3>1, Joined
    <3> QED
      BY <3>2 DEF ab
  <2> QED
    BY <1>4, <1>7, <2>1, Zenon DEF StreamInv, StreamType, StreamIntact
<1> QED
  BY <1>2, <1>3, <1>5, <1>6, <1>7, Zenon

LEMMA OutputKeeps ==
    ASSUME StreamInv, handle_output
    PROVE  StreamInv'
<1> DEFINE Taken(n) == SubSeq(msg_queue, 1, n)
           Rest(n) == SubSeq(msg_queue, n + 1, Len(msg_queue))
<1>1. /\ stream \in Seq(Unit) /\ wire \in Seq(Unit)
      /\ m_OutBuffer \in Seq(Unit) /\ msg_queue \in Seq(Unit)
      /\ <<>> \in Seq(Unit) /\ wire \o m_OutBuffer \in Seq(Unit)
  BY EmptySeq, ConcatProperties DEF StreamInv, StreamType
<1>2. stream' = stream
  BY DEF handle_output
<1>3. CASE UNCHANGED <<m_OutBuffer, msg_queue, wire, lost>>
  BY <1>2, <1>3, Zenon DEF StreamInv, StreamType, StreamIntact
<1>4. CASE \E n \in 0..(Len(m_OutBuffer) - 1) :
              /\ wire' = wire \o SubSeq(m_OutBuffer, 1, n)
              /\ m_OutBuffer' = SubSeq(m_OutBuffer, n + 1, Len(m_OutBuffer))
              /\ UNCHANGED <<msg_queue, lost>>
  <2>1. PICK n \in 0..(Len(m_OutBuffer) - 1) :
              /\ wire' = wire \o SubSeq(m_OutBuffer, 1, n)
              /\ m_OutBuffer' = SubSeq(m_OutBuffer, n + 1, Len(m_OutBuffer))
              /\ UNCHANGED <<msg_queue, lost>>
    BY <1>4, Zenon
  <2> DEFINE b == SubSeq(m_OutBuffer, 1, n)
             c == SubSeq(m_OutBuffer, n + 1, Len(m_OutBuffer))
  <2>2. n \in 0..Len(m_OutBuffer)
    BY <1>1, LenProperties
  <2>3. b \in Seq(Unit) /\ c \in Seq(Unit) /\ b \o c = m_OutBuffer
    BY <1>1, <2>2, Cut, Zenon
  <2>4. wire' = wire \o b /\ m_OutBuffer' = c /\ UNCHANGED <<msg_queue, lost>>
    BY <2>1
  <2> HIDE DEF b, c
  <2>5. wire \o b \in Seq(Unit) /\ (wire \o b) \o c = wire \o (b \o c)
    <3>1. wire \in Seq(Unit) /\ b \in Seq(Unit) /\ c \in Seq(Unit)
      BY <1>1, <2>3
    <3> QED
      BY <3>1, Joined
  <2>6. StreamType'
    BY <1>1, <1>2, <2>3, <2>4, <2>5 DEF StreamType
  <2>7. StreamIntact'
    BY <1>2, <2>3, <2>4, <2>5, Zenon DEF StreamInv, StreamIntact
  <2> QED
    BY <2>6, <2>7 DEF StreamInv
<1>5. CASE /\ msg_queue = <<>> /\ m_OutBuffer' = <<>> /\ wire' = wire \o m_OutBuffer
           /\ UNCHANGED <<msg_queue, lost>>
  <2>1. StreamType'
    BY <1>1, <1>2, <1>5, Zenon DEF StreamType
  <2>2. (wire \o m_OutBuffer) \o <<>> = wire \o m_OutBuffer
    BY <1>1, ConcatEmptySeq
  <2>3. StreamIntact'
    BY <1>2, <1>5, <2>2, Zenon DEF StreamInv, StreamIntact
  <2> QED
    BY <2>1, <2>3, Zenon DEF StreamInv
<1>6. CASE \E n \in 0..Len(msg_queue) :
              /\ m_OutBuffer' = <<>> /\ msg_queue' = Rest(n) /\ UNCHANGED lost
              /\ wire' = (wire \o m_OutBuffer) \o Taken(n)
  <2>1. PICK n \in 0..Len(msg_queue) :
              /\ m_OutBuffer' = <<>> /\ msg_queue' = Rest(n) /\ UNCHANGED lost
              /\ wire' = (wire \o m_OutBuffer) \o Taken(n)
    BY <1>6, Zenon
  <2> DEFINE c == Taken(n)
             d == Rest(n)
  <2>2. c \in Seq(Unit) /\ d \in Seq(Unit) /\ c \o d = msg_queue
    BY <1>1, Cut, Zenon
  <2>3. /\ m_OutBuffer' = <<>> /\ msg_queue' = d /\ UNCHANGED lost
        /\ wire' = (wire \o m_OutBuffer) \o c
    BY <2>1
  <2> HIDE DEF c, d
  <2>4. /\ (wire \o m_OutBuffer) \o c \in Seq(Unit)
        /\ ((wire \o m_OutBuffer) \o c) \o d = (wire \o m_OutBuffer) \o (c \o d)
    <3> DEFINE ab == wire \o m_OutBuffer
    <3>1. ab \in Seq(Unit) /\ c \in Seq(Unit) /\ d \in Seq(Unit)
      BY <1>1, <2>2, Zenon
    <3> HIDE DEF ab
    <3>2. ab \o c \in Seq(Unit) /\ (ab \o c) \o d = ab \o (c \o d)
      BY <3>1, Joined
    <3> QED
      BY <3>2 DEF ab
  <2>5. ((wire \o m_OutBuffer) \o c) \o <<>> = (wire \o m_OutBuffer) \o c
    BY <2>4, ConcatEmptySeq
  <2>6. StreamType'
    BY <1>1, <1>2, <2>2, <2>3, <2>4, Zenon DEF StreamType
  <2>7. StreamIntact'
    BY <1>2, <2>2, <2>3, <2>4, <2>5, Zenon DEF StreamInv, StreamIntact
  <2> QED
    BY <2>6, <2>7, Zenon DEF StreamInv
<1>7. CASE \E size \in 0..Len(msg_queue), n \in 0..Len(msg_queue) :
              /\ m_OutBuffer' = <<>> /\ msg_queue' = Rest(size) /\ lost' # "no"
              /\ \/ wire' = wire \o m_OutBuffer
                 \/ wire' = (wire \o m_OutBuffer) \o Taken(n)
  <2>1. PICK size \in 0..Len(msg_queue), n \in 0..Len(msg_queue) :
              /\ m_OutBuffer' = <<>> /\ msg_queue' = Rest(size) /\ lost' # "no"
              /\ \/ wire' = wire \o m_OutBuffer
                 \/ wire' = (wire \o m_OutBuffer) \o Taken(n)
    BY <1>7, Zenon
  <2>2. Rest(size) \in Seq(Unit) /\ Taken(n) \in Seq(Unit)
    BY <1>1, Cut
  <2> HIDE DEF Taken, Rest
  <2>3. (wire \o m_OutBuffer) \o Taken(n) \in Seq(Unit)
    BY <1>1, <2>2, ConcatProperties, Zenon
  <2> QED
    BY <1>1, <1>2, <2>1, <2>2, <2>3, Zenon DEF StreamInv, StreamType, StreamIntact
<1> HIDE DEF Taken, Rest
<1>8. CASE m_OutBuffer' = <<>> /\ handle_output_queue(m_OutBuffer)
  <2>1. CASE msg_queue = <<>> /\ wire' = wire \o m_OutBuffer /\ UNCHANGED <<msg_queue, lost>>
    BY <1>5, <1>8, <2>1
  <2>2. CASE \E size \in 1..Len(msg_queue) :
                /\ \/ /\ wire' = wire \o m_OutBuffer
                      /\ msg_queue' = Rest(size) /\ lost' = "error"
                   \/ \E n \in 0..size :
                      /\ wire' = (wire \o m_OutBuffer) \o Taken(n)
                      /\ \/ n = size /\ msg_queue' = Rest(size) /\ UNCHANGED lost
                         \/ n < size /\ msg_queue' = Rest(n) /\ UNCHANGED lost
                         \/ msg_queue' = Rest(size) /\ lost' \in {"head", "error"}
    <3>1. PICK size \in 1..Len(msg_queue) :
                /\ \/ /\ wire' = wire \o m_OutBuffer
                      /\ msg_queue' = Rest(size) /\ lost' = "error"
                   \/ \E n \in 0..size :
                      /\ wire' = (wire \o m_OutBuffer) \o Taken(n)
                      /\ \/ n = size /\ msg_queue' = Rest(size) /\ UNCHANGED lost
                         \/ n < size /\ msg_queue' = Rest(n) /\ UNCHANGED lost
                         \/ msg_queue' = Rest(size) /\ lost' \in {"head", "error"}
      BY <2>2, Zenon
    <3>2. Len(msg_queue) \in Nat /\ size \in 0..Len(msg_queue)
      BY <1>1, LenProperties
    <3>3. 0..size \subseteq 0..Len(msg_queue)
      BY <3>2
    <3> QED
      BY <1>6, <1>7, <1>8, <3>1, <3>2, <3>3, Zenon
  <2> QED
    BY <1>8, <2>1, <2>2, Zenon DEF handle_output_queue, Taken, Rest
<1> QED
  BY <1>3, <1>4, <1>8, Zenon DEF handle_output

\* Every other step leaves the stream, its three places and the loss alone.
LEMMA StreamStep == StreamInv /\ Next => StreamInv'
<1> SUFFICES ASSUME StreamInv, Next PROVE StreamInv'
  OBVIOUS
<1>1. ASSUME UNCHANGED <<stream, wire, m_OutBuffer, msg_queue, lost>> PROVE StreamInv'
  BY <1>1, Zenon DEF StreamInv, StreamType, StreamIntact
<1>2. Sizes \subseteq Nat /\ Short \in Nat
  BY SocketAssumption
<1>3. CASE Acceptor
  <2>1. CASE OpenAllocate
    BY <1>1, <1>2, <2>1, SendKeeps, Zenon DEF OpenAllocate
  <2>2. CASE OpenBegin \/ OnSocketOpen \/ OpenRegister \/ OpenEnd
    BY <1>1, <2>2, Zenon DEF OpenBegin, OnSocketOpen, OpenRegister, OpenEnd, output
  <2> QED
    BY <1>3, <2>1, <2>2, Zenon DEF Acceptor
<1>4. CASE NetThread
  <2>1. CASE handle_output
    BY <2>1, OutputKeeps, Zenon
  <2>2. CASE HandlePing \/ HandleAuthRefuse
    BY <1>1, <1>2, <2>2, SendKeeps, Zenon DEF HandlePing, HandleAuthRefuse
  <2>3. CASE Update \/ DispatchOutput \/ handle_input \/ ProcessIncoming \/ CountTest
    BY <1>1, <2>3, Zenon DEF Update, DispatchOutput, handle_input, ProcessIncoming, CountTest, output
  <2>4. CASE CountUse \/ HandlePingEnd \/ QueuePacket
    BY <1>1, <2>4, Zenon DEF CountUse, HandlePingEnd, QueuePacket, output
  <2>5. CASE \E s \in Sessions : HandleAuthSession(s) \/ AddSession(s)
    BY <1>1, <2>5, Zenon DEF HandleAuthSession, AddSession, output
  <2>6. CASE handle_close \/ AddNewSockets \/ DropSocket
    BY <1>1, <2>6, Zenon DEF handle_close, AddNewSockets, DropSocket, output
  <2> QED
    BY <1>4, <2>1, <2>2, <2>3, <2>4, <2>5, <2>6, Zenon DEF NetThread
<1>5. CASE Server
  <2>1. CASE \E s \in Sessions, size \in Sizes : ServerSend(s, size)
    BY <1>2, <2>1, SendKeeps, Zenon DEF ServerSend
  <2>2. CASE CloseSocket
    BY <1>1, <2>2, Zenon DEF CloseSocket, output
  <2>3. CASE \E s \in Sessions : AddSession_(s) \/ Discard(s) \/ CloseSession(s) \/ HandlePacket(s)
                                  \/ DeleteSession(s) \/ EndSession(s)
    BY <1>1, <2>3, Zenon DEF AddSession_, Discard, CloseSession, HandlePacket, DeleteSession,
                      EndSession, output
  <2> QED
    BY <1>5, <2>1, <2>2, <2>3, Zenon DEF Server
<1> QED
  BY <1>3, <1>4, <1>5, Zenon DEF Next

-----------------------------------------------------------------------------
(* The theorems *)

IInv == Control /\ RefCount

LEMMA InvInit == Init => IInv
<1> SUFFICES ASSUME Init PROVE IInv
  OBVIOUS
<1>1. SocketHolders = {}
  BY Zenon DEF Init, SocketHolders, NoSession
<1>2. RefCount
  BY <1>1, FS_EmptySet DEF Init, RefCount, Count
<1> QED
  BY <1>2, ControlInit, Zenon DEF IInv

LEMMA InvStep == IInv /\ [Next]_vars => IInv'
<1> SUFFICES ASSUME IInv, [Next]_vars PROVE IInv'
  OBVIOUS
<1>1. CASE Acceptor
  BY <1>1, AccStep, OtherRefs, Zenon DEF IInv
<1>2. CASE NetThread
  BY <1>2, NetStep, NetRefs, Zenon DEF IInv
<1>3. CASE Server
  BY <1>3, ServerStep, ServerRefs, Zenon DEF IInv
<1>4. CASE UNCHANGED vars
  <2>1. UNCHANGED <<closing_, refs, m_Session, mask, member, m_OutActive, allocated,
                    acc, net, srv, session>>
    BY <1>4, Zenon DEF vars, life, output
  <2>2. Typed' /\ Located'
    BY <2>1 DEF IInv, Control, Typed, Located
  <2>3. Holders'
    BY <2>1, Zenon DEF IInv, Control, Holders
  <2>4. SessionInv'
    BY <2>1, Zenon DEF IInv, Control, SessionInv, IsAlive
  <2>5. RefCount'
    BY <2>1 DEF IInv, RefCount, SocketHolders
  <2> QED
    BY <2>2, <2>3, <2>4, <2>5, Zenon DEF IInv, Control
<1> QED
  BY <1>1, <1>2, <1>3, <1>4, Zenon DEF Next

THEOREM IInvCorrect == Spec => []IInv
  BY InvInit, InvStep, PTL DEF Spec

\* For any number of sessions, the socket has exactly as many references as
\* there are holders, and the thread inside it is one of them or works for one.
THEOREM RefsAreHeldCorrect == Spec => []RefsAreHeld
<1>1. IInv => RefsAreHeld
  <2> SUFFICES ASSUME IInv PROVE RefsAreHeld
    BY Zenon
  <2>1. refs = Count(acc # "done") + Count(member # "none") + Count(mask # {})
               + Cardinality({s \in Sessions : session[s].socket})
    BY Zenon DEF IInv, RefCount, SocketHolders
  <2>2. net.pc # "loop" => mask # {} \/ member = "sockets"
    BY DEF IInv, Control, Typed, Nets, NetPlaces, Located
  <2>3. srv.pc # "idle" => session[srv.session].socket
    BY Zenon DEF IInv, Control, Holders
  <2> QED
    BY <2>1, <2>2, <2>3, Zenon DEF RefsAreHeld
<1> QED
  BY <1>1, IInvCorrect, PTL

\* Whatever the two threads do while open() runs, the network thread never
\* touches the output buffer before it is allocated.
THEOREM NotUpdatedWhileOpeningCorrect == Spec => []NotUpdatedWhileOpening
<1>1. IInv => NotUpdatedWhileOpening
  BY Zenon DEF IInv, Control, Typed, Located, NotUpdatedWhileOpening
<1> QED
  BY <1>1, IInvCorrect, PTL

\* Under m_SessionLock, the network thread never follows a deleted session.
THEOREM SessionUseIsLiveCorrect == Spec => []SessionUseIsLive
<1>1. IInv => SessionUseIsLive
  BY DEF IInv, Control, SessionInv, InInput, SessionUseIsLive
<1> QED
  BY <1>1, IInvCorrect, PTL

\* For any sizes of packets, buffer and queue, the units come out as they were
\* encrypted as long as none was dropped.
THEOREM StreamIntactCorrect == Spec => []StreamIntact
<1>1. Init => StreamInv
  BY EmptySeq, ConcatEmptySeq DEF Init, StreamInv, StreamType, StreamIntact
<1>2. StreamInv /\ [Next]_vars => StreamInv'
  <2>1. StreamInv /\ UNCHANGED vars => StreamInv'
    BY DEF vars, output, StreamInv, StreamType, StreamIntact
  <2> QED
    BY <2>1, StreamStep, Zenon
<1>3. StreamInv => StreamIntact
  BY DEF StreamInv
<1> QED
  BY <1>1, <1>2, <1>3, PTL DEF Spec

=============================================================================
