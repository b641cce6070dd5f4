---------------------------- MODULE WorldSocket ----------------------------
(***************************************************************************)
(* One client connection: the acceptor thread that opens the WorldSocket,  *)
(* the network thread whose reactor reads and writes it, the sessions made *)
(* on it, and the server thread that updates those sessions and sends on   *)
(* it. Outgoing packets are numbered in the order in which their headers   *)
(* are encrypted; packet n of size k is the units <<n, 1>> .. <<n, k>>.    *)
(***************************************************************************)
EXTENDS Integers, Sequences, FiniteSets

CONSTANTS
    Sizes,          \* sizes of the server thread's packets, in units
    Short,          \* size of the challenge, the answer to a ping and the refusal
    OutBufferSize,  \* m_OutBufferSize, in units
    HighWaterMark,  \* of the message queue, in units
    Sessions,       \* numbers of the sessions that can be made
    MaxReceived,    \* bound on the reads that return data
    MaxSent         \* bound on the packets of the server thread

ASSUME SocketAssumption ==
    /\ Sizes \subseteq Nat \ {0} /\ Short \in Nat \ {0}
    /\ OutBufferSize \in Nat /\ HighWaterMark \in Nat \ {0}
    /\ Sessions \subseteq Nat \ {0} /\ IsFiniteSet(Sessions)
    /\ MaxReceived \in Nat /\ MaxSent \in Nat

NULL == 0

VARIABLES
    closing_, refs, m_Session,
    m_OutActive, allocated, m_OutBuffer, msg_queue,
    mask,           \* the events the reactor watches
    member,         \* where the network thread keeps it: "none", "new", "sockets"
    acc, net, srv,  \* control of the three threads
    session,        \* each session's state, m_Socket # NULL, length of _recvQueue
    stream,         \* units encrypted so far
    wire,           \* units the kernel took
    lost,           \* why units were dropped: "no", "tail", "head", "error"
    received, sent, \* reads and server packets so far
    crashed         \* a NULL or deleted session was dereferenced

output == <<m_OutActive, allocated, m_OutBuffer, msg_queue, stream, wire, lost>>
life == <<closing_, refs, m_Session, mask, member>>
vars == <<life, output, acc, net, srv, session, received, sent, crashed>>

NoSession == [state |-> "none", socket |-> FALSE, recv |-> 0]
InLoop == [pc |-> "loop", by |-> "none", packet |-> "none"]

Init ==
    /\ closing_ = FALSE /\ refs = 1 /\ m_Session = NULL
    /\ m_OutActive = FALSE /\ allocated = FALSE
    /\ m_OutBuffer = <<>> /\ msg_queue = <<>>
    /\ mask = {} /\ member = "none"
    /\ acc = "open" /\ net = InLoop /\ srv = [pc |-> "idle", session |-> NULL]
    /\ session = [s \in Sessions |-> NoSession]
    /\ stream = <<>> /\ wire = <<>> /\ lost = "no"
    /\ received = 0 /\ sent = 0 /\ crashed = FALSE

Pending == m_OutBuffer \o msg_queue
LastPacket == IF stream = <<>> THEN 0 ELSE stream[Len(stream)][1]
IsFull(queue) == Len(queue) >= HighWaterMark

-----------------------------------------------------------------------------
(* Sending *)

\* Defect: a packet that fits goes to the buffer while others wait in the queue.
SendPacket_overtake(size) ==
    LET packet == [j \in 1..size |-> <<LastPacket + 1, j>>]
    IN  IF closing_ THEN UNCHANGED <<m_OutBuffer, msg_queue, stream, lost>>
        ELSE /\ stream' = stream \o packet
             /\ IF Len(m_OutBuffer) + size <= OutBufferSize
                THEN m_OutBuffer' = m_OutBuffer \o packet /\ UNCHANGED <<msg_queue, lost>>
                ELSE msg_queue' = msg_queue \o packet /\ UNCHANGED <<m_OutBuffer, lost>>

\* WorldSocket::SendPacket, all of it under m_OutBufferLock.
SendPacket(size) ==
    LET packet == [j \in 1..size |-> <<LastPacket + 1, j>>]
    IN  IF closing_ THEN UNCHANGED <<m_OutBuffer, msg_queue, stream, lost>>
        ELSE /\ stream' = stream \o packet
             /\ \/ /\ Len(m_OutBuffer) + size <= OutBufferSize /\ msg_queue = <<>>
                   /\ m_OutBuffer' = m_OutBuffer \o packet
                   /\ UNCHANGED <<msg_queue, lost>>
                \/ /\ Len(m_OutBuffer) + size > OutBufferSize \/ msg_queue # <<>>
                   /\ UNCHANGED m_OutBuffer
                   /\ IF IsFull(msg_queue)
                      THEN lost' = "tail" /\ UNCHANGED msg_queue
                      ELSE msg_queue' = msg_queue \o packet /\ UNCHANGED lost

\* What SendPacket returns: -1 on a closing socket or a full queue.
SendFails(size) ==
    closing_ \/ /\ Len(m_OutBuffer) + size > OutBufferSize \/ msg_queue # <<>>
                /\ IsFull(msg_queue)

-----------------------------------------------------------------------------
(* The acceptor thread *)

\* Defect: the socket is handed to the network thread before m_OutActive is set.
OpenBegin_inactive ==
    /\ acc = "open" /\ acc' = "opening"
    /\ UNCHANGED <<life, output, net, srv, session, received, sent, crashed>>

\* WorldSocket::open up to the hook of the manager.
OpenBegin ==
    /\ acc = "open" /\ acc' = "opening"
    /\ m_OutActive' = TRUE
    /\ UNCHANGED <<life, allocated, m_OutBuffer, msg_queue, stream, wire, lost>>
    /\ UNCHANGED <<net, srv, session, received, sent, crashed>>

\* WorldSocketMgr::OnSocketOpen and ReactorRunnable::AddSocket, or an option
\* that cannot be set.
OnSocketOpen ==
    /\ acc = "opening"
    /\ \/ acc' = "added" /\ member' = "new" /\ refs' = refs + 1
       \/ acc' = "failed" /\ UNCHANGED <<member, refs>>
    /\ UNCHANGED <<closing_, m_Session, mask, output>>
    /\ UNCHANGED <<net, srv, session, received, sent, crashed>>

\* The buffer, the peer's address and the challenge.
OpenAllocate ==
    /\ acc = "added"
    /\ allocated' = TRUE
    /\ \/ acc' = "failed" /\ UNCHANGED <<m_OutBuffer, msg_queue, stream, lost>>
       \/ /\ SendPacket(Short)
          /\ acc' = IF SendFails(Short) THEN "failed" ELSE "challenged"
    /\ UNCHANGED <<life, m_OutActive, wire>>
    /\ UNCHANGED <<net, srv, session, received, sent, crashed>>

\* register_handler; from here the reactor calls the socket.
OpenRegister ==
    /\ acc = "challenged"
    /\ \/ acc' = "registered" /\ mask' = {"read", "write"} /\ refs' = refs + 1
       \/ acc' = "failed" /\ UNCHANGED <<mask, refs>>
    /\ UNCHANGED <<closing_, m_Session, member, output>>
    /\ UNCHANGED <<net, srv, session, received, sent, crashed>>

\* The end of open gives up the acceptor's reference; close() is called by the
\* acceptor after an open that failed.
OpenEnd ==
    /\ acc \in {"registered", "failed"} /\ acc' = "done"
    /\ closing_' = (closing_ \/ acc = "failed")
    /\ refs' = refs - 1
    /\ UNCHANGED <<m_Session, mask, member, output>>
    /\ UNCHANGED <<net, srv, session, received, sent, crashed>>

Acceptor ==
    OpenBegin \/ OnSocketOpen \/ OpenAllocate \/ OpenRegister \/ OpenEnd

-----------------------------------------------------------------------------
(* The network thread: output *)

At(pc) == net' = [net EXCEPT !.pc = pc]
Done == net' = InLoop
Again == UNCHANGED net

\* -1 makes the reactor call handle_close, and svc() close and drop the socket.
Fail == net' = [InLoop EXCEPT !.pc = IF net.by = "svc" THEN "close" ELSE "handle_close"]

\* WorldSocket::Update, called by svc() and at the end of handle_input.
Update ==
    /\ net.pc = "update"
    /\ IF closing_ THEN Fail
       ELSE IF m_OutActive \/ Pending = <<>> THEN Done
       ELSE At("output")
    /\ UNCHANGED <<life, output, acc, srv, session, received, sent, crashed>>

\* The guard is released before the reactor is called; only this thread reads
\* m_OutActive and the mask then, so one step does both.
schedule_wakeup_output == m_OutActive' = TRUE /\ mask' = mask \cup {"write"}

cancel_wakeup_output == m_OutActive' = FALSE /\ mask' = mask \ {"write"}

\* The first block of the queue: the packet at its head, or what is left of it.
IsHeadBlock(size) ==
    \A k \in 1..Len(msg_queue) : msg_queue[k][1] = msg_queue[1][1] <=> k <= size

\* WorldSocket::handle_output_queue after the buffer's units were taken. The
\* kernel takes n units of the first block, or reports an error. ACE refuses
\* enqueue_head as well as enqueue_tail on a full queue: a block of which
\* nothing was sent is then dropped, one sent in part ends the connection.
handle_output_queue(taken) ==
    \/ /\ msg_queue = <<>>
       /\ wire' = wire \o taken
       /\ cancel_wakeup_output /\ Done
       /\ UNCHANGED <<msg_queue, lost>>
    \/ \E size \in 1..Len(msg_queue) :
       LET rest == SubSeq(msg_queue, size + 1, Len(msg_queue))
       IN  /\ IsHeadBlock(size)
           /\ \/ /\ wire' = wire \o taken
                 /\ msg_queue' = rest /\ lost' = "error"
                 /\ Fail /\ UNCHANGED <<m_OutActive, mask>>
              \/ \E n \in 0..size :
                 /\ wire' = wire \o taken \o SubSeq(msg_queue, 1, n)
                 /\ \/ /\ n = size
                       /\ msg_queue' = rest /\ UNCHANGED lost
                       /\ IF rest = <<>> THEN cancel_wakeup_output /\ Done
                          ELSE Again /\ UNCHANGED <<m_OutActive, mask>>
                    \/ /\ n < size /\ ~IsFull(rest)
                       /\ msg_queue' = SubSeq(msg_queue, n + 1, Len(msg_queue))
                       /\ UNCHANGED lost
                       /\ schedule_wakeup_output /\ Done
                    \/ /\ n = 0 /\ IsFull(rest)
                       /\ msg_queue' = rest /\ lost' = "head"
                       /\ schedule_wakeup_output /\ Done
                    \/ /\ 0 < n /\ n < size /\ IsFull(rest)
                       /\ msg_queue' = rest /\ lost' = "error"
                       /\ Fail /\ UNCHANGED <<m_OutActive, mask>>

\* WorldSocket::handle_output, under m_OutBufferLock.
handle_output ==
    /\ net.pc = "output"
    /\ \/ /\ closing_ /\ Fail
          /\ UNCHANGED <<m_OutActive, mask, m_OutBuffer, msg_queue, wire, lost>>
       \/ /\ ~closing_ /\ m_OutBuffer # <<>> /\ Fail
          /\ UNCHANGED <<m_OutActive, mask, m_OutBuffer, msg_queue, wire, lost>>
       \/ /\ ~closing_
          /\ \E n \in 0..(Len(m_OutBuffer) - 1) :
                /\ wire' = wire \o SubSeq(m_OutBuffer, 1, n)
                /\ m_OutBuffer' = SubSeq(m_OutBuffer, n + 1, Len(m_OutBuffer))
          /\ schedule_wakeup_output /\ Done
          /\ UNCHANGED <<msg_queue, lost>>
       \/ /\ ~closing_
          /\ m_OutBuffer' = <<>>
          /\ handle_output_queue(m_OutBuffer)
    /\ UNCHANGED <<closing_, refs, m_Session, member, allocated, stream>>
    /\ UNCHANGED <<acc, srv, session, received, sent, crashed>>

\* The reactor finds the socket writable.
DispatchOutput ==
    /\ net.pc = "loop" /\ "write" \in mask
    /\ net' = [InLoop EXCEPT !.pc = "output", !.by = "reactor"]
    /\ UNCHANGED <<life, output, acc, srv, session, received, sent, crashed>>

-----------------------------------------------------------------------------
(* The network thread: input *)

Kinds == {"ping", "auth", "keep_alive", "other"}

\* WorldSocket::handle_input: the socket is closing, recv() or the header
\* fails, a fragment arrives, or a whole packet does.
handle_input ==
    /\ net.pc = "loop" /\ "read" \in mask
    /\ \/ Fail /\ UNCHANGED received
       \/ /\ ~closing_ /\ received < MaxReceived
          /\ received' = received + 1
          /\ \/ net' = [InLoop EXCEPT !.pc = "update", !.by = "input"]
             \/ \E kind \in Kinds :
                  net' = [pc |-> "process", by |-> "input", packet |-> kind]
    /\ UNCHANGED <<life, output, acc, srv, session, sent, crashed>>

\* The packet is done: the next one may follow at once, or Update() does.
Handled == Done \/ net' = [InLoop EXCEPT !.pc = "update", !.by = "input"]

\* WorldSocket::ProcessIncoming: closing_ is looked at once ...
ProcessIncoming ==
    /\ net.pc = "process"
    /\ IF closing_ THEN Fail ELSE At("count")
    /\ UNCHANGED <<life, output, acc, srv, session, received, sent, crashed>>

\* ... then the rate limiter tests m_Session, without m_SessionLock ...
CountTest ==
    /\ net.pc = "count"
    /\ At(IF m_Session = NULL THEN "switch" ELSE "limit")
    /\ UNCHANGED <<life, output, acc, srv, session, received, sent, crashed>>

IsAlive(s) == session[s].state \notin {"none", "deleted"}

\* ... and follows the pointer it reads again.
CountUse ==
    /\ net.pc = "limit"
    /\ IF m_Session # NULL /\ IsAlive(m_Session)
       THEN (At("switch") \/ Fail) /\ UNCHANGED crashed
       ELSE crashed' = TRUE /\ UNCHANGED net
    /\ UNCHANGED <<life, output, acc, srv, session, received, sent>>

\* WorldSocket::HandlePing sends the answer ...
HandlePing ==
    /\ net.pc = "switch" /\ net.packet = "ping"
    /\ SendPacket(Short)
    /\ At(IF SendFails(Short) THEN "unsent" ELSE "pong")
    /\ UNCHANGED <<life, m_OutActive, allocated, wire>>
    /\ UNCHANGED <<acc, srv, session, received, sent, crashed>>

\* ... and, under m_SessionLock, fails without a session or, with one, for
\* pings that come too fast.
HandlePingEnd ==
    /\ net.pc \in {"pong", "unsent"}
    /\ \/ Fail
       \/ m_Session # NULL /\ net.pc = "pong" /\ Handled
    /\ UNCHANGED <<life, output, acc, srv, session, received, sent, crashed>>

\* WorldSocket::HandleAuthSession refuses the client, or never gets to it
\* because the socket has a session.
HandleAuthRefuse ==
    /\ net.pc = "switch" /\ net.packet = "auth"
    /\ \/ m_Session # NULL /\ UNCHANGED <<m_OutBuffer, msg_queue, stream, lost>>
       \/ m_Session = NULL /\ SendPacket(Short)
    /\ Fail
    /\ UNCHANGED <<life, m_OutActive, allocated, wire>>
    /\ UNCHANGED <<acc, srv, session, received, sent, crashed>>

\* It makes a session, which takes a reference to the socket ...
HandleAuthSession(s) ==
    /\ net.pc = "switch" /\ net.packet = "auth"
    /\ m_Session = NULL /\ session[s].state = "none"
    /\ session' = [session EXCEPT ![s] = [state |-> "made", socket |-> TRUE, recv |-> 0]]
    /\ refs' = refs + 1 /\ m_Session' = s
    /\ At("authed")
    /\ UNCHANGED <<closing_, mask, member, output, acc, srv, received, sent, crashed>>

\* ... and gives it to the world after CONFIG_SESSION_ADD_DELAY.
AddSession(s) ==
    /\ net.pc = "authed" /\ session[s].state = "made"
    /\ session' = [session EXCEPT ![s].state = "added"]
    /\ Handled
    /\ UNCHANGED <<life, output, acc, srv, received, sent, crashed>>

\* Every other packet: CMSG_KEEP_ALIVE, or one for the session, under
\* m_SessionLock.
QueuePacket ==
    /\ net.pc = "switch"
    /\ \/ net.packet = "keep_alive" /\ Handled /\ UNCHANGED session
       \/ /\ net.packet = "other" /\ m_Session # NULL
          /\ session' = [session EXCEPT ![m_Session].recv = @ + 1]
          /\ Handled
       \/ net.packet = "other" /\ m_Session = NULL /\ Fail /\ UNCHANGED session
    /\ UNCHANGED <<life, output, acc, srv, received, sent, crashed>>

-----------------------------------------------------------------------------
(* The network thread: closing *)

\* WorldSocket::handle_close, its two critical sections and remove_handler.
handle_close ==
    /\ \/ /\ net.pc = "handle_close" /\ closing_' = TRUE
          /\ At("forget") /\ UNCHANGED <<m_Session, mask, refs>>
       \/ /\ net.pc = "forget" /\ m_Session' = NULL
          /\ At("remove") /\ UNCHANGED <<closing_, mask, refs>>
       \/ /\ net.pc = "remove" /\ mask' = {} /\ refs' = refs - 1
          /\ Done /\ UNCHANGED <<closing_, m_Session>>
    /\ UNCHANGED <<member, output, acc, srv, session, received, sent, crashed>>

\* Defect: a new socket that is closed already stays in m_NewSockets.
AddNewSockets_closed ==
    /\ net.pc = "loop" /\ member # "none"
    /\ ~(member = "new" /\ closing_)
    /\ member' = "sockets" /\ UNCHANGED refs
    /\ net' = [InLoop EXCEPT !.pc = "update", !.by = "svc"]
    /\ UNCHANGED <<closing_, m_Session, mask, output>>
    /\ UNCHANGED <<acc, srv, session, received, sent, crashed>>

\* ReactorRunnable::svc leaves the event loop: AddNewSockets, then Update().
AddNewSockets ==
    /\ net.pc = "loop" /\ member # "none"
    /\ IF member = "new" /\ closing_
       THEN member' = "none" /\ refs' = refs - 1 /\ UNCHANGED net
       ELSE /\ member' = "sockets" /\ UNCHANGED refs
            /\ net' = [InLoop EXCEPT !.pc = "update", !.by = "svc"]
    /\ UNCHANGED <<closing_, m_Session, mask, output>>
    /\ UNCHANGED <<acc, srv, session, received, sent, crashed>>

\* svc() closes the socket (CloseSocket: two critical sections, nothing when
\* it is closing already), drops its reference and forgets it.
DropSocket ==
    /\ \/ /\ net.pc = "close" /\ closing_' = TRUE
          /\ At(IF closing_ THEN "drop" ELSE "forget_drop")
          /\ UNCHANGED <<m_Session, refs, member>>
       \/ /\ net.pc = "forget_drop" /\ m_Session' = NULL
          /\ At("drop") /\ UNCHANGED <<closing_, refs, member>>
       \/ /\ net.pc = "drop" /\ refs' = refs - 1 /\ member' = "none"
          /\ Done /\ UNCHANGED <<closing_, m_Session>>
    /\ UNCHANGED <<mask, output, acc, srv, session, received, sent, crashed>>

NetThread ==
    \/ Update \/ handle_output \/ DispatchOutput \/ handle_input
    \/ ProcessIncoming \/ CountTest \/ CountUse \/ HandlePingEnd \/ QueuePacket
    \/ HandlePing \/ HandleAuthRefuse
    \/ \E s \in Sessions : HandleAuthSession(s) \/ AddSession(s)
    \/ handle_close \/ AddNewSockets \/ DropSocket

-----------------------------------------------------------------------------
(* The server thread: the world thread, or the map thread it waits for *)

SrvAt(pc, s) == srv' = [pc |-> pc, session |-> s]
SrvIdle == srv.pc = "idle"

\* World::AddSession_ takes the session into m_sessions.
AddSession_(s) ==
    /\ SrvIdle /\ session[s].state = "added"
    /\ session' = [session EXCEPT ![s].state = "active"]
    /\ UNCHANGED <<life, output, acc, net, srv, received, sent, crashed>>

\* AddSession_ gives up the session it was to add, or the one a new session of
\* the account replaces: CloseSession(), then delete.
Discard(s) ==
    /\ SrvIdle /\ session[s].state \in {"added", "active"}
    /\ session' = [session EXCEPT ![s].state = "discarded"]
    /\ SrvAt("close", s)
    /\ UNCHANGED <<life, output, acc, net, received, sent, crashed>>

\* CloseSession for a kick or a ban, or for an idle connection in Update.
CloseSession(s) ==
    /\ SrvIdle /\ session[s].state = "active" /\ ~closing_
    /\ SrvAt("close", s)
    /\ UNCHANGED <<life, output, acc, net, session, received, sent, crashed>>

\* WorldSession::SendPacket: a packet that is refused closes the socket.
ServerSend(s, size) ==
    /\ SrvIdle /\ session[s].state = "active" /\ sent < MaxSent
    /\ sent' = sent + 1
    /\ SendPacket(size)
    /\ IF SendFails(size) THEN SrvAt("close", s) ELSE UNCHANGED srv
    /\ UNCHANGED <<life, m_OutActive, allocated, wire>>
    /\ UNCHANGED <<acc, net, session, received, crashed>>

\* WorldSession::Update takes a packet while the socket is open.
HandlePacket(s) ==
    /\ SrvIdle /\ session[s].state = "active" /\ ~closing_ /\ session[s].recv > 0
    /\ session' = [session EXCEPT ![s].recv = @ - 1]
    /\ UNCHANGED <<life, output, acc, net, srv, received, sent, crashed>>

\* Defect: the socket goes on pointing at the session.
CloseSocket_pointing ==
    /\ srv.pc \in {"close", "forget"}
    /\ closing_' = TRUE
    /\ SrvAt(IF session[srv.session].state = "discarded" THEN "delete" ELSE "idle", srv.session)
    /\ UNCHANGED <<refs, m_Session, mask, member, output>>
    /\ UNCHANGED <<acc, net, session, received, sent, crashed>>

\* WorldSocket::CloseSocket, its two critical sections.
CloseSocket ==
    LET after == IF session[srv.session].state = "discarded" THEN "delete" ELSE "idle"
    IN  /\ \/ /\ srv.pc = "close" /\ closing_' = TRUE
              /\ SrvAt(IF closing_ THEN after ELSE "forget", srv.session)
              /\ UNCHANGED m_Session
           \/ /\ srv.pc = "forget" /\ m_Session' = NULL
              /\ SrvAt(after, srv.session)
              /\ UNCHANGED closing_
        /\ UNCHANGED <<refs, mask, member, output>>
        /\ UNCHANGED <<acc, net, session, received, sent, crashed>>

Deleted == [state |-> "deleted", socket |-> FALSE, recv |-> 0]

\* Defect: the destructor leaves the reference the session holds.
DeleteSession_held(s) ==
    /\ srv.pc = "delete" /\ srv.session = s
    /\ session' = [session EXCEPT ![s] = Deleted]
    /\ SrvAt("idle", NULL)
    /\ UNCHANGED <<life, output, acc, net, received, sent, crashed>>

\* The destructor of a discarded session, whose socket is closing by now.
DeleteSession(s) ==
    /\ srv.pc = "delete" /\ srv.session = s
    /\ session' = [session EXCEPT ![s] = Deleted]
    /\ refs' = refs - 1
    /\ SrvAt("idle", NULL)
    /\ UNCHANGED <<closing_, m_Session, mask, member, output>>
    /\ UNCHANGED <<acc, net, received, sent, crashed>>

\* WorldSession::Update sees the closed socket, releases it and returns false:
\* UpdateSessions deletes the session.
EndSession(s) ==
    /\ SrvIdle /\ session[s].state = "active" /\ closing_
    /\ session' = [session EXCEPT ![s] = Deleted]
    /\ refs' = refs - 1
    /\ UNCHANGED <<closing_, m_Session, mask, member, output>>
    /\ UNCHANGED <<acc, net, srv, received, sent, crashed>>

Server ==
    \/ CloseSocket
    \/ \E s \in Sessions : AddSession_(s) \/ Discard(s) \/ CloseSession(s) \/ HandlePacket(s)
                           \/ DeleteSession(s) \/ EndSession(s)
    \/ \E s \in Sessions, size \in Sizes : ServerSend(s, size)

Next == ~crashed /\ (Acceptor \/ NetThread \/ Server)

Spec == Init /\ [][Next]_vars

\* Threads go on, and svc() leaves the event loop every 10 ms. The client
\* answers the end of the stream by closing, which wakes handle_input; while it
\* reads, the kernel takes units again and again.
Fairness ==
    /\ WF_vars(~crashed /\ Acceptor)
    /\ WF_vars(~crashed /\ NetThread)
    /\ WF_vars(~crashed /\ CloseSocket)
    /\ \A s \in Sessions : WF_vars(~crashed /\ (AddSession_(s) \/ DeleteSession(s) \/ EndSession(s)))
    /\ SF_vars(~crashed /\ AddNewSockets)
    /\ SF_vars(~crashed /\ DispatchOutput)
    /\ SF_vars(~crashed /\ closing_ /\ handle_input)
    /\ SF_vars(~crashed /\ handle_output /\ wire' # wire)

FairSpec == Spec /\ Fairness

-----------------------------------------------------------------------------
(* Properties *)

Count(b) == IF b THEN 1 ELSE 0

\* The reference count is the number of holders (acceptor, network thread,
\* reactor, sessions), however opening, failing, kicking and closing interleave,
\* and a thread that is inside the socket is covered by one of them: nobody
\* releases twice, forgets to release, or uses a deleted socket.
RefsAreHeld ==
    /\ refs = Count(acc # "done") + Count(member # "none") + Count(mask # {})
              + Cardinality({s \in Sessions : session[s].socket})
    /\ net.pc # "loop" => mask # {} \/ member = "sockets"
    /\ srv.pc # "idle" => session[srv.session].socket

\* The network thread never touches the output buffer before open() has
\* allocated it, although AddSocket publishes the socket earlier: m_OutActive
\* keeps Update() away.
NotUpdatedWhileOpening ==
    ~allocated => /\ mask = {} /\ net.pc # "output"
                  /\ net.pc = "update" => closing_ \/ m_OutActive

\* Where ProcessIncoming and HandlePing use m_Session under m_SessionLock, it is
\* NULL or a session the server thread has not deleted, although closing_ was
\* looked at only once, before.
SessionUseIsLive ==
    net.pc \in {"switch", "pong", "unsent"} => m_Session = NULL \/ IsAlive(m_Session)

\* Unless a unit was dropped, what the kernel took, the buffer and the queue are
\* together the encrypted stream: partial writes and the two places of output
\* never reorder, repeat or lose a unit.
StreamIntact == lost = "no" => wire \o m_OutBuffer \o msg_queue = stream

\* A socket that is closing loses every reference and is deleted.
SocketFreed == closing_ ~> refs = 0 \/ crashed

\* m_SessionLock protects m_Session: no thread follows a pointer that another
\* one has cleared. The rate limiter of ProcessIncoming does not take the lock.
SessionIsProtected == ~crashed

=============================================================================
