----------------------------- MODULE LoginQueue -----------------------------
(***************************************************************************)
(* The world's list of sessions and its login queue: the sessions network  *)
(* threads hand over, the one session an account may have, the player      *)
(* limit, and the queue of raw WorldSession pointers behind it.            *)
(*                                                                         *)
(* A step of the world thread is one iteration of a loop of                *)
(* World::UpdateSessions; sockets are opened and closed by network threads *)
(* in between. Sessions are objects that are reused once deleted, as       *)
(* addresses are.                                                          *)
(***************************************************************************)
EXTENDS Integers, Sequences, FiniteSets

CONSTANTS
    Account,
    Staff,          \* accounts whose security is above SEC_PLAYER
    Session,        \* addresses of WorldSession objects
    None,           \* no session
    Limit,          \* values PlayerLimit takes; 0 means no limit
    Tolerance       \* DisconnectToleranceInterval is configured

ASSUME LoginAssumption ==
    /\ Staff \subseteq Account
    /\ None \notin Session \cup Account
    /\ Limit \subseteq Nat
    /\ Tolerance \in BOOLEAN
    /\ IsFiniteSet(Account)

VARIABLES
    pc,             \* the world thread: "add" and "update" in UpdateSessions, "tick" elsewhere
    stopping,       \* KickAll was called: this UpdateSessions is the last
    todo,           \* accounts the loop over m_sessions has still to visit
    addSessQueue,
    m_sessions,     \* account -> session, or None
    m_QueuedPlayer,
    m_playerLimit,
    m_disconnects,  \* accounts with an entry; entries never expire
    account,        \* of each session object, or None when it is not allocated
    open,           \* sessions whose socket is open
    inQueue,        \* sessions with m_inQueue set
    loading         \* sessions with m_playerLoading set

worldVars == <<m_sessions, m_QueuedPlayer, m_disconnects>>
vars == <<pc, stopping, todo, addSessQueue, worldVars, m_playerLimit, account, open, inQueue, loading>>

Init ==
    /\ pc = "tick"
    /\ stopping = FALSE
    /\ todo = {}
    /\ addSessQueue = <<>>
    /\ m_sessions = [a \in Account |-> None]
    /\ m_QueuedPlayer = <<>>
    /\ m_playerLimit \in Limit
    /\ m_disconnects = {}
    /\ account = [s \in Session |-> None]
    /\ open = {} /\ inQueue = {} /\ loading = {}

Elems(q) == {q[k] : k \in 1..Len(q)}
Online == {a \in Account : m_sessions[a] # None}

\* `delete` of the sessions in S.
Deleted(S) == [s \in Session |-> IF s \in S THEN None ELSE account[s]]

-----------------------------------------------------------------------------
(* Network threads *)

\* HandleAuthSession makes the session and hands it to World::AddSession.
AddSession(s, a) ==
    /\ pc # "halted"
    /\ account[s] = None
    /\ account' = [account EXCEPT ![s] = a]
    /\ open' = open \cup {s}
    /\ addSessQueue' = Append(addSessQueue, s)
    /\ UNCHANGED <<pc, stopping, todo, worldVars, m_playerLimit, inQueue, loading>>

CloseSocket(s) ==
    /\ s \in open
    /\ open' = open \ {s}
    /\ UNCHANGED <<pc, stopping, todo, addSessQueue, worldVars, m_playerLimit, account, inQueue, loading>>

-----------------------------------------------------------------------------
(* The queue *)

\* The list without the first occurrence of s.
erase(q, s) ==
    IF s \notin Elems(q) THEN q
    ELSE LET at == CHOOSE k \in 1..Len(q) : q[k] = s /\ \A j \in 1..(k - 1) : q[j] # s
         IN  [k \in 1..(Len(q) - 1) |-> IF k < at THEN q[k] ELSE q[k + 1]]

\* Defect: the session that leaves is still counted.
Room_counted(st, found) ==
    m_playerLimit = 0 \/ st.size - Len(st.queue) < m_playerLimit

\* Is there room for the first session of the queue, once the session that
\* leaves, if it was not found in the queue, is not counted?
Room(st, found) ==
    LET sessions == st.size - Len(st.queue)
        count    == IF ~found /\ sessions > 0 THEN sessions - 1 ELSE sessions
    IN  m_playerLimit = 0 \/ count < m_playerLimit

\* Defect: the session is found in the queue and not erased.
RemoveQueuedPlayer_kept(st, s) ==
    LET found == s \in Elems(st.queue)
        pop   == Room(st, found) /\ st.queue # <<>>
    IN  [st EXCEPT !.queue = IF pop THEN Tail(st.queue) ELSE @,
                   !.flags = @ \ ({s} \cup IF pop THEN {Head(st.queue)} ELSE {}),
                   !.found = found]

\* Defect: the session admitted keeps its m_inQueue.
RemoveQueuedPlayer_flagged(st, s) ==
    LET found == s \in Elems(st.queue)
        rest  == erase(st.queue, s)
        pop   == Room(st, found) /\ rest # <<>>
    IN  [st EXCEPT !.queue = IF pop THEN Tail(rest) ELSE rest,
                   !.flags = @ \ {s},
                   !.found = found]

\* Defect: the last session of the queue is admitted.
RemoveQueuedPlayer_last(st, s) ==
    LET found == s \in Elems(st.queue)
        rest  == erase(st.queue, s)
        pop   == Room(st, found) /\ rest # <<>>
    IN  [st EXCEPT !.queue = IF pop THEN SubSeq(rest, 1, Len(rest) - 1) ELSE rest,
                   !.flags = @ \ ({s} \cup IF pop THEN {rest[Len(rest)]} ELSE {}),
                   !.found = found]

\* Takes s out of the queue, then admits the first session of it if there is
\* room. st holds the size of m_sessions, the queue and the m_inQueue flags.
RemoveQueuedPlayer(st, s) ==
    LET found == s \in Elems(st.queue)
        rest  == erase(st.queue, s)
        pop   == Room(st, found) /\ rest # <<>>
    IN  [st EXCEPT !.queue = IF pop THEN Tail(rest) ELSE rest,
                   !.flags = @ \ ((IF found THEN {s} ELSE {})
                                   \cup (IF pop THEN {Head(rest)} ELSE {})),
                   !.found = found]

Lists == [size |-> Cardinality(Online), queue |-> m_QueuedPlayer, flags |-> inQueue, found |-> FALSE]

-----------------------------------------------------------------------------
(* World::UpdateSessions *)

BeginUpdateSessions ==
    /\ pc = "tick"
    /\ pc' = "add"
    /\ UNCHANGED <<stopping, todo, addSessQueue, worldVars, m_playerLimit, account, open, inQueue, loading>>

\* AddSession_ when the account's session is loading a character: RemoveSession
\* fails and the new session is closed and deleted.
RefuseSession ==
    /\ pc = "add" /\ addSessQueue # <<>>
    /\ LET s == Head(addSessQueue) IN
          /\ m_sessions[account[s]] \in loading
          /\ account' = Deleted({s})
          /\ open' = open \ {s}
    /\ addSessQueue' = Tail(addSessQueue)
    /\ UNCHANGED <<pc, stopping, todo, worldVars, m_playerLimit, inQueue, loading>>

\* Must the session wait? registered is the number of sessions, its own included.
MustQueue(a, registered, decrease_session) ==
    /\ m_playerLimit > 0
    /\ registered - (IF decrease_session THEN 1 ELSE 0) >= m_playerLimit
    /\ a \notin Staff
    /\ ~(Tolerance /\ a \in m_disconnects)

\* The rest of AddSession_: the account's old session, if any, is closed, taken
\* out of the queue and deleted; the new one is registered, and queued or admitted.
AcceptSession ==
    /\ pc = "add" /\ addSessQueue # <<>>
    /\ LET s   == Head(addSessQueue)
           a   == account[s]
           old == m_sessions[a]
           st  == IF old = None THEN Lists ELSE RemoveQueuedPlayer(Lists, old)
           full == MustQueue(a, Cardinality(Online \cup {a}), ~st.found)
       IN  /\ old \notin loading
           /\ m_sessions' = [m_sessions EXCEPT ![a] = s]
           /\ m_QueuedPlayer' = IF full THEN Append(st.queue, s) ELSE st.queue
           /\ inQueue' = (st.flags \ {old}) \cup (IF full THEN {s} ELSE {})
           /\ account' = Deleted({old})
           /\ open' = open \ {old}
    /\ addSessQueue' = Tail(addSessQueue)
    /\ UNCHANGED <<pc, stopping, todo, m_disconnects, m_playerLimit, loading>>

\* Defect: only the sessions that wait are updated.
BeginUpdate_waiting ==
    /\ pc = "add" /\ addSessQueue = <<>>
    /\ pc' = "update"
    /\ todo' = {a \in Online : m_sessions[a] \in inQueue}
    /\ UNCHANGED <<stopping, addSessQueue, worldVars, m_playerLimit, account, open, inQueue, loading>>

BeginUpdate ==
    /\ pc = "add" /\ addSessQueue = <<>>
    /\ pc' = "update"
    /\ todo' = Online
    /\ UNCHANGED <<stopping, addSessQueue, worldVars, m_playerLimit, account, open, inQueue, loading>>

\* WorldSession::Update returns true. Its packets and query callbacks start and
\* end the loading of a character; a queued session may not start one.
UpdateSession(a) ==
    /\ pc = "update" /\ a \in todo
    /\ m_sessions[a] \in open
    /\ todo' = todo \ {a}
    /\ \/ loading' = loading \ {m_sessions[a]}
       \/ m_sessions[a] \notin inQueue /\ loading' = loading \cup {m_sessions[a]}
    /\ UNCHANGED <<pc, stopping, addSessQueue, worldVars, m_playerLimit, account, open, inQueue>>

\* WorldSession::Update returns false: the socket was closed, or the connection
\* was idle outside of the queue and is closed now.
DropSession(a) ==
    /\ pc = "update" /\ a \in todo
    /\ \E s \in {m_sessions[a]} : \E first \in {RemoveQueuedPlayer(Lists, s)} :
       \E second \in {RemoveQueuedPlayer(first, s)} :
           /\ s \in open => s \notin inQueue
           /\ m_disconnects' = IF ~first.found /\ Tolerance THEN m_disconnects \cup {a} ELSE m_disconnects
           /\ m_QueuedPlayer' = second.queue
           /\ inQueue' = second.flags \ {s}
           /\ m_sessions' = [m_sessions EXCEPT ![a] = None]
           /\ account' = Deleted({s})
           /\ open' = open \ {s}
           /\ loading' = loading \ {s}
    /\ todo' = todo \ {a}
    /\ UNCHANGED <<pc, stopping, addSessQueue, m_playerLimit>>

EndUpdateSessions ==
    /\ pc = "update" /\ todo = {}
    /\ pc' = IF stopping THEN "halted" ELSE "tick"
    /\ UNCHANGED <<stopping, todo, addSessQueue, worldVars, m_playerLimit, account, open, inQueue, loading>>

-----------------------------------------------------------------------------
(* Commands and shutdown *)

\* `.server plimit`, from a session's update or the console, and a reload of
\* the configuration: the queue is left as it is.
SetPlayerAmountLimit(limit) ==
    /\ pc \in {"update", "tick"}
    /\ limit # m_playerLimit
    /\ m_playerLimit' = limit
    /\ UNCHANGED <<pc, stopping, todo, addSessQueue, worldVars, account, open, inQueue, loading>>

\* The end of WorldRunnable::run. The sessions keep their m_inQueue.
KickAll ==
    /\ pc = "tick"
    /\ pc' = "add"
    /\ stopping' = TRUE
    /\ m_QueuedPlayer' = <<>>
    /\ open' = open \ {m_sessions[a] : a \in Online}
    /\ UNCHANGED <<todo, addSessQueue, m_sessions, m_disconnects, m_playerLimit, account, inQueue, loading>>

-----------------------------------------------------------------------------
WorldStep ==
    \/ BeginUpdateSessions \/ RefuseSession \/ AcceptSession \/ BeginUpdate
    \/ EndUpdateSessions
    \/ \E a \in Account : UpdateSession(a) \/ DropSession(a)

Next ==
    \/ WorldStep
    \/ KickAll
    \/ \E limit \in Limit : SetPlayerAmountLimit(limit)
    \/ \E s \in Session : CloseSocket(s) \/ \E a \in Account : AddSession(s, a)

Spec == Init /\ [][Next]_vars

\* A player in the world leaves in the end.
Leave(a) ==
    /\ m_sessions[a] # None /\ m_sessions[a] \notin inQueue
    /\ CloseSocket(m_sessions[a])

\* The world thread keeps running, connections arrive more slowly than the loop
\* over addSessQueue takes them, and players do not stay for ever.
FairSpec ==
    /\ Spec
    /\ WF_vars(WorldStep)
    /\ SF_vars(BeginUpdate)
    /\ \A a \in Account : WF_vars(Leave(a))

-----------------------------------------------------------------------------
TypeOK ==
    /\ pc \in {"tick", "add", "update", "halted"}
    /\ stopping \in BOOLEAN
    /\ todo \subseteq Account
    /\ addSessQueue \in Seq(Session)
    /\ m_sessions \in [Account -> Session \cup {None}]
    /\ m_QueuedPlayer \in Seq(Session)
    /\ m_playerLimit \in Limit
    /\ m_disconnects \subseteq Account
    /\ account \in [Session -> Account \cup {None}]
    /\ open \subseteq Session /\ inQueue \subseteq Session /\ loading \subseteq Session

\* The queue and m_sessions hold no pointer to a deleted session: a queued
\* session is its account's registered one, and it is queued once. So the
\* subtraction in GetActiveSessionCount never wraps (World.h:635).
NoDanglingSession ==
    /\ \A a \in Online : account[m_sessions[a]] = a
    /\ \A s \in Elems(m_QueuedPlayer) : account[s] # None /\ m_sessions[account[s]] = s
    /\ \A j, k \in 1..Len(m_QueuedPlayer) : m_QueuedPlayer[j] = m_QueuedPlayer[k] => j = k
    /\ \A s \in Elems(addSessQueue) : account[s] # None /\ m_sessions[account[s]] # s

\* m_inQueue, which keeps a client from choosing a character before its turn,
\* is set exactly for the sessions in the queue (KickAll clears the queue only).
FlagMatchesQueue == ~stopping => inQueue = Elems(m_QueuedPlayer)

Active == Cardinality(Online) - Len(m_QueuedPlayer)

\* The queue is empty, or the limit is reached.
NoIdle == m_QueuedPlayer # <<>> => m_playerLimit > 0 /\ Active >= m_playerLimit

\* Nobody waits while there is room, unless an operator has raised the limit: no
\* other step leaves a slot idle (World.cpp:316-372, 2615-2641).
NoIdleSlot ==
    [][NoIdle /\ m_playerLimit' = m_playerLimit /\ ~stopping' => NoIdle']_vars

PositionOf(s) == CHOOSE k \in 1..Len(m_QueuedPlayer) : m_QueuedPlayer[k] = s

\* First come, first served: a session that waits never falls back, and one
\* that is admitted was not behind one that still waits.
QueueIsFair ==
    [][\A s, t \in Elems(m_QueuedPlayer) :
          PositionOf(s) < PositionOf(t) /\ s \in Elems(m_QueuedPlayer)' /\ account[t] = account'[t]
              => t \in Elems(m_QueuedPlayer)' /\ PositionOf(s)' < PositionOf(t)']_vars

\* As long as players leave, everyone who waits is admitted or gives up. Session
\* objects are interchangeable: one stands for all.
QueueAdvances ==
    LET s == CHOOSE t \in Session : TRUE
    IN  s \in inQueue ~> (s \notin inQueue \/ stopping)

=============================================================================
