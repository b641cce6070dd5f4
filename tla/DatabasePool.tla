---------------------------- MODULE DatabasePool ----------------------------
(***************************************************************************)
(* A DatabaseWorkerPool: the queue of delayed operations and its worker    *)
(* threads, the synchronous connections the other threads share, and the   *)
(* closing of the pool. Operations are numbered in the order in which they *)
(* are issued; what they do to the database is SqlTransaction's subject.   *)
(***************************************************************************)
EXTENDS Integers, Sequences, FiniteSets

CONSTANTS
    Worker,         \* asynchronous connections, each with its DatabaseWorker
    Synch,          \* synchronous connections
    Thread,         \* threads that use the pool
    NoThread,
    Ops             \* bound on the operations issued

ASSUME PoolAssumption == NoThread \notin Thread /\ Ops \in Nat

Op == 1..Ops
Idle == 0           \* no operation
Exited == -1        \* svc() has returned

VARIABLES
    m_queue,        \* the ACE_Activation_Queue, and whether it is active
    active,
    request,        \* the operation a worker calls, Idle or Exited
    m_Mutex,        \* the thread that holds each synchronous connection
    direct,         \* the operation a thread executes itself, or Idle
    pool,           \* "open", "joining" in Close(), "closed"
    issued,         \* operations issued
    delayed,        \* those handed to the queue
    executed,       \* how often each one was executed
    dropped         \* those flushed from the queue by Close()

vars == <<m_queue, active, request, m_Mutex, direct, pool, issued, delayed, executed, dropped>>

Init ==
    /\ m_queue = <<>> /\ active = TRUE
    /\ request = [w \in Worker |-> Idle]
    /\ m_Mutex = [c \in Synch |-> NoThread]
    /\ direct = [t \in Thread |-> Idle]
    /\ pool = "open"
    /\ issued = 0
    /\ delayed = {} /\ dropped = {}
    /\ executed = [n \in Op |-> 0]

Queued == {m_queue[k] : k \in 1..Len(m_queue)}

-----------------------------------------------------------------------------
(* Delayed operations *)

\* Execute, AsyncQuery, DelayQueryHolder, CommitTransaction and the pings of
\* KeepAlive, from any thread.
Enqueue ==
    /\ pool = "open" /\ issued < Ops
    /\ issued' = issued + 1
    /\ delayed' = delayed \cup {issued'}
    /\ m_queue' = Append(m_queue, issued')
    /\ UNCHANGED <<active, request, m_Mutex, direct, pool, executed, dropped>>

\* Defect: the request stays in the queue until its worker has called it.
Dequeue_peek(w) ==
    /\ request[w] = Idle
    /\ m_queue # <<>>
    /\ request' = [request EXCEPT ![w] = Head(m_queue)]
    /\ UNCHANGED <<m_queue, active, m_Mutex, direct, pool, issued, delayed, executed, dropped>>

\* Defect: the youngest request is taken first.
Dequeue_last(w) ==
    /\ request[w] = Idle
    /\ m_queue # <<>>
    /\ request' = [request EXCEPT ![w] = m_queue[Len(m_queue)]]
    /\ m_queue' = SubSeq(m_queue, 1, Len(m_queue) - 1)
    /\ UNCHANGED <<active, m_Mutex, direct, pool, issued, delayed, executed, dropped>>

\* DatabaseWorker::svc takes a request ...
Dequeue(w) ==
    /\ request[w] = Idle
    /\ active /\ m_queue # <<>>
    /\ request' = [request EXCEPT ![w] = Head(m_queue)]
    /\ m_queue' = Tail(m_queue)
    /\ UNCHANGED <<active, m_Mutex, direct, pool, issued, delayed, executed, dropped>>

\* ... and calls it on its own connection.
Call(w) ==
    /\ request[w] \in Op
    /\ executed' = [executed EXCEPT ![request[w]] = @ + 1]
    /\ request' = [request EXCEPT ![w] = Idle]
    /\ UNCHANGED <<m_queue, active, m_Mutex, direct, pool, issued, delayed, dropped>>

\* dequeue() returns NULL once the queue is deactivated.
Exit(w) ==
    /\ request[w] = Idle
    /\ ~active
    /\ request' = [request EXCEPT ![w] = Exited]
    /\ UNCHANGED <<m_queue, active, m_Mutex, direct, pool, issued, delayed, executed, dropped>>

-----------------------------------------------------------------------------
(* Direct operations *)

\* DirectExecute, Query and DirectCommitTransaction up to GetFreeConnection.
BeginDirect(t) ==
    /\ pool = "open" /\ issued < Ops
    /\ direct[t] = Idle
    /\ issued' = issued + 1
    /\ direct' = [direct EXCEPT ![t] = issued']
    /\ UNCHANGED <<m_queue, active, request, m_Mutex, pool, delayed, executed, dropped>>

\* The loop comes to a connection whose mutex LockIfReady acquires.
GetFreeConnection(t, c) ==
    /\ direct[t] # Idle /\ \A d \in Synch : m_Mutex[d] # t
    /\ m_Mutex[c] = NoThread
    /\ m_Mutex' = [m_Mutex EXCEPT ![c] = t]
    /\ UNCHANGED <<m_queue, active, request, direct, pool, issued, delayed, executed, dropped>>

\* KeepAlive pings a synchronous connection if it is free, and skips it if not.
KeepAlive(t, c) ==
    /\ pool = "open" /\ issued < Ops
    /\ direct[t] = Idle
    /\ m_Mutex[c] = NoThread
    /\ issued' = issued + 1
    /\ direct' = [direct EXCEPT ![t] = issued']
    /\ m_Mutex' = [m_Mutex EXCEPT ![c] = t]
    /\ UNCHANGED <<m_queue, active, request, pool, delayed, executed, dropped>>

\* Defect: the operation needs a second connection while it holds one.
ExecuteDirect_nested(t, c) ==
    /\ m_Mutex[c] = t
    /\ \E d \in Synch : m_Mutex[d] = NoThread
    /\ executed' = [executed EXCEPT ![direct[t]] = @ + 1]
    /\ direct' = [direct EXCEPT ![t] = Idle]
    /\ m_Mutex' = [m_Mutex EXCEPT ![c] = NoThread]
    /\ UNCHANGED <<m_queue, active, request, pool, issued, delayed, dropped>>

\* The operation is executed, then Unlock is called, on every path.
ExecuteDirect(t, c) ==
    /\ m_Mutex[c] = t
    /\ executed' = [executed EXCEPT ![direct[t]] = @ + 1]
    /\ direct' = [direct EXCEPT ![t] = Idle]
    /\ m_Mutex' = [m_Mutex EXCEPT ![c] = NoThread]
    /\ UNCHANGED <<m_queue, active, request, pool, issued, delayed, dropped>>

-----------------------------------------------------------------------------
(* Close(), when the threads that use the pool have ended *)

\* ACE_Message_Queue::close deactivates the queue and flushes what is in it.
Close ==
    /\ pool = "open" /\ \A t \in Thread : direct[t] = Idle
    /\ pool' = "joining"
    /\ active' = FALSE
    /\ dropped' = Queued /\ m_queue' = <<>>
    /\ UNCHANGED <<request, m_Mutex, direct, issued, delayed, executed>>

\* Every worker has been waited for.
Closed ==
    /\ pool = "joining"
    /\ \A w \in Worker : request[w] = Exited
    /\ pool' = "closed"
    /\ UNCHANGED <<m_queue, active, request, m_Mutex, direct, issued, delayed, executed, dropped>>

-----------------------------------------------------------------------------
WorkerStep(w) == Dequeue(w) \/ Call(w) \/ Exit(w)

Next ==
    \/ Enqueue
    \/ \E w \in Worker : WorkerStep(w)
    \/ \E t \in Thread :
          \/ BeginDirect(t)
          \/ \E c \in Synch : GetFreeConnection(t, c) \/ KeepAlive(t, c) \/ ExecuteDirect(t, c)
    \/ Close \/ Closed

Spec == Init /\ [][Next]_vars

\* Threads run and the server answers; the loop of GetFreeConnection spins over
\* the connections until it comes to one in a moment when it is free.
FairSpec ==
    /\ Spec
    /\ \A w \in Worker : WF_vars(WorkerStep(w))
    /\ \A t \in Thread : /\ SF_vars(\E c \in Synch : GetFreeConnection(t, c))
                         /\ WF_vars(\E c \in Synch : ExecuteDirect(t, c))
    /\ WF_vars(Closed)

-----------------------------------------------------------------------------
TypeOK ==
    /\ m_queue \in Seq(Op)
    /\ active \in BOOLEAN
    /\ request \in [Worker -> Op \cup {Idle, Exited}]
    /\ m_Mutex \in [Synch -> Thread \cup {NoThread}]
    /\ direct \in [Thread -> Op \cup {Idle}]
    /\ pool \in {"open", "joining", "closed"}
    /\ issued \in 0..Ops
    /\ delayed \subseteq Op /\ dropped \subseteq Op
    /\ executed \in [Op -> Nat]

\* A synchronous connection serves one thread at a time, and a thread holds one
\* only while it executes an operation: "Must be matched with t->Unlock() or
\* you will get deadlocks" (DatabaseWorkerPool.h:464).
LockIsMatched ==
    \A c \in Synch : m_Mutex[c] # NoThread =>
        /\ direct[m_Mutex[c]] # Idle
        /\ \A d \in Synch : m_Mutex[d] = m_Mutex[c] => d = c

Running(n) == (\E w \in Worker : request[w] = n) \/ (\E t \in Thread : direct[t] = n)

\* Every operation issued is executed once: it waits in the queue, or is under
\* way in one thread, or was executed, or was flushed by Close(), never two of
\* these. In particular an operation under way when Close() is called is
\* finished before Close() returns.
ExecutedOnce ==
    \A n \in 1..issued :
        /\ executed[n] <= 1
        /\ executed[n] = 1 <=> n \notin Queued \cup dropped /\ ~Running(n)
        /\ n \in Queued \cup dropped => ~Running(n)
        /\ n \in dropped => pool # "open"

\* Delayed operations start in the order in which they were queued: when one is
\* under way, each one queued before it was executed or is under way at another
\* worker. With one worker, the default, a character that is saved and loaded
\* again is loaded as it was saved.
DelayedInOrder ==
    \A w \in Worker : request[w] \in Op =>
        \A n \in delayed : n < request[w] =>
            executed[n] = 1 \/ \E v \in Worker : request[v] = n

\* Nobody waits for ever: a thread that needs a connection gets one and comes
\* back, and Close() returns because every worker sees that the queue was closed.
WaitsEnd ==
    /\ \A t \in Thread : direct[t] # Idle ~> direct[t] = Idle
    /\ pool = "joining" ~> pool = "closed"

-----------------------------------------------------------------------------
(* The inductive invariant: where numbers may be, that no two places hold the
   same one, and that the queue is active exactly while the pool is open. *)

Located ==
    /\ Queued \subseteq delayed /\ dropped \subseteq delayed
    /\ \A n \in delayed : n <= issued
    /\ \A w \in Worker : request[w] \in Op => request[w] \in delayed
    /\ \A t \in Thread : direct[t] # Idle => direct[t] <= issued /\ direct[t] \notin delayed
    /\ \A n \in Op : n > issued => executed[n] = 0

Distinct ==
    /\ \A j, k \in 1..Len(m_queue) : j < k => m_queue[j] < m_queue[k]
    /\ \A v, w \in Worker : request[v] \in Op /\ request[v] = request[w] => v = w
    /\ \A s, t \in Thread : direct[s] # Idle /\ direct[s] = direct[t] => s = t

OpenIsActive ==
    /\ active <=> pool = "open"
    /\ active => dropped = {}
    /\ ~active => m_queue = <<>>

IInv ==
    TypeOK /\ Located /\ Distinct /\ OpenIsActive /\ LockIsMatched /\ ExecutedOnce /\ DelayedInOrder
=============================================================================
