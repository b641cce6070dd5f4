--------------------------- MODULE DatabaseProofs ---------------------------
(***************************************************************************)
(* Proofs about DatabasePool, for any number of workers, connections,      *)
(* threads and operations, and about SqlTransaction, for transactions of   *)
(* any size, any number of them, and any number of lost connections and    *)
(* deadlocks.                                                              *)
(***************************************************************************)
EXTENDS DatabasePool, SqlTransaction, TLAPS

-----------------------------------------------------------------------------
(* DatabasePool *)

LEMMA OpFacts ==
    /\ Op \subseteq Nat
    /\ Idle \notin Op /\ Exited \notin Op /\ Idle # Exited
    /\ \A n \in Nat : n < Ops => n + 1 \in Op
    /\ \A n \in Op : n \in Nat /\ 1 <= n /\ n <= Ops
BY PoolAssumption DEF Op, Idle, Exited

LEMMA IssuedOps ==
    ASSUME TypeOK
    PROVE  /\ issued \in Nat
           /\ \A n \in 1..issued : n \in Op
           /\ \A n \in Op : n <= issued => n \in 1..issued
           /\ \A n \in delayed : n \in Op /\ n \in Nat
           /\ \A t \in Thread : direct[t] # Idle => direct[t] \in Op /\ direct[t] \in Nat
<1>1. issued \in 0..Ops
  BY DEF TypeOK
<1>2. /\ issued \in Nat
      /\ \A n \in 1..issued : n \in Op
      /\ \A n \in Op : n <= issued => n \in 1..issued
  BY <1>1, PoolAssumption DEF Op
<1>3. /\ \A n \in delayed : n \in Op
      /\ \A t \in Thread : direct[t] # Idle => direct[t] \in Op
  BY DEF TypeOK
<1> QED
  BY <1>2, <1>3, OpFacts, Zenon

LEMMA TypeInit == Init => TypeOK
<1> SUFFICES ASSUME Init PROVE TypeOK
  OBVIOUS
<1>1. m_queue \in Seq(Op)
  BY DEF Init
<1> QED
  BY <1>1, PoolAssumption DEF Init, TypeOK

LEMMA TypeStep == TypeOK /\ [Next]_vars => TypeOK'
<1> SUFFICES ASSUME TypeOK, [Next]_vars PROVE TypeOK'
  OBVIOUS
<1> USE DEF TypeOK
<1>1. CASE Enqueue
  <2>1. issued' \in 0..Ops /\ issued' \in Op
    BY <1>1, PoolAssumption DEF Enqueue, Op
  <2>2. m_queue' \in Seq(Op)
    BY <1>1, <2>1 DEF Enqueue
  <2> QED
    BY <1>1, <2>1, <2>2 DEF Enqueue
<1>2. ASSUME NEW w \in Worker, Dequeue(w) PROVE TypeOK'
  <2>1. Head(m_queue) \in Op /\ Tail(m_queue) \in Seq(Op)
    BY <1>2 DEF Dequeue
  <2> QED
    BY <1>2, <2>1 DEF Dequeue
<1>3. ASSUME NEW w \in Worker, Call(w) PROVE TypeOK'
  BY <1>3 DEF Call
<1>4. ASSUME NEW w \in Worker, Exit(w) PROVE TypeOK'
  BY <1>4 DEF Exit
<1>5. ASSUME NEW t \in Thread, BeginDirect(t) PROVE TypeOK'
  <2>1. issued' \in 0..Ops /\ issued' \in Op
    BY <1>5, PoolAssumption DEF BeginDirect, Op
  <2> QED
    BY <1>5, <2>1 DEF BeginDirect
<1>6. ASSUME NEW t \in Thread, NEW c \in Synch, GetFreeConnection(t, c) PROVE TypeOK'
  BY <1>6 DEF GetFreeConnection
<1>7. ASSUME NEW t \in Thread, NEW c \in Synch, KeepAlive(t, c) PROVE TypeOK'
  <2>1. issued' \in 0..Ops /\ issued' \in Op
    BY <1>7, PoolAssumption DEF KeepAlive, Op
  <2> QED
    BY <1>7, <2>1 DEF KeepAlive
<1>8. ASSUME NEW t \in Thread, NEW c \in Synch, ExecuteDirect(t, c) PROVE TypeOK'
  <2>1. executed \in [Op -> Nat] /\ executed' = [executed EXCEPT ![direct[t]] = executed[direct[t]] + 1]
    BY <1>8 DEF ExecuteDirect
  <2>2. \A n \in Op : executed'[n] \in Nat
    BY <2>1
  <2>3. executed' \in [Op -> Nat]
    BY <2>1, <2>2, Zenon
  <2> QED
    BY <1>8, <2>3 DEF ExecuteDirect
<1>9. CASE Close
  <2>1. Queued \subseteq Op
    BY DEF Queued
  <2>2. m_queue' \in Seq(Op)
    BY <1>9 DEF Close
  <2> QED
    BY <1>9, <2>1, <2>2, Zenon DEF Close
<1>10. CASE Closed
  BY <1>10 DEF Closed
<1>11. CASE UNCHANGED vars
  BY <1>11 DEF vars
<1> QED
  BY <1>1, <1>2, <1>3, <1>4, <1>5, <1>6, <1>7, <1>8, <1>9, <1>10, <1>11 DEF Next, WorkerStep

\* Every operation of the pool (DatabaseWorkerPool.h, DatabaseWorker.cpp) keeps
\* the state well typed.
THEOREM TypeCorrect == Spec => []TypeOK
BY TypeInit, TypeStep, PTL DEF Spec
-----------------------------------------------------------------------------
(* The set of queued operations when one is appended or taken. *)

LEMMA QueuedType ==
    ASSUME TypeOK
    PROVE  Queued \subseteq Op /\ Len(m_queue) \in Nat
BY DEF TypeOK, Queued

LEMMA QueuedAppend ==
    ASSUME TypeOK, NEW n \in Op, m_queue' = Append(m_queue, n),
           \A k \in Queued : k < n,
           \A j, k \in 1..Len(m_queue) : j < k => m_queue[j] < m_queue[k]
    PROVE  /\ Queued' = Queued \cup {n}
           /\ \A j, k \in 1..Len(m_queue') : j < k => m_queue'[j] < m_queue'[k]
<1>1. m_queue \in Seq(Op) /\ Len(m_queue) \in Nat
  BY DEF TypeOK
<1>2. /\ Len(m_queue') = Len(m_queue) + 1
      /\ m_queue'[Len(m_queue) + 1] = n
      /\ \A k \in 1..Len(m_queue) : m_queue'[k] = m_queue[k]
  BY <1>1
<1>3. \A k \in 1..Len(m_queue') : k \in 1..Len(m_queue) \/ k = Len(m_queue) + 1
  BY <1>1, <1>2
<1>4. Queued' = Queued \cup {n}
  BY <1>1, <1>2, <1>3 DEF Queued
<1>5. \A k \in 1..Len(m_queue) : m_queue[k] < n
  BY DEF Queued
<1>6. ASSUME NEW j \in 1..Len(m_queue'), NEW k \in 1..Len(m_queue'), j < k
      PROVE  m_queue'[j] < m_queue'[k]
  <2>1. j \in 1..Len(m_queue)
    BY <1>1, <1>2, <1>6
  <2> QED
    BY <1>2, <1>3, <1>5, <1>6, <2>1
<1> QED
  BY <1>4, <1>6

LEMMA QueuedTail ==
    ASSUME TypeOK, m_queue # <<>>, m_queue' = Tail(m_queue),
           \A j, k \in 1..Len(m_queue) : j < k => m_queue[j] < m_queue[k]
    PROVE  /\ Head(m_queue) \in Queued
           /\ Queued' = Queued \ {Head(m_queue)}
           /\ \A n \in Queued' : Head(m_queue) < n
           /\ \A j, k \in 1..Len(m_queue') : j < k => m_queue'[j] < m_queue'[k]
<1>1. m_queue \in Seq(Op) /\ Len(m_queue) \in Nat
  BY DEF TypeOK
<1>2. /\ Len(m_queue) >= 1 /\ Len(m_queue') = Len(m_queue) - 1
      /\ Head(m_queue) = m_queue[1] /\ 1 \in 1..Len(m_queue)
      /\ \A k \in 1..Len(m_queue') : m_queue'[k] = m_queue[k + 1]
  BY <1>1
<1>3. \A k \in 1..Len(m_queue') : k + 1 \in 1..Len(m_queue) /\ 1 < k + 1
  BY <1>1, <1>2
<1>4. \A k \in 1..Len(m_queue) : k = 1 \/ (k - 1 \in 1..Len(m_queue') /\ m_queue'[k - 1] = m_queue[k])
  BY <1>1, <1>2
<1>5. Head(m_queue) \in Queued
  BY <1>2 DEF Queued
<1>6. \A k \in 1..Len(m_queue') : m_queue[1] < m_queue'[k]
  BY <1>2, <1>3
<1>7. \A n \in Queued' : Head(m_queue) < n
  BY <1>2, <1>6 DEF Queued
<1>8. \A k \in 1..Len(m_queue) : m_queue[k] \in Nat
  <2>1. \A k \in 1..Len(m_queue) : m_queue[k] \in Op
    BY <1>1
  <2> QED
    BY <2>1, OpFacts, Zenon
<1>9. \A n \in Queued' : n \in Queued \ {Head(m_queue)}
  BY <1>2, <1>3, <1>6, <1>8 DEF Queued
<1>10. \A n \in Queued \ {Head(m_queue)} : n \in Queued'
  <2>1. ASSUME NEW k \in 1..Len(m_queue), m_queue[k] # m_queue[1]
        PROVE  m_queue[k] \in {m_queue'[j] : j \in 1..Len(m_queue')}
    BY <1>4, <2>1, Zenon
  <2> QED
    BY <1>2, <2>1, Zenon DEF Queued
<1>11. ASSUME NEW j \in 1..Len(m_queue'), NEW k \in 1..Len(m_queue'), j < k
       PROVE  m_queue'[j] < m_queue'[k]
  <2>1. j + 1 < k + 1
    BY <1>11
  <2> QED
    BY <1>2, <1>3, <2>1
<1> QED
  BY <1>5, <1>7, <1>9, <1>10, <1>11
-----------------------------------------------------------------------------
(* Every action preserves the invariant. *)

LEMMA InvInit == Init => IInv
<1> SUFFICES ASSUME Init PROVE IInv
  OBVIOUS
<1>1. TypeOK
  BY TypeInit
<1>2. Queued = {} /\ Len(m_queue) = 0
  BY DEF Init, Queued
<1> QED
  BY <1>1, <1>2, OpFacts DEF Init, IInv, Located, Distinct, OpenIsActive, LockIsMatched,
     ExecutedOnce, DelayedInOrder

LEMMA InvEnqueue == IInv /\ TypeOK' /\ Enqueue => IInv'
<1> SUFFICES ASSUME IInv, TypeOK', Enqueue PROVE IInv'
  OBVIOUS
<1> USE DEF IInv
<1>1. /\ issued \in Nat /\ issued' = issued + 1 /\ issued' \in Op
      /\ pool = "open" /\ active
      /\ delayed' = delayed \cup {issued'}
      /\ m_queue' = Append(m_queue, issued')
      /\ UNCHANGED <<active, request, m_Mutex, direct, pool, executed, dropped>>
  BY OpFacts DEF Enqueue, TypeOK, OpenIsActive
<1>2. delayed \subseteq Nat /\ \A n \in delayed : n < issued'
  BY <1>1, OpFacts DEF TypeOK, Located
<1>3. Queued' = Queued \cup {issued'}
  BY <1>1, <1>2, QueuedAppend DEF Located, Distinct
<1>4. \A j, k \in 1..Len(m_queue') : j < k => m_queue'[j] < m_queue'[k]
  BY <1>1, <1>2, QueuedAppend DEF Located, Distinct
<1>5. /\ \A w \in Worker : request[w] # issued'
      /\ \A t \in Thread : direct[t] # issued'
      /\ issued' \notin Queued /\ issued' \notin dropped /\ executed[issued'] = 0
  <2>1. \A w \in Worker : request[w] # issued'
    BY <1>1, <1>2 DEF Located
  <2>2. \A t \in Thread : direct[t] # issued'
    BY <1>1, OpFacts DEF Located, TypeOK
  <2> QED
    BY <1>1, <1>2, <2>1, <2>2 DEF Located
<1>6. Located'
  <2>1. Queued' \subseteq delayed' /\ dropped' \subseteq delayed'
    BY <1>1, <1>3 DEF Located
  <2>2. \A n \in delayed' : n <= issued'
    BY <1>1, <1>2
  <2>3. \A t \in Thread : direct[t] # Idle => direct[t] <= issued' /\ direct[t] \notin delayed'
    <3>1. ASSUME NEW t \in Thread, direct[t] # Idle
          PROVE  direct[t] <= issued' /\ direct[t] \notin delayed'
      <4>1. direct[t] \in Nat /\ direct[t] <= issued /\ direct[t] \notin delayed
        BY <3>1, IssuedOps DEF Located
      <4> QED
        BY <1>1, <1>5, <4>1
    <3> QED
      BY <3>1
  <2>4. \A n \in Op : n > issued' => executed[n] = 0
    BY <1>1, OpFacts DEF Located
  <2> QED
    BY <1>1, <2>1, <2>2, <2>3, <2>4 DEF Located
<1>7. Distinct' /\ OpenIsActive' /\ LockIsMatched'
  BY <1>1, <1>4 DEF Distinct, OpenIsActive, LockIsMatched
<1>8. ExecutedOnce'
  <2>1. \A n \in 1..issued' : n \in 1..issued \/ n = issued'
    BY <1>1
  <2>2. \A n \in 1..issued : n # issued'
    BY <1>1
  <2> QED
    BY <1>1, <1>3, <1>5, <2>1, <2>2 DEF ExecutedOnce, Running
<1>9. DelayedInOrder'
  <2>1. ASSUME NEW w \in Worker, request[w] \in Op PROVE ~(issued' < request[w])
    <3>1. request[w] \in Nat /\ request[w] < issued'
      BY <1>2, <2>1, OpFacts, Zenon DEF Located
    <3> QED
      BY <1>1, <3>1
  <2> QED
    BY <1>1, <2>1 DEF DelayedInOrder
<1> QED
  BY <1>6, <1>7, <1>8, <1>9

LEMMA InvDequeue ==
    ASSUME IInv, TypeOK', NEW w \in Worker, Dequeue(w)
    PROVE  IInv'
<1> USE DEF IInv
<1>0. Head(m_queue) \in Op
  BY DEF Dequeue, TypeOK
<1> PICK h \in Op : h = Head(m_queue)
  BY <1>0
<1>1. /\ m_queue # <<>> /\ active /\ request[w] = Idle
      /\ m_queue' = Tail(m_queue)
      /\ request'[w] = h
      /\ \A v \in Worker : v # w => request'[v] = request[v]
      /\ UNCHANGED <<active, m_Mutex, direct, pool, issued, delayed, executed, dropped>>
  BY DEF Dequeue, TypeOK
<1>2. /\ h \in Queued
      /\ Queued' = Queued \ {h}
      /\ \A n \in Queued' : h < n
      /\ \A j, k \in 1..Len(m_queue') : j < k => m_queue'[j] < m_queue'[k]
  BY <1>1, QueuedTail DEF Distinct
<1>3. h \in Op /\ h \in delayed /\ h \in 1..issued /\ dropped = {} /\ pool = "open"
  <2>1. h \in delayed /\ h <= issued /\ h \in Op /\ dropped = {} /\ pool = "open"
    BY <1>1, <1>2 DEF Located, TypeOK, OpenIsActive
  <2> QED
    BY <2>1, IssuedOps
<1>4. ~Running(h) /\ executed[h] <= 1 /\ executed[h] # 1
  BY <1>2, <1>3 DEF ExecutedOnce
<1>5. \A v \in Worker : request[v] # h
  BY <1>4 DEF Running
<1>6. Located'
  BY <1>1, <1>2, <1>3, Zenon DEF Located
<1>7. Distinct'
  BY <1>1, <1>2, <1>5 DEF Distinct
<1>8. OpenIsActive' /\ LockIsMatched'
  BY <1>1 DEF OpenIsActive, LockIsMatched
<1>9. \A n \in Op : n # h => (Running(n)' <=> Running(n))
  BY <1>1, <1>3, OpFacts DEF Running
<1>10. Running(h)'
  BY <1>1 DEF Running
<1>11. \A n \in 1..issued : n \in Op
  BY IssuedOps
<1>12. ExecutedOnce'
  BY <1>1, <1>2, <1>3, <1>4, <1>9, <1>10, <1>11 DEF ExecutedOnce
<1>13. DelayedInOrder'
  <2>1. ASSUME NEW n \in delayed, n < h
        PROVE  executed[n] = 1 \/ \E v \in Worker : request'[v] = n
    <3>1. n \in 1..issued /\ n # h /\ n \in Op
      BY <2>1, <1>3, IssuedOps, OpFacts DEF Located
    <3>2. n \notin Queued
      BY <1>2, <1>3, <2>1, <3>1, OpFacts
    <3>3. executed[n] = 1 \/ Running(n)
      BY <1>3, <3>1, <3>2 DEF ExecutedOnce
    <3>4. \A t \in Thread : direct[t] # n
      BY <2>1, <3>1, OpFacts DEF Located
    <3>5. n # Idle
      BY <3>1, OpFacts
    <3> QED
      BY <1>1, <3>3, <3>4, <3>5 DEF Running
  <2>2. ASSUME NEW v \in Worker, v # w, request[v] \in Op, NEW n \in delayed, n < request[v]
        PROVE  executed[n] = 1 \/ \E u \in Worker : request'[u] = n
    <3>1. n # Idle
      BY OpFacts DEF TypeOK
    <3> QED
      BY <1>1, <2>2, <3>1 DEF DelayedInOrder
  <2> QED
    BY <1>1, <2>1, <2>2 DEF DelayedInOrder
<1> QED
  BY <1>6, <1>7, <1>8, <1>12, <1>13

LEMMA InvCall ==
    ASSUME IInv, TypeOK', NEW w \in Worker, Call(w)
    PROVE  IInv'
<1> USE DEF IInv
<1> PICK r \in Op : r = request[w]
  BY DEF Call
<1>1. /\ request[w] = r /\ request'[w] = Idle
      /\ \A v \in Worker : v # w => request'[v] = request[v]
      /\ executed'[r] = executed[r] + 1
      /\ \A n \in Op : n # r => executed'[n] = executed[n]
      /\ UNCHANGED <<m_queue, active, m_Mutex, direct, pool, issued, delayed, dropped>>
  BY Zenon DEF Call, TypeOK
<1>2. r \in delayed /\ r \in 1..issued /\ r # Idle
  BY <1>1, IssuedOps, OpFacts, Zenon DEF Located
<1>3. Queued' = Queued
  BY <1>1 DEF Queued
<1>4. Running(r) /\ r \notin Queued \cup dropped /\ executed[r] = 0
  <2>1. Running(r)
    BY <1>1 DEF Running
  <2>2. executed[r] \in Nat
    BY DEF TypeOK
  <2> QED
    BY <1>2, <2>1, <2>2 DEF ExecutedOnce
<1>5. \A v \in Worker : v # w => request[v] # r
  BY <1>1 DEF Distinct
<1>6. \A t \in Thread : direct[t] # r
  BY <1>2 DEF Located
<1>7. Located'
  <2>1. \A v \in Worker : request'[v] \in Op => request'[v] \in delayed'
    BY <1>1, OpFacts, Zenon DEF Located
  <2>2. \A n \in Op : n > issued' => executed'[n] = 0
    BY <1>1, <1>2, IssuedOps DEF Located
  <2> QED
    BY <1>1, <1>3, <2>1, <2>2, Zenon DEF Located
<1>8. Distinct' /\ OpenIsActive' /\ LockIsMatched'
  BY <1>1, OpFacts DEF Distinct, OpenIsActive, LockIsMatched
<1>9. \A n \in Op : n # r => (Running(n)' <=> Running(n))
  BY <1>1, OpFacts, Zenon DEF Running
<1>10. ~Running(r)'
  BY <1>1, <1>2, <1>5, <1>6, Zenon DEF Running
<1>11. ExecutedOnce'
  <2>1. ASSUME NEW n \in 1..issued
        PROVE  /\ executed'[n] <= 1
               /\ executed'[n] = 1 <=> n \notin Queued' \cup dropped' /\ ~Running(n)'
               /\ n \in Queued' \cup dropped' => ~Running(n)'
               /\ n \in dropped' => pool' # "open"
    <3>1. CASE n = r
      BY <1>1, <1>3, <1>4, <1>10, <3>1
    <3>2. CASE n # r
      BY <1>1, <1>3, <1>9, <3>2, IssuedOps, Zenon DEF ExecutedOnce
    <3> QED
      BY <3>1, <3>2, Zenon
  <2> QED
    BY <1>1, <2>1 DEF ExecutedOnce
<1>12. DelayedInOrder'
  <2>1. ASSUME NEW v \in Worker, request'[v] \in Op, NEW n \in delayed', n < request'[v]
        PROVE  executed'[n] = 1 \/ \E u \in Worker : request'[u] = n
    <3>1. n \in Op /\ request[v] = request'[v]
      BY <1>1, <2>1, IssuedOps, OpFacts, Zenon
    <3>2. executed[n] = 1 \/ \E u \in Worker : request[u] = n
      BY <1>1, <2>1, <3>1, Zenon DEF DelayedInOrder
    <3>3. CASE n = r
      BY <1>1, <1>4, <3>3
    <3>4. CASE n # r
      BY <1>1, <3>1, <3>2, <3>4
    <3> QED
      BY <3>3, <3>4
  <2> QED
    BY <2>1 DEF DelayedInOrder
<1> QED
  BY <1>7, <1>8, <1>11, <1>12

LEMMA InvExit ==
    ASSUME IInv, TypeOK', NEW w \in Worker, Exit(w)
    PROVE  IInv'
<1> USE DEF IInv
<1>1. /\ request[w] = Idle /\ request'[w] = Exited
      /\ \A v \in Worker : v # w => request'[v] = request[v]
      /\ UNCHANGED <<m_queue, active, m_Mutex, direct, pool, issued, delayed, executed, dropped>>
  BY DEF Exit, TypeOK
<1>2. Queued' = Queued
  BY <1>1 DEF Queued
<1>3. \A n \in Op : Running(n)' <=> Running(n)
  BY <1>1, OpFacts, Zenon DEF Running
<1>4. Located' /\ Distinct' /\ OpenIsActive' /\ LockIsMatched'
  BY <1>1, <1>2, OpFacts DEF Located, Distinct, OpenIsActive, LockIsMatched
<1>5. ExecutedOnce'
  BY <1>1, <1>2, <1>3, IssuedOps, Zenon DEF ExecutedOnce
<1>6. DelayedInOrder'
  BY <1>1, IssuedOps, OpFacts DEF DelayedInOrder
<1> QED
  BY <1>4, <1>5, <1>6

\* BeginDirect and KeepAlive give a thread a new operation.
LEMMA InvBegin ==
    ASSUME IInv, TypeOK', NEW t \in Thread, direct[t] = Idle,
           issued < Ops, issued' = issued + 1,
           direct' = [direct EXCEPT ![t] = issued'],
           UNCHANGED <<m_queue, active, request, pool, delayed, executed, dropped>>
    PROVE  Located' /\ Distinct' /\ OpenIsActive' /\ ExecutedOnce' /\ DelayedInOrder'
<1> USE DEF IInv
<1> PICK i \in Op : i = issued + 1
  BY IssuedOps, OpFacts, Zenon
<1>1. /\ issued \in Nat /\ issued' = i /\ i = issued + 1 /\ i \in Nat
      /\ direct'[t] = i
      /\ \A s \in Thread : s # t => direct'[s] = direct[s]
  BY IssuedOps DEF TypeOK
<1>2. Queued' = Queued
  BY Zenon DEF Queued
<1>3. /\ i \notin delayed /\ i \notin Queued \cup dropped /\ executed[i] = 0
      /\ \A w \in Worker : request[w] # i
      /\ \A s \in Thread : direct[s] # i
  <2>1. i \notin delayed /\ executed[i] = 0
    BY <1>1, IssuedOps DEF Located
  <2>2. \A s \in Thread : direct[s] # i
    BY <1>1, IssuedOps, OpFacts DEF Located
  <2> QED
    BY <2>1, <2>2, Zenon DEF Located
<1>4. Located'
  <2>1. \A n \in delayed' : n <= issued'
    BY <1>1, IssuedOps DEF Located
  <2>2. ASSUME NEW s \in Thread, direct'[s] # Idle
        PROVE  direct'[s] <= issued' /\ direct'[s] \notin delayed'
    <3>1. CASE s = t
      BY <1>1, <1>3, <3>1
    <3>2. CASE s # t
      <4>1. direct[s] \in Nat /\ direct[s] <= issued /\ direct[s] \notin delayed
        BY <1>1, <2>2, <3>2, IssuedOps, Zenon DEF Located
      <4> QED
        BY <1>1, <3>2, <4>1
    <3> QED
      BY <3>1, <3>2
  <2>3. \A n \in Op : n > issued' => executed'[n] = 0
    BY <1>1, OpFacts DEF Located
  <2> QED
    BY <1>2, <2>1, <2>2, <2>3 DEF Located
<1>5. Distinct' /\ OpenIsActive' /\ DelayedInOrder'
  BY <1>1, <1>3 DEF Distinct, OpenIsActive, DelayedInOrder
<1>6. \A n \in Op : n # i => (Running(n)' <=> Running(n))
  BY <1>1, OpFacts DEF Running
<1>7. Running(i)'
  BY <1>1, Zenon DEF Running
<1>8. ExecutedOnce'
  <2>0. issued \in Nat /\ i = issued + 1
    BY <1>1
  <2>1. \A n \in 1..i : n = i \/ (n \in 1..issued /\ n # i)
    BY ONLY <2>0
  <2> QED
    BY <1>1, <1>2, <1>3, <1>6, <1>7, <2>1, IssuedOps DEF ExecutedOnce
<1> QED
  BY <1>4, <1>5, <1>8, Zenon

LEMMA InvBeginDirect ==
    ASSUME IInv, TypeOK', NEW t \in Thread, BeginDirect(t)
    PROVE  IInv'
<1>1. Located' /\ Distinct' /\ OpenIsActive' /\ ExecutedOnce' /\ DelayedInOrder'
  BY InvBegin, Zenon DEF BeginDirect
<1>2. LockIsMatched'
  <2>1. issued' # Idle
    BY IssuedOps DEF IInv, BeginDirect, Idle
  <2>2. \A s \in Thread : direct'[s] = Idle => direct[s] = Idle
    BY <2>1 DEF BeginDirect, IInv, TypeOK
  <2>3. m_Mutex' = m_Mutex /\ \A c \in Synch : m_Mutex[c] # NoThread => m_Mutex[c] \in Thread
    BY DEF BeginDirect, IInv, TypeOK
  <2> QED
    BY <2>2, <2>3 DEF IInv, LockIsMatched
<1> QED
  BY <1>1, <1>2, Zenon DEF IInv

LEMMA InvKeepAlive ==
    ASSUME IInv, TypeOK', NEW t \in Thread, NEW c \in Synch, KeepAlive(t, c)
    PROVE  IInv'
<1>1. Located' /\ Distinct' /\ OpenIsActive' /\ ExecutedOnce' /\ DelayedInOrder'
  BY InvBegin, Zenon DEF KeepAlive
<1>2. LockIsMatched'
  <2>1. issued' # Idle
    BY IssuedOps DEF IInv, KeepAlive, Idle
  <2>2. /\ \A s \in Thread : direct'[s] = Idle => direct[s] = Idle /\ s # t
        /\ direct[t] = Idle
        /\ \A d \in Synch : m_Mutex'[d] = IF d = c THEN t ELSE m_Mutex[d]
        /\ \A d \in Synch : m_Mutex[d] \in Thread \cup {NoThread}
    BY <2>1 DEF KeepAlive, IInv, TypeOK
  <2>3. \A d \in Synch : m_Mutex[d] # t
    BY <2>2, PoolAssumption DEF IInv, LockIsMatched
  <2> QED
    BY <2>2, <2>3 DEF IInv, LockIsMatched
<1> QED
  BY <1>1, <1>2 DEF IInv

LEMMA InvGetFreeConnection ==
    ASSUME IInv, TypeOK', NEW t \in Thread, NEW c \in Synch, GetFreeConnection(t, c)
    PROVE  IInv'
<1> USE DEF IInv
<1>1. /\ UNCHANGED <<m_queue, active, request, direct, pool, issued, delayed, executed, dropped>>
      /\ direct[t] # Idle
      /\ \A d \in Synch : m_Mutex[d] # t
      /\ \A d \in Synch : m_Mutex'[d] = IF d = c THEN t ELSE m_Mutex[d]
  BY Zenon DEF GetFreeConnection, TypeOK
<1>2. Queued' = Queued
  BY <1>1, Zenon DEF Queued
<1>3. Located' /\ Distinct' /\ OpenIsActive' /\ ExecutedOnce' /\ DelayedInOrder'
  BY <1>1, <1>2, Zenon DEF Located, Distinct, OpenIsActive, ExecutedOnce, DelayedInOrder, Running
<1>4. LockIsMatched'
  BY <1>1 DEF LockIsMatched
<1> QED
  BY <1>3, <1>4

LEMMA InvExecuteDirect ==
    ASSUME IInv, TypeOK', NEW t \in Thread, NEW c \in Synch, ExecuteDirect(t, c)
    PROVE  IInv'
<1> USE DEF IInv
<1>0. direct[t] \in Op
  BY PoolAssumption, IssuedOps DEF ExecuteDirect, LockIsMatched
<1> PICK r \in Op : r = direct[t]
  BY <1>0, Zenon
<1>1. /\ m_Mutex[c] = t /\ direct[t] = r /\ direct'[t] = Idle
      /\ \A s \in Thread : s # t => direct'[s] = direct[s]
      /\ executed'[r] = executed[r] + 1
      /\ \A n \in Op : n # r => executed'[n] = executed[n]
      /\ \A d \in Synch : m_Mutex'[d] = IF d = c THEN NoThread ELSE m_Mutex[d]
      /\ \A d \in Synch : m_Mutex[d] \in Thread \cup {NoThread}
      /\ UNCHANGED <<m_queue, active, request, pool, issued, delayed, dropped>>
  BY Zenon DEF ExecuteDirect, TypeOK
<1>2. r \notin delayed /\ r \in 1..issued /\ r # Idle
  <2>1. r # Idle
    BY OpFacts, Zenon
  <2>2. r <= issued /\ r \notin delayed
    BY <1>1, <2>1, Zenon DEF Located
  <2> QED
    BY <2>1, <2>2, IssuedOps, Zenon
<1>3. Queued' = Queued
  BY <1>1 DEF Queued
<1>4. r \notin Queued \cup dropped /\ executed[r] = 0
  <2>1. Running(r)
    BY <1>1, Zenon DEF Running
  <2>2. executed[r] \in Nat
    BY Zenon DEF TypeOK
  <2> QED
    BY <1>2, <2>1, <2>2 DEF ExecutedOnce
<1>5. /\ \A s \in Thread : s # t => direct[s] # r
      /\ \A w \in Worker : request[w] # r
  <2>1. \A s \in Thread : s # t => direct[s] # r
    BY <1>1, <1>2, Zenon DEF Distinct
  <2>2. \A w \in Worker : request[w] # r
    BY <1>2, Zenon DEF Located
  <2> QED
    BY <2>1, <2>2, Zenon
<1>6. Located'
  <2>1. \A n \in Op : n > issued' => executed'[n] = 0
    <3> SUFFICES ASSUME NEW n \in Op, n > issued PROVE executed'[n] = 0
      BY <1>1
    <3>1. n # r
      BY <1>2, IssuedOps, OpFacts
    <3>2. executed[n] = 0
      BY Zenon DEF Located
    <3> QED
      BY <1>1, <3>1, <3>2, Zenon
  <2> QED
    BY <1>1, <1>3, <2>1, Zenon DEF Located
<1>7. Distinct' /\ OpenIsActive'
  <2>1. \A s, u \in Thread : direct'[s] # Idle /\ direct'[s] = direct'[u] => s = u
    BY <1>1 DEF Distinct
  <2>2. UNCHANGED <<m_queue, active, request, pool, dropped>>
    BY <1>1, Zenon
  <2> QED
    BY <2>1, <2>2, Zenon DEF Distinct, OpenIsActive
<1>8. LockIsMatched'
  <2> SUFFICES ASSUME NEW d \in Synch, m_Mutex'[d] # NoThread
               PROVE  /\ direct'[m_Mutex'[d]] # Idle
                      /\ \A e \in Synch : m_Mutex'[e] = m_Mutex'[d] => e = d
    BY Zenon DEF LockIsMatched
  <2>1. d # c /\ m_Mutex'[d] = m_Mutex[d] /\ m_Mutex[d] \in Thread
    BY <1>1, Zenon
  <2>2. direct[m_Mutex[d]] # Idle /\ \A e \in Synch : m_Mutex[e] = m_Mutex[d] => e = d
    BY <2>1, PoolAssumption, Zenon DEF LockIsMatched
  <2>3. m_Mutex[d] # t
    BY <1>1, <2>1, <2>2, Zenon
  <2>4. direct'[m_Mutex[d]] = direct[m_Mutex[d]]
    BY <1>1, <2>1, <2>3, Zenon
  <2>5. \A e \in Synch : m_Mutex'[e] = m_Mutex'[d] => e = d
    BY <1>1, <2>1, <2>2, Zenon
  <2> QED
    BY <2>1, <2>2, <2>4, <2>5, Zenon
<1>9. \A n \in Op : n # r => (Running(n)' <=> Running(n))
  BY <1>1, OpFacts DEF Running
<1>10. ~Running(r)'
  BY <1>1, <1>2, <1>5, Zenon DEF Running
<1>11. ExecutedOnce'
  <2>1. ASSUME NEW n \in 1..issued
        PROVE  /\ executed'[n] <= 1
               /\ executed'[n] = 1 <=> n \notin Queued' \cup dropped' /\ ~Running(n)'
               /\ n \in Queued' \cup dropped' => ~Running(n)'
               /\ n \in dropped' => pool' # "open"
    <3>1. CASE n = r
      BY SMTT(30), <1>1, <1>3, <1>4, <1>10, <3>1
    <3>2. CASE n # r
      BY <1>1, <1>3, <1>9, <3>2, IssuedOps, Zenon DEF ExecutedOnce
    <3> QED
      BY <3>1, <3>2, Zenon
  <2> QED
    BY <1>1, <2>1, Zenon DEF ExecutedOnce
<1>12. DelayedInOrder'
  <2>1. \A n \in delayed : executed'[n] = executed[n]
    BY <1>1, <1>2, IssuedOps
  <2> QED
    BY <1>1, <2>1, Zenon DEF DelayedInOrder
<1> QED
  BY <1>6, <1>7, <1>8, <1>11, <1>12, Zenon

LEMMA InvClose == IInv /\ TypeOK' /\ Close => IInv'
<1> SUFFICES ASSUME IInv, TypeOK', Close PROVE IInv'
  OBVIOUS
<1> USE DEF IInv
<1>1. /\ pool = "open" /\ pool' = "joining" /\ active' = FALSE
      /\ dropped' = Queued /\ m_queue' = <<>>
      /\ dropped = {}
      /\ UNCHANGED <<request, m_Mutex, direct, issued, delayed, executed>>
  BY Zenon DEF Close, OpenIsActive
<1>2. Queued' = {} /\ Len(m_queue') = 0
  BY <1>1 DEF Queued
<1>3. Located' /\ Distinct' /\ OpenIsActive' /\ LockIsMatched' /\ DelayedInOrder'
  BY <1>1, <1>2 DEF Located, Distinct, OpenIsActive, LockIsMatched, DelayedInOrder
<1>4. ExecutedOnce'
  BY <1>1, <1>2 DEF ExecutedOnce, Running
<1> QED
  BY <1>3, <1>4, Zenon

LEMMA InvClosed == IInv /\ TypeOK' /\ (Closed \/ UNCHANGED vars) => IInv'
<1> SUFFICES ASSUME IInv, TypeOK', Closed \/ UNCHANGED vars PROVE IInv'
  BY Zenon
<1> USE DEF IInv
<1>1. /\ UNCHANGED <<m_queue, active, request, m_Mutex, direct, issued, delayed, executed, dropped>>
      /\ pool' = pool \/ (pool = "joining" /\ pool' = "closed")
  BY Zenon DEF Closed, vars
<1>2. Queued' = Queued
  BY <1>1, Zenon DEF Queued
<1>3. Located' /\ Distinct' /\ OpenIsActive' /\ LockIsMatched' /\ DelayedInOrder'
  BY <1>1, <1>2, Zenon DEF Located, Distinct, OpenIsActive, LockIsMatched, DelayedInOrder
<1>4. ExecutedOnce'
  BY <1>1, <1>2, Zenon DEF ExecutedOnce, Running
<1> QED
  BY <1>3, <1>4

LEMMA InvStep == IInv /\ [Next]_vars => IInv'
<1> SUFFICES ASSUME IInv, [Next]_vars PROVE IInv'
  OBVIOUS
<1>1. TypeOK'
  BY TypeStep DEF IInv
<1> QED
  BY <1>1, InvEnqueue, InvDequeue, InvCall, InvExit, InvBeginDirect, InvGetFreeConnection,
     InvKeepAlive, InvExecuteDirect, InvClose, InvClosed DEF Next, WorkerStep

LEMMA Invariance == Spec => []IInv
BY InvInit, InvStep, PTL DEF Spec
-----------------------------------------------------------------------------
\* GetFreeConnection and Unlock are matched, in DirectExecute, Query, KeepAlive
\* and DirectCommitTransaction: no connection serves two threads and none is
\* held by a thread that is not executing.
THEOREM LockCorrect == Spec => []LockIsMatched
BY Invariance, PTL DEF IInv

\* No operation handed to the pool is executed twice, and only the ones still
\* queued when Close() is called are not executed at all.
THEOREM ExecutedOnceCorrect == Spec => []ExecutedOnce
BY Invariance, PTL DEF IInv

\* However many workers there are, delayed operations start in queue order.
THEOREM DelayedInOrderCorrect == Spec => []DelayedInOrder
BY Invariance, PTL DEF IInv

-----------------------------------------------------------------------------
(* SqlTransaction *)

Entry == (1..Tasks) \X (1..Size)
Place == {"idle", "begin", "query", "rollback", "commit", "failed", "crashed"}
TaskRunning == pc \notin {"idle", "crashed"} => task \in 1..Tasks

\* What a command does to the server and the connection keeps the types.
LEMMA ExecuteType ==
    ASSUME TaskTypeOK, task \in 1..Tasks, pc \in Place,
           NEW command \in {"begin", "query", "commit", "rollback"},
           NEW ifTrue \in Place, NEW ifFalse \in Place,
           Execute(command, ifTrue, ifFalse)
    PROVE  /\ pc' \in {pc, ifTrue, ifFalse}
           /\ m_Mysql' \in BOOLEAN /\ inTransaction' \in BOOLEAN
           /\ errno' \in {0, 1062, 1213}
           /\ pending' \in Seq(Entry) /\ committed' \in Seq(Entry)
           /\ lost' \in Seq(1..Tasks) /\ Len(lost') <= Losses
           /\ deadlocked' \in 0..Deadlocks
<1> USE TransactionAssumption
<1>1. pending \in Seq(Entry) /\ committed \in Seq(Entry) /\ <<task, query>> \in Entry
  BY DEF TaskTypeOK, Entry
<1>2. /\ committed \o pending \in Seq(Entry)
      /\ Append(pending, <<task, query>>) \in Seq(Entry)
      /\ Append(committed, <<task, query>>) \in Seq(Entry)
      /\ <<>> \in Seq(Entry)
  BY <1>1
<1>3. Effect(command) => /\ pending' \in Seq(Entry) /\ committed' \in Seq(Entry)
                         /\ inTransaction' \in BOOLEAN
  <2>1. inTransaction \in BOOLEAN
    BY DEF TaskTypeOK
  <2> QED
    BY <1>1, <1>2, <2>1, Zenon DEF Effect
<1>4. SessionLost(command) => /\ pending' \in Seq(Entry) /\ committed' \in Seq(Entry)
                              /\ inTransaction' \in BOOLEAN
  BY <1>1, <1>2, Zenon DEF SessionLost
<1>5. Len(lost) < Losses /\ lost' = Append(lost, task)
          => lost' \in Seq(1..Tasks) /\ Len(lost') <= Losses
  BY DEF TaskTypeOK
<1> DEFINE Typed == /\ pc' \in {pc, ifTrue, ifFalse}
                    /\ m_Mysql' \in BOOLEAN /\ inTransaction' \in BOOLEAN
                    /\ errno' \in {0, 1062, 1213}
                    /\ pending' \in Seq(Entry) /\ committed' \in Seq(Entry)
                    /\ lost' \in Seq(1..Tasks) /\ Len(lost') <= Losses
                    /\ deadlocked' \in 0..Deadlocks
<1>6. /\ m_Mysql \in BOOLEAN /\ inTransaction \in BOOLEAN
      /\ errno \in {0, 1062, 1213}
      /\ lost \in Seq(1..Tasks) /\ Len(lost) <= Losses /\ deadlocked \in 0..Deadlocks
  BY DEF TaskTypeOK
<1>7. ASSUME NoHandle(ifFalse) PROVE Typed
  <2>1. /\ pc' = ifFalse
        /\ UNCHANGED <<m_Mysql, errno, inTransaction, pending, committed, lost, deadlocked>>
    BY <1>7 DEF NoHandle, server
  <2> QED
    BY <1>1, <1>6, <2>1
<1>8. ASSUME Success(command, ifTrue) PROVE Typed
  <2>1. pc' = ifTrue /\ errno' = 0 /\ UNCHANGED <<m_Mysql, lost, deadlocked>>
    BY <1>8 DEF Success
  <2>2. pending' \in Seq(Entry) /\ committed' \in Seq(Entry) /\ inTransaction' \in BOOLEAN
    BY <1>3, <1>8, Zenon DEF Success
  <2> QED
    BY <1>6, <2>1, <2>2
<1>9. ASSUME QueryError(command, ifFalse) PROVE Typed
  <2>1. /\ pc' = ifFalse /\ errno' = 1062
        /\ UNCHANGED <<m_Mysql, inTransaction, pending, committed, lost, deadlocked>>
    BY <1>9, Zenon DEF QueryError, server
  <2> QED
    BY <1>1, <1>6, <2>1
<1>10. ASSUME Deadlock(command, ifFalse) PROVE Typed
  <2>1. /\ pc' = ifFalse /\ errno' = 1213
        /\ pending' = <<>> /\ UNCHANGED <<m_Mysql, committed, lost>>
    BY <1>10 DEF Deadlock
  <2>2. inTransaction' \in BOOLEAN
    BY <1>10, Zenon DEF Deadlock
  <2>3. deadlocked' \in 0..Deadlocks
    BY <1>6, <1>10 DEF Deadlock
  <2> QED
    BY <1>1, <1>2, <1>6, <2>1, <2>2, <2>3
<1>11. ASSUME Reconnected(command) PROVE Typed
  <2>1. errno' = 0 /\ UNCHANGED <<pc, m_Mysql, deadlocked>>
    BY <1>11, Zenon DEF Reconnected
  <2>2. pending' \in Seq(Entry) /\ committed' \in Seq(Entry) /\ inTransaction' \in BOOLEAN
    BY <1>4, <1>11 DEF Reconnected
  <2>3. lost' \in Seq(1..Tasks) /\ Len(lost') <= Losses
    BY <1>5, <1>11, Zenon DEF Reconnected
  <2> QED
    BY <1>6, <2>1, <2>2, <2>3
<1>12. ASSUME ConnectionGone(command, ifFalse) PROVE Typed
  <2>1. pc' = ifFalse /\ errno' = 0 /\ UNCHANGED deadlocked
    BY <1>12 DEF ConnectionGone
  <2>2. pending' \in Seq(Entry) /\ committed' \in Seq(Entry) /\ inTransaction' \in BOOLEAN
    BY <1>4, <1>12 DEF ConnectionGone
  <2>3. lost' \in Seq(1..Tasks) /\ Len(lost') <= Losses
    BY <1>5, <1>12 DEF ConnectionGone
  <2>4. m_Mysql' \in BOOLEAN
    BY <1>12, Zenon DEF ConnectionGone
  <2> QED
    BY <1>6, <2>1, <2>2, <2>3, <2>4
<1>13. Typed
  <2> HIDE DEF Typed
  <2> QED
    BY <1>7, <1>8, <1>9, <1>10, <1>11, <1>12, Zenon DEF Execute
<1> QED
  BY <1>13, Zenon

LEMMA TaskTypeInit == TaskInit => TaskTypeOK /\ TaskRunning
<1> SUFFICES ASSUME TaskInit PROVE TaskTypeOK /\ TaskRunning
  OBVIOUS
<1>1. pending \in Seq(Entry) /\ committed \in Seq(Entry) /\ lost \in Seq(1..Tasks) /\ Len(lost) = 0
  BY DEF TaskInit
<1>2. m_Mysql \in BOOLEAN /\ inTransaction \in BOOLEAN /\ result \in BOOLEAN
  BY Zenon DEF TaskInit
<1>3. /\ pc \in Place /\ task \in 0..Tasks /\ query \in 1..Size /\ repetition \in 0..loopBreaker
      /\ errno \in {0, 1062, 1213}
      /\ Len(lost) <= Losses /\ deadlocked \in 0..Deadlocks /\ TaskRunning
  BY <1>1, TransactionAssumption DEF TaskInit, TaskRunning, Place
<1> QED
  BY <1>1, <1>2, <1>3 DEF TaskTypeOK, Entry, Place

LEMMA TaskTypeStep == TaskTypeOK /\ TaskRunning /\ [TaskNext]_taskVars => (TaskTypeOK /\ TaskRunning)'
<1> SUFFICES ASSUME TaskTypeOK, TaskRunning, [TaskNext]_taskVars PROVE (TaskTypeOK /\ TaskRunning)'
  BY Zenon
<1> USE TransactionAssumption
<1>1. CASE CommitTransactionTask
  BY <1>1 DEF CommitTransactionTask, TaskTypeOK, TaskRunning, server
<1>2. CASE BeginTransaction
  <2>1. task \in 1..Tasks /\ pc \in Place /\ Execute("begin", "query", "query")
    BY <1>2 DEF BeginTransaction, TaskRunning, TaskTypeOK, Place
  <2> QED
    BY <1>2, <2>1, ExecuteType DEF BeginTransaction, TaskTypeOK, TaskRunning, control, Place, Entry
<1>3. CASE ExecuteQuery
  <2> DEFINE next == IF query < Size THEN "query" ELSE "commit"
  <2>1. /\ task \in 1..Tasks /\ pc \in Place /\ next \in Place
        /\ Execute("query", next, "rollback")
    BY <1>3 DEF ExecuteQuery, TaskRunning, TaskTypeOK, Place
  <2>2. query' \in 1..Size
    <3>1. query \in 1..Size /\ lost \in Seq(1..Tasks) /\ pc = "query"
      BY <1>3 DEF ExecuteQuery, TaskTypeOK
    <3>2. Append(lost, task) # lost
      BY <2>1, <3>1
    <3>3. lost' = lost \/ lost' = Append(lost, task)
      BY <2>1 DEF Execute, NoHandle, Success, QueryError, Deadlock, Reconnected, ConnectionGone
    <3>4. lost' = lost => pc' = next \/ pc' = "rollback"
      BY <2>1, <3>2 DEF Execute, NoHandle, Success, QueryError, Deadlock, Reconnected, ConnectionGone
    <3> QED
      BY <1>3, <3>1, <3>4 DEF ExecuteQuery
  <2> HIDE DEF next
  <2>3. /\ pc' \in {pc, next, "rollback"}
        /\ m_Mysql' \in BOOLEAN /\ inTransaction' \in BOOLEAN
        /\ errno' \in {0, 1062, 1213}
        /\ pending' \in Seq(Entry) /\ committed' \in Seq(Entry)
        /\ lost' \in Seq(1..Tasks) /\ Len(lost') <= Losses
        /\ deadlocked' \in 0..Deadlocks
    BY <2>1, ExecuteType DEF Place
  <2> QED
    BY <1>3, <2>1, <2>2, <2>3 DEF ExecuteQuery, TaskTypeOK, TaskRunning, control, Place, Entry
<1>4. CASE RollbackTransaction
  <2>1. task \in 1..Tasks /\ pc \in Place /\ Execute("rollback", "failed", "failed")
    BY <1>4 DEF RollbackTransaction, TaskRunning, TaskTypeOK, Place
  <2> QED
    BY <1>4, <2>1, ExecuteType DEF RollbackTransaction, TaskTypeOK, TaskRunning, control, Place, Entry
<1>5. CASE CommitTransaction
  <2>1. task \in 1..Tasks /\ pc \in Place /\ Execute("commit", "idle", "idle")
    BY <1>5 DEF CommitTransaction, TaskRunning, TaskTypeOK, Place
  <2>2. result' \in BOOLEAN
    <3>1. result \in BOOLEAN
      BY DEF TaskTypeOK
    <3>2. result' = TRUE \/ result' = result
      BY <1>5, Zenon DEF CommitTransaction
    <3> QED
      BY <3>1, <3>2, Zenon
  <2>3. UNCHANGED <<task, repetition, query>>
    BY <1>5, Zenon DEF CommitTransaction, control
  <2>4. /\ pc' \in {pc, "idle"}
        /\ m_Mysql' \in BOOLEAN /\ inTransaction' \in BOOLEAN
        /\ errno' \in {0, 1062, 1213}
        /\ pending' \in Seq(Entry) /\ committed' \in Seq(Entry)
        /\ lost' \in Seq(1..Tasks) /\ Len(lost') <= Losses
        /\ deadlocked' \in 0..Deadlocks
    BY <2>1, ExecuteType DEF Place
  <2> QED
    BY <2>1, <2>2, <2>3, <2>4 DEF TaskTypeOK, TaskRunning, Place, Entry
<1>6. CASE ExecuteTransactionFailed
  <2>1. result' \in BOOLEAN
    <3>1. result \in BOOLEAN
      BY DEF TaskTypeOK
    <3>2. result' = FALSE \/ result' = result
      BY <1>6, Zenon DEF ExecuteTransactionFailed
    <3> QED
      BY <3>1, <3>2, Zenon
  <2>2. pc' \in {"idle", "begin"} /\ repetition' \in 0..loopBreaker /\ task \in 1..Tasks
    BY <1>6 DEF ExecuteTransactionFailed, TaskTypeOK, TaskRunning
  <2>3. UNCHANGED <<task, query, m_Mysql, errno, inTransaction, pending, committed, lost, deadlocked>>
    BY <1>6, Zenon DEF ExecuteTransactionFailed, server
  <2> QED
    BY <2>1, <2>2, <2>3 DEF TaskTypeOK, TaskRunning
<1>7. CASE Ping
  BY <1>7 DEF Ping, TaskTypeOK, TaskRunning, server, control
<1>8. CASE UNCHANGED taskVars
  BY <1>8 DEF taskVars, TaskTypeOK, TaskRunning, server, control
<1> QED
  BY <1>1, <1>2, <1>3, <1>4, <1>5, <1>6, <1>7, <1>8 DEF TaskNext, TaskStep

\* Every variable keeps its type. In particular TransactionTask::Execute never
\* repeats a task more than loopBreaker times, and the loop of
\* ExecuteTransaction never runs past the queries of the transaction.
THEOREM TaskTypeCorrect == TaskSpec => []TaskTypeOK
<1>1. TaskSpec => [](TaskTypeOK /\ TaskRunning)
  BY TaskTypeInit, TaskTypeStep, PTL DEF TaskSpec
<1> QED
  BY <1>1, PTL

-----------------------------------------------------------------------------
(* What takes effect *)

\* Between two transactions the session has none open and nothing to commit.
SessionClean ==
    (pc \in {"idle", "crashed", "begin", "failed"} \/ m_Mysql = FALSE) =>
        pending = <<>> /\ inTransaction = FALSE

\* What is pending is of the task under way, and later tasks took no effect.
PendingIsOwn ==
    /\ \A k \in 1..Len(pending) : pending[k][1] = task
    /\ \A t \in Nat : t > task => Nothing(t)

PastIsWhole == \A t \in 1..(task - 1) : Undisturbed(t) => Nothing(t) \/ Whole(t)

\* The first n queries of the task are pending, and the connection is there.
Prefix(n) ==
    /\ m_Mysql = TRUE /\ inTransaction = TRUE
    /\ Len(pending) = n /\ \A k \in 1..n : pending[k] = <<task, k>>

\* Where the task is that has not lost its connection.
TaskIsSound ==
    (task > 0 /\ Undisturbed(task)) =>
        /\ pc \notin {"idle", "crashed"} => Nothing(task)
        /\ pc = "query" => m_Mysql = FALSE \/ Prefix(query - 1)
        /\ pc = "commit" => Prefix(Size)
        /\ pc \in {"idle", "crashed"} => \/ result = TRUE /\ Whole(task)
                                         \/ result = FALSE /\ Nothing(task)

TaskIInv == TaskTypeOK /\ TaskRunning /\ SessionClean /\ PendingIsOwn /\ PastIsWhole /\ TaskIsSound

\* Queries of the task under way, at most, are added to what took effect.
Grows ==
    /\ Len(committed) <= Len(committed')
    /\ \A k \in 1..Len(committed) : committed'[k] = committed[k]
    /\ \A k \in (Len(committed) + 1)..Len(committed') : committed'[k][1] = task

\* Other tasks are not affected by that.
LEMMA OthersKept ==
    ASSUME committed \in Seq(Entry), committed' \in Seq(Entry), Grows,
           NEW t \in Nat, t # task
    PROVE  /\ Nothing(t) => Nothing(t)'
           /\ Whole(t) => Whole(t)'
<1>1. Len(committed) \in Nat /\ Len(committed') \in Nat
  OBVIOUS
<1>2. Positions(t)' = Positions(t)
  BY <1>1 DEF Positions, Grows
<1>3. Nothing(t) => Nothing(t)'
  BY <1>2, Zenon DEF Nothing
<1>4. ASSUME Whole(t) PROVE Whole(t)'
  <2>1. PICK n \in 0..Len(committed) :
            /\ Positions(t) = (n + 1)..(n + Size)
            /\ \A k \in 1..Size : committed[n + k] = <<t, k>>
    BY <1>4, Zenon DEF Whole
  <2>2. \A k \in 1..Size : n + k \in Positions(t)
    BY <2>1, TransactionAssumption
  <2>3. \A k \in 1..Size : committed'[n + k] = <<t, k>>
    BY <2>1, <2>2, Zenon DEF Positions, Grows
  <2>4. n \in 0..Len(committed')
    BY <1>1, <2>1 DEF Grows
  <2> QED
    BY <1>2, <2>1, <2>3, <2>4, Zenon DEF Whole
<1> QED
  BY <1>3, <1>4

\* A loss is recorded for the task that met it.
LEMMA DisturbedStays ==
    ASSUME TaskTypeOK, task \in 1..Tasks, task' = task,
           lost' = lost \/ lost' = Append(lost, task)
    PROVE  /\ \A t \in Nat : Undisturbed(t)' => Undisturbed(t)
           /\ Undisturbed(task)' => lost' = lost
<1>1. lost \in Seq(1..Tasks) /\ Len(lost) \in Nat
  BY DEF TaskTypeOK
<1>2. ASSUME lost' = Append(lost, task)
      PROVE  /\ Len(lost') = Len(lost) + 1 /\ lost'[Len(lost) + 1] = task
             /\ \A k \in 1..Len(lost) : lost'[k] = lost[k]
  BY <1>1, <1>2
<1>3. \A t \in Nat : Undisturbed(t)' => Undisturbed(t)
  <2>1. /\ Len(lost) <= Len(lost')
        /\ \A k \in 1..Len(lost) : lost'[k] = lost[k]
    BY <1>1, <1>2
  <2> QED
    BY <1>1, <2>1 DEF Undisturbed
<1>4. ASSUME lost' = Append(lost, task) PROVE ~Undisturbed(task)'
  <2>1. Len(lost) + 1 \in 1..Len(lost') /\ lost'[Len(lost) + 1] = task
    BY <1>1, <1>2, <1>4
  <2> QED
    BY <2>1 DEF Undisturbed
<1> QED
  BY <1>3, <1>4, Zenon

\* One command, whatever its answer.
LEMMA ExecuteEffect ==
    ASSUME TaskTypeOK, task \in 1..Tasks, PendingIsOwn, SessionClean,
           NEW command \in {"begin", "query", "commit", "rollback"},
           NEW ifTrue, NEW ifFalse, Execute(command, ifTrue, ifFalse)
    PROVE  /\ Grows
           /\ \A k \in 1..Len(pending') : pending'[k][1] = task
           /\ lost' = lost \/ lost' = Append(lost, task)
           /\ m_Mysql' = FALSE => pending' = <<>> /\ inTransaction' = FALSE
<1> DEFINE Own == \A k \in 1..Len(pending') : pending'[k][1] = task
           Clean == m_Mysql' = FALSE => pending' = <<>> /\ inTransaction' = FALSE
           Joined == committed \o pending
           Longer == Append(committed, <<task, query>>)
<1>1. committed \in Seq(Entry) /\ pending \in Seq(Entry) /\ <<task, query>> \in Entry
  BY DEF TaskTypeOK, Entry
<1>2. \A k \in 1..Len(pending) : pending[k][1] = task
  BY Zenon DEF PendingIsOwn
<1>3. committed' = committed => Grows
  BY <1>1 DEF Grows
<1>4. committed' = Joined => Grows
  BY <1>1, <1>2 DEF Grows
<1>5. committed' = Longer => Grows
  BY <1>1 DEF Grows
<1>6. pending' = <<>> => Own
  OBVIOUS
<1>7. pending' = Append(pending, <<task, query>>) => Own
  BY <1>1, <1>2
<1>8. pending' = pending => Own
  BY <1>2, Zenon
<1> HIDE DEF Own
<1>9. Effect(command) => Grows /\ Own
  BY <1>3, <1>4, <1>5, <1>6, <1>7, <1>8 DEF Effect
<1>10. SessionLost(command) => Grows /\ Own
  BY <1>3, <1>4, <1>5, <1>6, Zenon DEF SessionLost
<1>11. Grows /\ Own
  BY <1>3, <1>8, <1>6, <1>9, <1>10
     DEF Execute, NoHandle, Success, QueryError, Deadlock, Reconnected, ConnectionGone, server
<1>12. lost' = lost \/ lost' = Append(lost, task)
  BY DEF Execute, NoHandle, Success, QueryError, Deadlock, Reconnected, ConnectionGone
<1>13. Clean
  <2>1. m_Mysql = FALSE => pending = <<>> /\ inTransaction = FALSE
    BY Zenon DEF SessionClean
  <2>2. CASE NoHandle(ifFalse)
    BY <2>1, <2>2, Zenon DEF NoHandle, server
  <2>3. CASE Success(command, ifTrue) \/ QueryError(command, ifFalse) \/ Deadlock(command, ifFalse)
                \/ Reconnected(command)
    <3>1. m_Mysql /\ m_Mysql' = m_Mysql
      BY <2>3, ZenonT(40) DEF Success, QueryError, Deadlock, Reconnected
    <3> QED
      BY <3>1, Zenon
  <2>4. CASE ConnectionGone(command, ifFalse)
    BY <2>4, Zenon DEF ConnectionGone, SessionLost
  <2> QED
    BY <2>2, <2>3, <2>4, Zenon DEF Execute
<1> QED
  BY <1>11, <1>12, <1>13, Zenon DEF Own

\* The part of the invariant that does not depend on the place of the command.
LEMMA CommandKeeps ==
    ASSUME TaskIInv, committed' \in Seq(Entry), task \in 1..Tasks, task' = task,
           NEW command \in {"begin", "query", "commit", "rollback"},
           NEW ifTrue, NEW ifFalse, Execute(command, ifTrue, ifFalse)
    PROVE  /\ PendingIsOwn' /\ PastIsWhole'
           /\ m_Mysql' = FALSE => pending' = <<>> /\ inTransaction' = FALSE
           /\ Undisturbed(task)' => lost' = lost /\ Undisturbed(task)
<1>1. /\ Grows
      /\ \A k \in 1..Len(pending') : pending'[k][1] = task
      /\ lost' = lost \/ lost' = Append(lost, task)
      /\ m_Mysql' = FALSE => pending' = <<>> /\ inTransaction' = FALSE
  BY ExecuteEffect, Zenon DEF TaskIInv
<1>2. committed \in Seq(Entry)
  BY DEF TaskIInv, TaskTypeOK, Entry
<1>3. /\ \A t \in Nat : Undisturbed(t)' => Undisturbed(t)
      /\ Undisturbed(task)' => lost' = lost
  BY <1>1, DisturbedStays DEF TaskIInv
<1>4. PendingIsOwn'
  <2>1. ASSUME NEW t \in Nat, t > task' PROVE Nothing(t)'
    <3>1. t # task /\ Nothing(t)
      BY <2>1 DEF TaskIInv, PendingIsOwn
    <3> QED
      BY <1>1, <1>2, <3>1, OthersKept, Zenon
  <2> QED
    BY <1>1, <2>1 DEF PendingIsOwn
<1>5. PastIsWhole'
  <2>1. ASSUME NEW t \in 1..(task' - 1), Undisturbed(t)' PROVE Nothing(t)' \/ Whole(t)'
    <3>1. t \in Nat /\ t # task /\ t \in 1..(task - 1)
      OBVIOUS
    <3>2. Nothing(t) \/ Whole(t)
      BY <1>3, <2>1, <3>1 DEF TaskIInv, PastIsWhole
    <3> QED
      BY <1>1, <1>2, <3>1, <3>2, OthersKept
  <2> QED
    BY <2>1, Zenon DEF PastIsWhole
<1>6. Undisturbed(task)' => Undisturbed(task)
  <2>1. task \in Nat
    OBVIOUS
  <2> QED
    BY <1>3, <2>1
<1> QED
  BY <1>1, <1>3, <1>4, <1>5, <1>6, Zenon

\* A command of a task whose connection is not lost.
LEMMA AnswerKinds ==
    ASSUME TaskTypeOK, task \in 1..Tasks, lost' = lost,
           NEW command \in {"begin", "query", "commit", "rollback"},
           NEW ifTrue, NEW ifFalse, Execute(command, ifTrue, ifFalse)
    PROVE  \/ NoHandle(ifFalse)
           \/ Success(command, ifTrue)
           \/ command = "query" /\ pc' = ifFalse /\ committed' = committed
<1>1. Append(lost, task) # lost
  BY DEF TaskTypeOK
<1> QED
  BY <1>1 DEF Execute, QueryError, Deadlock, Reconnected, ConnectionGone, server

LEMMA TaskInvInit == TaskInit => TaskIInv
<1> SUFFICES ASSUME TaskInit PROVE TaskIInv
  OBVIOUS
<1>1. TaskTypeOK /\ TaskRunning
  BY TaskTypeInit
<1>2. pending = <<>> /\ task = 0 /\ committed = <<>>
  BY DEF TaskInit
<1>3. SessionClean
  BY Zenon DEF TaskInit, SessionClean
<1>4. PendingIsOwn /\ PastIsWhole /\ TaskIsSound
  BY <1>2 DEF PendingIsOwn, PastIsWhole, TaskIsSound, Nothing, Positions
<1> QED
  BY <1>1, <1>3, <1>4 DEF TaskIInv

LEMMA BeginKeeps == TaskIInv /\ TaskTypeOK' /\ BeginTransaction => SessionClean' /\ TaskIsSound'
                                                          /\ PendingIsOwn' /\ PastIsWhole'
<1> SUFFICES ASSUME TaskIInv, TaskTypeOK', BeginTransaction
             PROVE  SessionClean' /\ TaskIsSound' /\ PendingIsOwn' /\ PastIsWhole'
  BY Zenon
<1>1. /\ task \in 1..Tasks /\ task' = task /\ committed' \in Seq(Entry)
      /\ pc = "begin" /\ query' = 1 /\ Execute("begin", "query", "query")
  BY DEF TaskIInv, TaskRunning, BeginTransaction, control, TaskTypeOK, Entry
<1>2. /\ PendingIsOwn' /\ PastIsWhole'
      /\ m_Mysql' = FALSE => pending' = <<>> /\ inTransaction' = FALSE
      /\ Undisturbed(task)' => lost' = lost /\ Undisturbed(task)
  BY <1>1, CommandKeeps, Zenon
<1>3. pc' = "query" \/ (pc' = "begin" /\ pending' = <<>> /\ inTransaction' = FALSE)
  <2>1. CASE Reconnected("begin")
    BY <1>1, <2>1, Zenon DEF Reconnected, SessionLost
  <2>2. CASE ~Reconnected("begin")
    BY <1>1, <2>2, ZenonT(40)
       DEF Execute, NoHandle, Success, QueryError, Deadlock, ConnectionGone
  <2> QED
    BY <2>1, <2>2, Zenon
<1>4. SessionClean'
  BY <1>2, <1>3, Zenon DEF SessionClean
<1>5. ASSUME Undisturbed(task)'
      PROVE  Nothing(task)' /\ pc' = "query" /\ (m_Mysql' = FALSE \/ Prefix(0)')
  <2>1. lost' = lost /\ Nothing(task) /\ pending = <<>> /\ committed \in Seq(Entry)
    BY <1>1, <1>2, <1>5 DEF TaskIInv, TaskIsSound, SessionClean, TaskTypeOK, Entry
  <2>2. NoHandle("query") \/ Success("begin", "query")
    BY <1>1, <2>1, AnswerKinds DEF TaskIInv
  <2>3. committed' = committed /\ pending' = <<>> /\ pc' = "query"
    BY <2>1, <2>2 DEF NoHandle, Success, Effect, server
  <2>4. m_Mysql' = FALSE \/ (m_Mysql' = TRUE /\ inTransaction' = TRUE)
    <3>1. m_Mysql \in BOOLEAN
      BY DEF TaskIInv, TaskTypeOK
    <3>2. NoHandle("query") => m_Mysql' = FALSE
      BY <3>1, Zenon DEF NoHandle
    <3>3. Success("begin", "query") => m_Mysql' = TRUE /\ inTransaction' = TRUE
      BY <3>1, Zenon DEF Success, Effect
    <3> QED
      BY <2>2, <3>2, <3>3
  <2>5. Nothing(task)'
    BY <1>1, <2>1, <2>3 DEF Nothing, Positions
  <2>6. Len(pending') = 0
    BY <2>3
  <2> QED
    BY <2>3, <2>4, <2>5, <2>6 DEF Prefix
<1>6. TaskIsSound'
  <2>1. query' - 1 = 0
    BY <1>1
  <2> QED
    BY <1>5, <2>1, Zenon DEF TaskIsSound
<1> QED
  BY <1>2, <1>4, <1>6

LEMMA QueryKeeps == TaskIInv /\ TaskTypeOK' /\ ExecuteQuery => SessionClean' /\ TaskIsSound'
                                                       /\ PendingIsOwn' /\ PastIsWhole'
<1> SUFFICES ASSUME TaskIInv, TaskTypeOK', ExecuteQuery
             PROVE  SessionClean' /\ TaskIsSound' /\ PendingIsOwn' /\ PastIsWhole'
  OBVIOUS
<1> DEFINE next == IF query < Size THEN "query" ELSE "commit"
<1>1. /\ task \in 1..Tasks /\ task' = task /\ committed' \in Seq(Entry)
      /\ pc = "query" /\ query \in 1..Size /\ Execute("query", next, "rollback")
  BY DEF TaskIInv, TaskRunning, ExecuteQuery, control, TaskTypeOK, Entry
<1>2. /\ PendingIsOwn' /\ PastIsWhole'
      /\ m_Mysql' = FALSE => pending' = <<>> /\ inTransaction' = FALSE
      /\ Undisturbed(task)' => lost' = lost /\ Undisturbed(task)
  <2> HIDE DEF next
  <2> QED
    BY <1>1, CommandKeeps, Zenon
<1>3. pc' \in {"query", "commit", "rollback"}
  BY <1>1 DEF Execute, NoHandle, Success, QueryError, Deadlock, Reconnected, ConnectionGone
<1>4. SessionClean'
  BY <1>2, <1>3 DEF SessionClean
<1>5. ASSUME Undisturbed(task)'
      PROVE  /\ Nothing(task)'
             /\ \/ pc' = "rollback"
                \/ pc' = "query" /\ Prefix(query - 1)'
                \/ pc' = "commit" /\ Prefix(Size)'
  <2>1. /\ lost' = lost /\ Nothing(task) /\ pending \in Seq(Entry)
        /\ m_Mysql = FALSE \/ Prefix(query - 1)
    BY <1>1, <1>2, <1>5 DEF TaskIInv, TaskIsSound, TaskTypeOK, Entry
  <2>2. \/ NoHandle("rollback") \/ Success("query", next)
        \/ pc' = "rollback" /\ committed' = committed
    <3> HIDE DEF next
    <3> QED
      BY <1>1, <2>1, AnswerKinds, Zenon DEF TaskIInv
  <2>3. CASE NoHandle("rollback") \/ (pc' = "rollback" /\ committed' = committed)
    <3>1. pc' = "rollback" /\ committed' = committed
      BY <2>3 DEF NoHandle, server
    <3> QED
      BY <1>1, <2>1, <3>1 DEF Nothing, Positions
  <2>4. CASE Success("query", next)
    <3>1. m_Mysql
      BY <2>4, Zenon DEF Success
    <3>2. Prefix(query - 1)
      BY <2>1, <3>1, Zenon
    <3>3. /\ pending' = Append(pending, <<task, query>>) /\ committed' = committed
          /\ inTransaction' = TRUE /\ m_Mysql' = TRUE
      BY <2>4, <3>2, Zenon DEF Success, Effect, Prefix
    <3>4. pc' = next
      BY <2>4, Zenon DEF Success
    <3>5. Len(pending') = query /\ \A k \in 1..query : pending'[k] = <<task, k>>
      BY <1>1, <2>1, <3>2, <3>3 DEF Prefix
    <3>6. Nothing(task)'
      BY <1>1, <2>1, <3>3, Zenon DEF Nothing, Positions
    <3>7. CASE query < Size
      <4>1. pc' = "query" /\ query' - 1 = query
        BY <1>1, <2>1, <3>4, <3>7 DEF ExecuteQuery
      <4> QED
        BY <1>1, <3>3, <3>5, <3>6, <4>1, Zenon DEF Prefix
    <3>8. CASE ~(query < Size)
      <4>1. pc' = "commit" /\ query = Size
        BY <1>1, <3>4, <3>8, TransactionAssumption
      <4> QED
        BY <1>1, <3>3, <3>5, <3>6, <4>1, Zenon DEF Prefix
    <3> QED
      BY <3>7, <3>8
  <2> QED
    BY <2>2, <2>3, <2>4
<1>6. TaskIsSound'
  BY <1>5, Zenon DEF TaskIsSound
<1> QED
  BY <1>2, <1>4, <1>6

LEMMA RollbackKeeps == TaskIInv /\ TaskTypeOK' /\ RollbackTransaction => SessionClean' /\ TaskIsSound'
                                                                 /\ PendingIsOwn' /\ PastIsWhole'
<1> SUFFICES ASSUME TaskIInv, TaskTypeOK', RollbackTransaction
             PROVE  SessionClean' /\ TaskIsSound' /\ PendingIsOwn' /\ PastIsWhole'
  OBVIOUS
<1>1. /\ task \in 1..Tasks /\ task' = task /\ committed' \in Seq(Entry)
      /\ pc = "rollback" /\ Execute("rollback", "failed", "failed")
  BY DEF TaskIInv, TaskRunning, RollbackTransaction, control, TaskTypeOK, Entry
<1>2. /\ PendingIsOwn' /\ PastIsWhole'
      /\ m_Mysql' = FALSE => pending' = <<>> /\ inTransaction' = FALSE
      /\ Undisturbed(task)' => lost' = lost /\ Undisturbed(task)
  BY <1>1, CommandKeeps, Zenon
<1>3. pc' \in {"rollback", "failed"} /\ pending' = <<>> /\ inTransaction' = FALSE
  <2>1. pc' \in {"rollback", "failed"}
    BY <1>1 DEF Execute, NoHandle, Success, QueryError, Deadlock, Reconnected, ConnectionGone
  <2>2. CASE NoHandle("failed")
    <3>1. m_Mysql \in BOOLEAN
      BY DEF TaskIInv, TaskTypeOK
    <3>2. m_Mysql' = FALSE
      BY <2>2, <3>1, Zenon DEF NoHandle
    <3> QED
      BY <1>2, <2>1, <3>2
  <2>3. CASE Success("rollback", "failed") \/ Reconnected("rollback")
                \/ ConnectionGone("rollback", "failed")
    <3>1. pending' = <<>> /\ inTransaction' = FALSE
      BY <2>3, Zenon DEF Success, Effect, Reconnected, ConnectionGone, SessionLost
    <3> QED
      BY <2>1, <3>1
  <2>4. ~QueryError("rollback", "failed") /\ ~Deadlock("rollback", "failed")
    BY DEF QueryError, Deadlock
  <2> QED
    BY <1>1, <2>2, <2>3, <2>4, Zenon DEF Execute
<1>4. SessionClean'
  BY <1>3 DEF SessionClean
<1>5. ASSUME Undisturbed(task)' PROVE Nothing(task)'
  <2>1. lost' = lost /\ Nothing(task)
    BY <1>1, <1>2, <1>5 DEF TaskIInv, TaskIsSound
  <2>2. NoHandle("failed") \/ Success("rollback", "failed")
    BY <1>1, <2>1, AnswerKinds, Zenon DEF TaskIInv
  <2>3. committed' = committed
    BY <2>2, Zenon DEF NoHandle, Success, Effect, server
  <2> QED
    BY <1>1, <2>1, <2>3 DEF Nothing, Positions
<1>6. TaskIsSound'
  BY <1>3, <1>5, Zenon DEF TaskIsSound
<1> QED
  BY <1>2, <1>4, <1>6

LEMMA CommitKeeps == TaskIInv /\ TaskTypeOK' /\ CommitTransaction => SessionClean' /\ TaskIsSound'
                                                             /\ PendingIsOwn' /\ PastIsWhole'
<1> SUFFICES ASSUME TaskIInv, TaskTypeOK', CommitTransaction
             PROVE  SessionClean' /\ TaskIsSound' /\ PendingIsOwn' /\ PastIsWhole'
  OBVIOUS
<1>1. /\ task \in 1..Tasks /\ task' = task /\ committed' \in Seq(Entry)
      /\ pc = "commit" /\ Execute("commit", "idle", "idle")
  BY DEF TaskIInv, TaskRunning, CommitTransaction, control, TaskTypeOK, Entry
<1>2. /\ PendingIsOwn' /\ PastIsWhole'
      /\ m_Mysql' = FALSE => pending' = <<>> /\ inTransaction' = FALSE
      /\ Undisturbed(task)' => lost' = lost /\ Undisturbed(task)
  BY <1>1, CommandKeeps, Zenon
<1>3. pc' \in {"commit", "idle"} /\ pending' = <<>> /\ inTransaction' = FALSE
  <2>1. pc' \in {"commit", "idle"}
    BY <1>1 DEF Execute, NoHandle, Success, QueryError, Deadlock, Reconnected, ConnectionGone
  <2>2. CASE NoHandle("idle")
    <3>1. m_Mysql \in BOOLEAN
      BY DEF TaskIInv, TaskTypeOK
    <3>2. m_Mysql' = FALSE
      BY <2>2, <3>1, Zenon DEF NoHandle
    <3> QED
      BY <1>2, <2>1, <3>2
  <2>3. CASE Success("commit", "idle") \/ Reconnected("commit") \/ ConnectionGone("commit", "idle")
    <3>1. pending' = <<>> /\ inTransaction' = FALSE
      BY <2>3, Zenon DEF Success, Effect, Reconnected, ConnectionGone, SessionLost
    <3> QED
      BY <2>1, <3>1
  <2>4. ~QueryError("commit", "idle") /\ ~Deadlock("commit", "idle")
    BY DEF QueryError, Deadlock
  <2> QED
    BY <1>1, <2>2, <2>3, <2>4, Zenon DEF Execute
<1>4. SessionClean'
  BY <1>3 DEF SessionClean
<1>5. ASSUME Undisturbed(task)' PROVE pc' = "idle" /\ result' = TRUE /\ Whole(task)'
  <2>1. /\ lost' = lost /\ Nothing(task) /\ Prefix(Size)
        /\ committed \in Seq(Entry) /\ pending \in Seq(Entry)
    BY <1>1, <1>2, <1>5 DEF TaskIInv, TaskIsSound, TaskTypeOK, Entry
  <2>2. NoHandle("idle") \/ Success("commit", "idle")
    BY <1>1, <2>1, AnswerKinds DEF TaskIInv
  <2>3. Success("commit", "idle")
    BY <2>1, <2>2, Zenon DEF NoHandle, Prefix
  <2>4. committed' = committed \o pending /\ pc' = "idle"
    BY <2>3 DEF Success, Effect
  <2>5. result' = TRUE
    BY <2>4, Zenon DEF CommitTransaction
  <2> DEFINE n == Len(committed)
  <2>6. /\ n \in 0..Len(committed') /\ Len(committed') = n + Size
        /\ \A k \in 1..n : committed'[k] = committed[k]
        /\ \A k \in 1..Size : committed'[n + k] = <<task, k>>
    <3>1. Size \in Nat /\ Len(pending) = Size /\ \A k \in 1..Size : pending[k] = <<task, k>>
      BY <2>1, TransactionAssumption, Zenon DEF Prefix
    <3>2. Len(committed') = n + Size /\ n \in Nat
      <4>1. Len(committed \o pending) = Len(committed) + Len(pending) /\ Len(committed) \in Nat
        BY <2>1
      <4> QED
        BY <2>4, <3>1, <4>1, Zenon
    <3>3. \A k \in 1..n : committed'[k] = committed[k]
      BY <2>1, <2>4
    <3>4. \A k \in 1..Size : committed'[n + k] = pending[k]
      BY <2>1, <2>4, <3>1
    <3> QED
      BY <3>1, <3>2, <3>3, <3>4
  <2>7. \A k \in 1..n : committed[k][1] # task
    BY <2>1, Zenon DEF Nothing, Positions
  <2>8. \A k \in (n + 1)..(n + Size) : committed'[k][1] = task
    <3>1. \A k \in (n + 1)..(n + Size) : k - n \in 1..Size /\ n + (k - n) = k
      BY <2>1, TransactionAssumption
    <3> QED
      BY <2>6, <3>1
  <2>9. Positions(task)' = (n + 1)..(n + Size)
    <3>1. n \in Nat /\ Size \in Nat
      BY <2>1, TransactionAssumption
    <3> HIDE DEF n
    <3> QED
      BY <1>1, <2>6, <2>7, <2>8, <3>1 DEF Positions
  <2>10. Whole(task)'
    <3> HIDE DEF n
    <3> QED
      BY <1>1, <2>6, <2>9, Zenon DEF Whole
  <2> QED
    BY <2>4, <2>5, <2>10, Zenon
<1>6. TaskIsSound'
  BY <1>5 DEF TaskIsSound
<1> QED
  BY <1>2, <1>4, <1>6

LEMMA NextTaskKeeps == TaskIInv /\ CommitTransactionTask => SessionClean' /\ TaskIsSound'
                                                       /\ PendingIsOwn' /\ PastIsWhole'
<1> SUFFICES ASSUME TaskIInv, CommitTransactionTask
             PROVE  SessionClean' /\ TaskIsSound' /\ PendingIsOwn' /\ PastIsWhole'
  BY Zenon
<1>1. /\ task \in Nat /\ task' = task + 1 /\ pc = "idle" /\ pc' = "begin"
      /\ UNCHANGED <<committed, lost, pending, inTransaction>>
      /\ pending = <<>> /\ inTransaction = FALSE
  BY DEF TaskIInv, TaskTypeOK, SessionClean, CommitTransactionTask, server
<1>2. \A t \in Nat : /\ Nothing(t)' <=> Nothing(t)
                     /\ Whole(t)' <=> Whole(t)
                     /\ Undisturbed(t)' <=> Undisturbed(t)
  BY <1>1 DEF Nothing, Whole, Positions, Undisturbed
<1>3. SessionClean'
  BY <1>1, Zenon DEF SessionClean
<1>4. \A t \in Nat : t > task => Nothing(t)
  BY Zenon DEF TaskIInv, PendingIsOwn
<1>5. PendingIsOwn'
  BY <1>1, <1>2, <1>4 DEF PendingIsOwn
<1>6. PastIsWhole'
  <2>1. ASSUME NEW t \in 1..(task' - 1), Undisturbed(t) PROVE Nothing(t) \/ Whole(t)
    <3>1. CASE t \in 1..(task - 1)
      BY <2>1, <3>1, Zenon DEF TaskIInv, PastIsWhole
    <3>2. CASE t = task /\ task > 0
      BY <1>1, <2>1, <3>2, Zenon DEF TaskIInv, TaskIsSound
    <3> QED
      BY <1>1, <3>1, <3>2
  <2> QED
    BY <1>1, <1>2, <2>1 DEF PastIsWhole
<1>7. TaskIsSound'
  <2>1. Nothing(task + 1)
    BY <1>1, <1>4
  <2>2. Nothing(task)'
    BY <1>1, <2>1, Zenon DEF Nothing, Positions
  <2> QED
    BY <1>1, <2>2, Zenon DEF TaskIsSound
<1> QED
  BY <1>3, <1>5, <1>6, <1>7, Zenon

\* A step that leaves alone the task, what took effect, and the session.
LEMMA ServerKept ==
    ASSUME TaskIInv,
           UNCHANGED <<task, query, m_Mysql, inTransaction, pending, committed, lost>>
    PROVE  /\ PendingIsOwn' /\ PastIsWhole'
           /\ Nothing(task)' <=> Nothing(task)
           /\ Whole(task)' <=> Whole(task)
           /\ Undisturbed(task)' <=> Undisturbed(task)
<1>1. \A t \in Nat : /\ Nothing(t)' <=> Nothing(t)
                     /\ Whole(t)' <=> Whole(t)
                     /\ Undisturbed(t)' <=> Undisturbed(t)
  BY Zenon DEF Nothing, Whole, Positions, Undisturbed
<1>2. PendingIsOwn' /\ PastIsWhole'
  BY <1>1 DEF TaskIInv, TaskTypeOK, PendingIsOwn, PastIsWhole
<1> QED
  BY <1>2, Zenon DEF Nothing, Whole, Positions, Undisturbed

LEMMA FailedKeeps == TaskIInv /\ ExecuteTransactionFailed => SessionClean' /\ TaskIsSound'
                                                        /\ PendingIsOwn' /\ PastIsWhole'
<1> SUFFICES ASSUME TaskIInv, ExecuteTransactionFailed
             PROVE  SessionClean' /\ TaskIsSound' /\ PendingIsOwn' /\ PastIsWhole'
  OBVIOUS
<1>1. UNCHANGED <<task, query, m_Mysql, inTransaction, pending, committed, lost>>
  BY Zenon DEF ExecuteTransactionFailed, server
<1>2. /\ PendingIsOwn' /\ PastIsWhole'
      /\ Nothing(task)' <=> Nothing(task)
      /\ Undisturbed(task)' <=> Undisturbed(task)
  BY <1>1, ServerKept
<1>3. pc = "failed" /\ (pc' = "begin" \/ (pc' = "idle" /\ result' = FALSE))
  BY Zenon DEF ExecuteTransactionFailed
<1>4. SessionClean'
  BY <1>1, <1>3, Zenon DEF TaskIInv, SessionClean
<1>5. TaskIsSound'
  BY <1>1, <1>2, <1>3, Zenon DEF TaskIInv, TaskIsSound
<1> QED
  BY <1>2, <1>4, <1>5, Zenon

LEMMA IdleKeeps == TaskIInv /\ (Ping \/ UNCHANGED taskVars) => SessionClean' /\ TaskIsSound'
                                                       /\ PendingIsOwn' /\ PastIsWhole'
<1> SUFFICES ASSUME TaskIInv, Ping \/ UNCHANGED taskVars
             PROVE  SessionClean' /\ TaskIsSound' /\ PendingIsOwn' /\ PastIsWhole'
  BY Zenon
<1>1. UNCHANGED <<task, query, m_Mysql, inTransaction, pending, committed, lost, result>>
  BY Zenon DEF Ping, taskVars, control, server
<1>2. /\ PendingIsOwn' /\ PastIsWhole'
      /\ Nothing(task)' <=> Nothing(task)
      /\ Whole(task)' <=> Whole(task)
      /\ Undisturbed(task)' <=> Undisturbed(task)
  BY <1>1, ServerKept, Zenon
<1>3. pc' = pc \/ (pc = "idle" /\ pc' \in {"idle", "crashed"})
  <2>1. Ping => pc = "idle" /\ pc' \in {"idle", "crashed"}
    BY Zenon DEF Ping
  <2> QED
    BY <2>1 DEF taskVars
<1>4. SessionClean'
  BY <1>1, <1>3, Zenon DEF TaskIInv, SessionClean
<1>5. TaskIsSound'
  <2>1. (Prefix(query - 1)' <=> Prefix(query - 1)) /\ (Prefix(Size)' <=> Prefix(Size))
    BY <1>1, Zenon DEF Prefix
  <2> QED
    BY <1>1, <1>2, <1>3, <2>1, Zenon DEF TaskIInv, TaskIsSound
<1> QED
  BY <1>2, <1>4, <1>5, Zenon

LEMMA TaskInvStep == TaskIInv /\ [TaskNext]_taskVars => TaskIInv'
<1> SUFFICES ASSUME TaskIInv, [TaskNext]_taskVars PROVE TaskIInv'
  OBVIOUS
<1>1. TaskTypeOK' /\ TaskRunning'
  BY TaskTypeStep, Zenon DEF TaskIInv
<1>2. SessionClean' /\ TaskIsSound' /\ PendingIsOwn' /\ PastIsWhole'
  BY <1>1, NextTaskKeeps, BeginKeeps, QueryKeeps, RollbackKeeps, CommitKeeps, FailedKeeps, IdleKeeps
     DEF TaskNext, TaskStep
<1> QED
  BY <1>1, <1>2 DEF TaskIInv

LEMMA InvCorrect == TaskSpec => []TaskIInv
  BY TaskInvInit, TaskInvStep, PTL DEF TaskSpec

\* A transaction that did not lose its connection took effect as a whole or not
\* at all, whatever happened to others on the connection before and after it.
THEOREM LossIsConfinedCorrect == TaskSpec => []LossIsConfined
<1>1. TaskIInv => LossIsConfined
  BY DEF TaskIInv, TaskTypeOK, PastIsWhole, TaskIsSound, LossIsConfined, Finished
<1> QED
  BY <1>1, InvCorrect, PTL

\* What TransactionTask::Execute returns is true of a transaction that did not
\* lose its connection.
THEOREM ResultIsTrueCorrect == TaskSpec => []ResultIsTrue
<1>1. TaskIInv => ResultIsTrue
  <2> SUFFICES ASSUME TaskIInv, pc = "idle", task > 0, Undisturbed(task)
               PROVE  /\ result => Whole(task)
                      /\ ~result => Nothing(task) /\ pending = <<>> /\ ~inTransaction
    BY Zenon DEF ResultIsTrue
  <2>1. (result = TRUE /\ Whole(task)) \/ (result = FALSE /\ Nothing(task))
    BY DEF TaskIInv, TaskIsSound
  <2>2. pending = <<>> /\ inTransaction = FALSE
    BY DEF TaskIInv, SessionClean
  <2> QED
    BY <2>1, <2>2, Zenon
<1> QED
  BY <1>1, InvCorrect, PTL
=============================================================================
