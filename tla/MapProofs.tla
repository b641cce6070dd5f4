----------------------------- MODULE MapProofs ------------------------------
(***************************************************************************)
(* Proofs about the updates of the maps, for any number of maps and        *)
(* workers and any limit of the executor's queue, and about the instance   *)
(* ids, for any set of map update threads, any range of ids and any word   *)
(* size.                                                                   *)
(***************************************************************************)
EXTENDS MapUpdater, InstanceIds, FiniteSetTheorems, TLAPS

-----------------------------------------------------------------------------
(* MapUpdater *)

LEMMA MapSubsets == BaseMap \subseteq Map /\ InstanceMap \subseteq Map
BY DEF Map

LEMMA TypeInit == Init => TypeOK
<1> SUFFICES ASSUME Init PROVE TypeOK
  OBVIOUS
<1>1. queue_ \in Seq(Map)
  BY DEF Init
<1> QED
  BY <1>1, Zenon DEF Init, TypeOK

LEMMA TypeStep == TypeOK /\ [Next]_vars => TypeOK'
<1> SUFFICES ASSUME TypeOK, [Next]_vars PROVE TypeOK'
  OBVIOUS
<1> USE DEF TypeOK
<1>1. CASE Initialize
  BY <1>1, Zenon DEF Initialize
<1>2. ASSUME NEW i \in InstanceMap, NEW m \in BaseMap, CreateInstance(i, m) PROVE TypeOK'
  BY <1>2 DEF CreateInstance, workerVars
<1>3. CASE BeginUpdate
  BY <1>3 DEF BeginUpdate, workerVars
<1>4. ASSUME NEW m \in BaseMap, ScheduleMap(m) PROVE TypeOK'
  <2>1. pending_requests' \in Nat
    BY <1>4 DEF ScheduleMap, schedule_update
  <2>2. queue_' \in Seq(Map)
    BY MapSubsets, <1>4 DEF ScheduleMap, schedule_update
  <2>3. iter' \subseteq BaseMap /\ UNCHANGED <<pc, activated_, thread, task, children, owner>>
    BY <1>4 DEF ScheduleMap, workerVars
  <2> QED
    BY <2>1, <2>2, <2>3
<1>5. ASSUME NEW m \in BaseMap, UpdateInline(m) PROVE TypeOK'
  BY <1>5 DEF UpdateInline, workerVars
<1>6. CASE EndLoop
  BY <1>6 DEF EndLoop, wait, workerVars
<1>7. CASE Wakeup
  BY <1>7 DEF Wakeup, wait, workerVars
<1>8. CASE DelayedUpdate \/ UnloadAll
  BY <1>8 DEF DelayedUpdate, UnloadAll, wait, workerVars
<1>9. CASE Deactivate \/ Join
  BY <1>9, Zenon DEF Deactivate, Join, workerVars
<1>10. ASSUME NEW w \in Worker, Dequeue(w) PROVE TypeOK'
  <2>1. queue_ # <<>> /\ Head(queue_) \in Map /\ Tail(queue_) \in Seq(Map)
    BY <1>10 DEF Dequeue
  <2>2. InstancesOf(Head(queue_)) \in SUBSET InstanceMap
    BY DEF InstancesOf
  <2> QED
    BY <1>10, <2>1, <2>2 DEF Dequeue, worldVars
<1>11. ASSUME NEW w \in Worker, ThreadExit(w) PROVE TypeOK'
  BY <1>11 DEF ThreadExit, worldVars
<1>12. ASSUME NEW w \in Worker, NEW i \in InstanceMap, VisitInstance(w, i) PROVE TypeOK'
  <2>1. children' \in [Worker -> SUBSET InstanceMap] /\ owner' \in [InstanceMap -> BaseMap \cup {NoMap}]
    BY <1>12 DEF VisitInstance
  <2>2. pending_requests' \in Nat
    BY <1>12 DEF VisitInstance, schedule_update
  <2>3. queue_' \in Seq(Map)
    BY MapSubsets, <1>12 DEF VisitInstance, schedule_update
  <2> QED
    BY <1>12, <2>1, <2>2, <2>3 DEF VisitInstance, worldVars
<1>13. ASSUME NEW w \in Worker, FinishUpdate(w) PROVE TypeOK'
  BY <1>13 DEF FinishUpdate, update_finished
<1>14. CASE UNCHANGED vars
  BY <1>14 DEF vars
<1> QED
  BY <1>1, <1>2, <1>3, <1>4, <1>5, <1>6, <1>7, <1>8, <1>9, <1>10, <1>11, <1>12, <1>13, <1>14
     DEF Next, WorldStep, WorkerStep

\* Every step of the world thread and of the workers (MapUpdater.cpp,
\* DelayExecutor.cpp, MapManager::Update) keeps the state well typed.
THEOREM TypeCorrect == Spec => []TypeOK
BY TypeInit, TypeStep, PTL DEF Spec
-----------------------------------------------------------------------------
(* The set of busy maps under the four things that can happen to a request. *)

LEMMA WorkingFinite ==
    ASSUME TypeOK
    PROVE  IsFiniteSet(Working) /\ Cardinality(Working) \in Nat
BY MapAssumption, FS_Subset, FS_CardinalityType DEF Working

LEMMA BusyAppend ==
    ASSUME TypeOK, NEW m \in Map, queue_' = Append(queue_, m), UNCHANGED task
    PROVE  /\ Busy' = Busy \cup {m}
           /\ Working' = Working
           /\ Len(queue_') = Len(queue_) + 1
           /\ queue_'[Len(queue_) + 1] = m
           /\ \A k \in 1..Len(queue_) : queue_'[k] = queue_[k]
<1>1. queue_ \in Seq(Map)
  BY DEF TypeOK
<1>2. /\ Len(queue_') = Len(queue_) + 1
      /\ queue_'[Len(queue_) + 1] = m
      /\ \A k \in 1..Len(queue_) : queue_'[k] = queue_[k]
  BY <1>1
<1>3. Working' = Working
  BY DEF Working
<1>4. {queue_'[k] : k \in 1..Len(queue_')} = {queue_[k] : k \in 1..Len(queue_)} \cup {m}
  BY <1>1, <1>2
<1> QED
  BY <1>2, <1>3, <1>4 DEF Busy

LEMMA BusyDequeue ==
    ASSUME TypeOK, NEW w \in Worker, Dequeue(w)
    PROVE  /\ Busy' = Busy
           /\ Working' = Working \cup {w} /\ w \notin Working
           /\ Len(queue_) >= 1 /\ Len(queue_') = Len(queue_) - 1
           /\ queue_[1] \in Map /\ task'[w] = queue_[1]
           /\ \A v \in Worker \ {w} : task'[v] = task[v]
           /\ \A k \in 1..Len(queue_') : queue_'[k] = queue_[k + 1]
<1>1. queue_ \in Seq(Map) /\ queue_ # <<>> /\ queue_' = Tail(queue_)
  BY DEF TypeOK, Dequeue
<1>2. /\ Len(queue_) >= 1 /\ Len(queue_') = Len(queue_) - 1
      /\ Head(queue_) = queue_[1] /\ queue_[1] \in Map
      /\ \A k \in 1..Len(queue_') : queue_'[k] = queue_[k + 1]
  BY <1>1
<1>3. /\ task'[w] = queue_[1]
      /\ \A v \in Worker \ {w} : task'[v] = task[v]
      /\ task[w] = NoMap
  BY <1>2 DEF Dequeue, TypeOK
<1>4. Working' = Working \cup {w} /\ w \notin Working
  BY <1>2, <1>3, MapAssumption DEF Working
<1>5. {queue_[k] : k \in 1..Len(queue_)} = {queue_'[k] : k \in 1..Len(queue_')} \cup {queue_[1]}
  <2>1. ASSUME NEW k \in 1..Len(queue_) PROVE k = 1 \/ (k - 1 \in 1..Len(queue_') /\ queue_'[k - 1] = queue_[k])
    BY <1>1, <1>2
  <2>2. ASSUME NEW k \in 1..Len(queue_') PROVE k + 1 \in 1..Len(queue_) /\ queue_'[k] = queue_[k + 1]
    BY <1>1, <1>2
  <2>3. 1 \in 1..Len(queue_)
    BY <1>1, <1>2
  <2>4. ASSUME NEW k \in 1..Len(queue_)
        PROVE  queue_[k] \in {queue_'[j] : j \in 1..Len(queue_')} \cup {queue_[1]}
    BY <2>1
  <2>5. ASSUME NEW j \in 1..Len(queue_')
        PROVE  queue_'[j] \in {queue_[k] : k \in 1..Len(queue_)}
    BY <2>2
  <2>6. queue_[1] \in {queue_[k] : k \in 1..Len(queue_)}
    BY <2>3
  <2> QED
    BY <2>4, <2>5, <2>6, Zenon
<1>6. {task'[v] : v \in Working'} = {task[v] : v \in Working} \cup {queue_[1]}
  BY <1>3, <1>4 DEF Working
<1> QED
  BY <1>2, <1>3, <1>4, <1>5, <1>6, Zenon DEF Busy

LEMMA BusyFinish ==
    ASSUME TypeOK, OneUpdatePerMap, NEW w \in Worker, FinishUpdate(w)
    PROVE  /\ Busy' = Busy \ {task[w]}
           /\ task[w] \in Busy
           /\ Working' = Working \ {w} /\ w \in Working
           /\ \A v \in Working' : task'[v] = task[v]
<1>1. /\ task[w] # NoMap /\ task' = [task EXCEPT ![w] = NoMap]
      /\ queue_' = queue_
  BY DEF FinishUpdate
<1>2. Working' = Working \ {w} /\ w \in Working
  BY <1>1 DEF Working, TypeOK
<1>3. \A v \in Working' : task'[v] = task[v]
  BY <1>1, <1>2 DEF Working, TypeOK
<1>4. {task'[v] : v \in Working'} = {task[v] : v \in Working} \ {task[w]}
  BY <1>2, <1>3 DEF OneUpdatePerMap
<1>5. task[w] \notin {queue_[k] : k \in 1..Len(queue_)}
  BY <1>2 DEF OneUpdatePerMap
<1> QED
  BY <1>1, <1>2, <1>3, <1>4, <1>5 DEF Busy
-----------------------------------------------------------------------------
\* The inductive invariant: the count, the quiet phases and the distinctness of
\* requests support each other, so they are preserved together.
LEMMA InvInit == Init => IInv
<1> SUFFICES ASSUME Init PROVE IInv
  OBVIOUS
<1>1. TypeOK
  BY TypeInit
<1>2. Working = {} /\ Len(queue_) = 0
  BY DEF Init, Working
<1>3. Busy = {}
  BY <1>2 DEF Busy
<1>4. PendingIsOutstanding
  BY <1>2, FS_EmptySet DEF Init, PendingIsOutstanding
<1> QED
  BY <1>1, <1>2, <1>3, <1>4 DEF Init, IInv, QuietWhenExclusive, QuietWhenInactive,
     OneUpdatePerMap, NoDanglingRequest, NotHandedOverYet

\* With nothing pending nothing is queued and nobody works.
LEMMA NothingPending ==
    ASSUME TypeOK, PendingIsOutstanding, pending_requests = 0
    PROVE  Len(queue_) = 0 /\ queue_ = <<>> /\ Working = {} /\ Busy = {}
<1>1. queue_ \in Seq(Map) /\ Len(queue_) \in Nat
  BY DEF TypeOK
<1>2. Len(queue_) = 0 /\ Cardinality(Working) = 0
  BY <1>1, WorkingFinite DEF PendingIsOutstanding
<1>3. Working = {}
  BY <1>2, WorkingFinite, FS_EmptySet
<1>4. queue_ = <<>>
  BY <1>1, <1>2
<1> QED
  BY <1>2, <1>3, <1>4 DEF Busy

\* A step that touches no request keeps the conjuncts about requests.
LEMMA SameRequests ==
    ASSUME UNCHANGED <<queue_, task, pending_requests>>
    PROVE  /\ Busy' = Busy /\ Working' = Working
           /\ PendingIsOutstanding => PendingIsOutstanding'
           /\ OneUpdatePerMap => OneUpdatePerMap'
<1>1. Working' = Working
  BY DEF Working
<1>2. Busy' = Busy
  BY <1>1 DEF Busy
<1>3. PendingIsOutstanding => PendingIsOutstanding'
  BY <1>1 DEF PendingIsOutstanding
<1>4. OneUpdatePerMap => OneUpdatePerMap'
  BY <1>1 DEF OneUpdatePerMap
<1> QED
  BY <1>1, <1>2, <1>3, <1>4

\* The world thread's steps other than scheduling.
LEMMA InvWorld ==
    ASSUME IInv, TypeOK',
           \/ Initialize \/ BeginUpdate \/ EndLoop \/ Wakeup \/ DelayedUpdate
           \/ UnloadAll \/ Deactivate \/ Join \/ UNCHANGED vars
           \/ \E m \in BaseMap : UpdateInline(m)
           \/ \E i \in InstanceMap, m \in BaseMap : CreateInstance(i, m)
    PROVE  IInv'
<1> USE DEF IInv
<1>1. UNCHANGED <<queue_, task, pending_requests>>
  BY DEF Initialize, BeginUpdate, EndLoop, Wakeup, DelayedUpdate, UnloadAll, Deactivate, Join,
     UpdateInline, CreateInstance, vars, workerVars
<1>2. /\ Busy' = Busy /\ Working' = Working
      /\ PendingIsOutstanding' /\ OneUpdatePerMap'
  BY <1>1, SameRequests, Zenon
<1>3. QuietWhenExclusive'
  BY <1>1 DEF QuietWhenExclusive, Exclusive, TypeOK, Initialize, BeginUpdate, EndLoop, Wakeup, DelayedUpdate,
     UnloadAll, Deactivate, Join, UpdateInline, CreateInstance, wait, vars, QuietWhenInactive
<1>4. QuietWhenInactive'
  BY <1>1 DEF QuietWhenExclusive, Exclusive, TypeOK, Initialize, BeginUpdate, EndLoop, Wakeup, DelayedUpdate,
     UnloadAll, Deactivate, Join, UpdateInline, CreateInstance, vars, QuietWhenInactive
<1>5. CASE pending_requests = 0
  <2>1. Busy = {} /\ Working = {} /\ Len(queue_) = 0
    BY <1>5, NothingPending
  <2>2. \A w \in Worker : children[w] = {}
    BY <2>1, MapAssumption, Zenon DEF NoDanglingRequest, Working, TypeOK
  <2>3. children' = children
    BY Zenon DEF Initialize, BeginUpdate, EndLoop, Wakeup, DelayedUpdate, UnloadAll, Deactivate, Join,
       UpdateInline, CreateInstance, vars, workerVars
  <2>4. NoDanglingRequest'
    BY <1>2, <2>1, <2>2, <2>3, Zenon DEF NoDanglingRequest
  <2>5. NotHandedOverYet'
    BY <1>1, <1>2, <2>1, <2>2, <2>3, Zenon DEF NotHandedOverYet
  <2> QED
    BY <1>2, <1>3, <1>4, <2>4, <2>5
<1>6. CASE pending_requests # 0
  <2>1. ~Exclusive /\ activated_
    BY <1>6, Zenon DEF QuietWhenExclusive, QuietWhenInactive
  <2>2. UNCHANGED <<iter, children, owner>>
    BY <2>1, Zenon DEF Exclusive, Initialize, BeginUpdate, EndLoop, Wakeup, DelayedUpdate, UnloadAll, Deactivate,
       Join, UpdateInline, CreateInstance, vars, workerVars
  <2>3. NoDanglingRequest'
    BY <1>1, <1>2, <2>2 DEF NoDanglingRequest
  <2>4. NotHandedOverYet'
    BY <1>1, <1>2, <2>2 DEF NotHandedOverYet, InstancesOf
  <2> QED
    BY <1>2, <1>3, <1>4, <2>3, <2>4
<1> QED
  BY <1>5, <1>6, Zenon

\* A request that is accepted, by the world thread or by a worker.
LEMMA InvEnqueue ==
    ASSUME IInv, NEW m \in Map, m \notin Busy,
           queue_' = Append(queue_, m), pending_requests' = pending_requests + 1,
           UNCHANGED task
    PROVE  PendingIsOutstanding' /\ OneUpdatePerMap'
<1> USE DEF IInv
<1>1. /\ Working' = Working
      /\ Len(queue_') = Len(queue_) + 1
      /\ queue_'[Len(queue_) + 1] = m
      /\ \A k \in 1..Len(queue_) : queue_'[k] = queue_[k]
  BY BusyAppend
<1>2. Len(queue_) \in Nat /\ Cardinality(Working) \in Nat
  BY WorkingFinite DEF TypeOK
<1>3. PendingIsOutstanding'
  BY <1>1, <1>2 DEF PendingIsOutstanding
<1>4. /\ \A k \in 1..Len(queue_) : queue_[k] # m
      /\ \A w \in Working : task[w] # m
  BY DEF Busy
<1>5. \A k \in 1..Len(queue_') : k \in 1..Len(queue_) \/ k = Len(queue_) + 1
  BY <1>1, <1>2
<1>6. \A j, k \in 1..Len(queue_') : queue_'[j] = queue_'[k] => j = k
  BY <1>1, <1>4, <1>5 DEF OneUpdatePerMap
<1>7. \A k \in 1..Len(queue_'), w \in Working : queue_'[k] # task[w]
  BY <1>1, <1>4, <1>5 DEF OneUpdatePerMap
<1> QED
  BY <1>1, <1>3, <1>6, <1>7 DEF OneUpdatePerMap

LEMMA InvSchedule ==
    ASSUME IInv, TypeOK', NEW m \in BaseMap, ScheduleMap(m)
    PROVE  IInv'
<1> USE DEF IInv
<1>1. /\ pc = "maps" /\ m \in iter /\ iter' = iter \ {m} /\ activated_
      /\ UNCHANGED <<pc, activated_, task, children, thread, owner>>
      /\ schedule_update(m)
  BY DEF ScheduleMap, workerVars
<1>2. QuietWhenExclusive' /\ QuietWhenInactive'
  BY <1>1 DEF QuietWhenExclusive, QuietWhenInactive, Exclusive
<1>3. CASE UNCHANGED <<pending_requests, queue_>>
  <2>1. Busy' = Busy /\ PendingIsOutstanding' /\ OneUpdatePerMap'
    BY <1>1, <1>3, SameRequests, Zenon
  <2>2. NoDanglingRequest' /\ NotHandedOverYet'
    BY <1>1, <1>3, <2>1 DEF NoDanglingRequest, NotHandedOverYet, InstancesOf
  <2> QED
    BY <1>2, <2>1, <2>2
<1>4. CASE queue_' = Append(queue_, m) /\ pending_requests' = pending_requests + 1
  <2>1. m \in Map /\ m \notin Busy /\ InstancesOf(m) \cap Busy = {} /\ m \notin InstanceMap
    BY <1>1, MapSubsets, MapAssumption DEF NotHandedOverYet
  <2>2. PendingIsOutstanding' /\ OneUpdatePerMap'
    BY <1>1, <1>4, <2>1, InvEnqueue, Zenon
  <2>3. /\ Busy' = Busy \cup {m}
        /\ Len(queue_') = Len(queue_) + 1
        /\ queue_'[Len(queue_) + 1] = m
        /\ \A k \in 1..Len(queue_) : queue_'[k] = queue_[k]
    BY <1>1, <1>4, <2>1, BusyAppend, Zenon
  <2>4. NoDanglingRequest'
    BY <1>1, <2>1, <2>3, Zenon DEF NoDanglingRequest
  <2>6. \A n \in iter' : n \notin Busy' /\ {i \in InstanceMap : owner'[i] = n} \cap Busy' = {}
    BY <1>1, <2>1, <2>3, Zenon DEF NotHandedOverYet, InstancesOf
  <2>7. \A k \in 1..Len(queue_') : k \in 1..Len(queue_) \/ k = Len(queue_) + 1
    BY <2>3 DEF TypeOK
  <2>8. \A k \in 1..Len(queue_') : {i \in InstanceMap : owner'[i] = queue_'[k]} \cap Busy' = {}
    BY <1>1, <2>1, <2>3, <2>7, Zenon DEF NotHandedOverYet, InstancesOf
  <2>9. \A w \in Worker : children'[w] \cap Busy' = {}
    BY <1>1, <2>1, <2>3 DEF NotHandedOverYet, TypeOK
  <2>10. NotHandedOverYet'
    BY <2>6, <2>8, <2>9, Zenon DEF NotHandedOverYet, InstancesOf
  <2> QED
    BY <1>2, <2>2, <2>4, <2>10, Zenon
<1> QED
  BY <1>1, <1>3, <1>4 DEF schedule_update

LEMMA InvDequeue ==
    ASSUME IInv, TypeOK', NEW w \in Worker, Dequeue(w)
    PROVE  IInv'
<1> USE DEF IInv
<1>1. /\ Busy' = Busy
      /\ Working' = Working \cup {w} /\ w \notin Working
      /\ Len(queue_) >= 1 /\ Len(queue_') = Len(queue_) - 1
      /\ queue_[1] \in Map /\ task'[w] = queue_[1]
      /\ \A v \in Worker \ {w} : task'[v] = task[v]
      /\ \A k \in 1..Len(queue_') : queue_'[k] = queue_[k + 1]
  BY BusyDequeue
<1>2. UNCHANGED <<pc, iter, pending_requests, activated_, owner>>
  BY DEF Dequeue, worldVars
<1>3. QuietWhenExclusive' /\ QuietWhenInactive'
  BY <1>2, Zenon DEF QuietWhenExclusive, QuietWhenInactive, Exclusive
<1>4. Len(queue_) \in Nat /\ 1 \in 1..Len(queue_)
  BY <1>1 DEF TypeOK
<1>5. \A k \in 1..Len(queue_') : k + 1 \in 1..Len(queue_) /\ k + 1 # 1
  BY <1>1, <1>4
<1>6. PendingIsOutstanding'
  <2>1. Cardinality(Working') = Cardinality(Working) + 1
    BY <1>1, WorkingFinite, FS_AddElement, Zenon
  <2> QED
    BY <1>1, <1>2, <1>4, <2>1, WorkingFinite DEF PendingIsOutstanding
<1>7. OneUpdatePerMap'
  <2>1. \A j, k \in 1..Len(queue_') : queue_'[j] = queue_'[k] => j = k
    <3> SUFFICES ASSUME NEW j \in 1..Len(queue_'), NEW k \in 1..Len(queue_'), queue_'[j] = queue_'[k]
                 PROVE  j = k
      OBVIOUS
    <3>1. j + 1 = k + 1
      BY <1>1, <1>5 DEF OneUpdatePerMap
    <3> QED
      BY <3>1
  <2>2. \A v \in Working : v # w /\ task'[v] = task[v] /\ task[v] # queue_[1]
    BY <1>1, <1>4 DEF OneUpdatePerMap, Working
  <2>3. \A u, v \in Working' : task'[u] = task'[v] => u = v
    BY <1>1, <2>2 DEF OneUpdatePerMap
  <2>4. \A k \in 1..Len(queue_') : queue_'[k] # queue_[1]
    BY <1>1, <1>4, <1>5, Zenon DEF OneUpdatePerMap
  <2>5. \A k \in 1..Len(queue_'), v \in Working' : queue_'[k] # task'[v]
    BY <1>1, <1>5, <2>2, <2>4 DEF OneUpdatePerMap
  <2> QED
    BY <2>1, <2>3, <2>5 DEF OneUpdatePerMap
<1>8. children'[w] = InstancesOf(queue_[1]) /\ \A v \in Worker \ {w} : children'[v] = children[v]
  <2>1. Head(queue_) = queue_[1]
    BY <1>4 DEF TypeOK
  <2> QED
    BY <2>1, Zenon DEF Dequeue, TypeOK
<1>9. NoDanglingRequest'
  <2>1. \A i \in Busy' \cap InstanceMap : owner'[i] # NoMap
    BY <1>1, <1>2, Zenon DEF NoDanglingRequest
  <2>2. \A i \in children'[w] : owner'[i] = task'[w] /\ owner'[i] # NoMap
    BY <1>1, <1>2, <1>8, MapAssumption, Zenon DEF InstancesOf
  <2>3. \A v \in Worker \ {w} : \A i \in children'[v] : owner'[i] = task'[v] /\ owner'[i] # NoMap
    BY <1>1, <1>2, <1>8, Zenon DEF NoDanglingRequest
  <2> QED
    BY <2>1, <2>2, <2>3, Zenon DEF NoDanglingRequest
<1>10. NotHandedOverYet'
  <2>2. \A m \in iter' : m \notin Busy' /\ {i \in InstanceMap : owner'[i] = m} \cap Busy' = {}
    BY <1>1, <1>2, Zenon DEF NotHandedOverYet, InstancesOf
  <2>3. \A k \in 1..Len(queue_') : {i \in InstanceMap : owner'[i] = queue_'[k]} \cap Busy' = {}
    BY <1>1, <1>2, <1>5 DEF NotHandedOverYet, InstancesOf
  <2>4. \A v \in Worker : children'[v] \cap Busy' = {}
    BY <1>1, <1>4, <1>8 DEF NotHandedOverYet
  <2> QED
    BY <2>2, <2>3, <2>4, Zenon DEF NotHandedOverYet, InstancesOf
<1> QED
  BY <1>3, <1>6, <1>7, <1>9, <1>10, Zenon

LEMMA InvThreadExit ==
    ASSUME IInv, TypeOK', NEW w \in Worker, ThreadExit(w)
    PROVE  IInv'
<1>1. UNCHANGED <<pc, iter, pending_requests, queue_, activated_, task, children, owner>>
  BY DEF ThreadExit, worldVars
<1>2. Busy' = Busy /\ PendingIsOutstanding' /\ OneUpdatePerMap'
  BY <1>1, SameRequests DEF IInv
<1>3. QuietWhenExclusive' /\ QuietWhenInactive'
  BY <1>1, Zenon DEF IInv, QuietWhenExclusive, QuietWhenInactive, Exclusive
<1>4. NoDanglingRequest' /\ NotHandedOverYet'
  BY <1>1, <1>2, Zenon DEF IInv, NoDanglingRequest, NotHandedOverYet, InstancesOf
<1> QED
  BY <1>2, <1>3, <1>4, Zenon DEF IInv

LEMMA InvVisit ==
    ASSUME IInv, TypeOK', NEW w \in Worker, NEW i \in InstanceMap, VisitInstance(w, i)
    PROVE  IInv'
<1> USE DEF IInv
<1>1. /\ i \in children[w]
      /\ \A v \in Worker : children'[v] = IF v = w THEN children[w] \ {i} ELSE children[v]
      /\ UNCHANGED <<pc, iter, activated_, task>>
  BY Zenon DEF VisitInstance, worldVars, TypeOK
<1>2. /\ i \in Map /\ i \notin Busy /\ owner[i] = task[w] /\ task[w] # NoMap /\ w \in Working
      /\ task[w] \in Busy /\ i \notin BaseMap
  BY <1>1, MapSubsets, MapAssumption, Zenon DEF NotHandedOverYet, NoDanglingRequest, Working, Busy
<1>3. \A v \in Worker : v # w => i \notin children[v]
  BY <1>2 DEF NoDanglingRequest, OneUpdatePerMap, Working
<1>4. ~Exclusive /\ activated_
  <2>1. pending_requests # 0
    BY <1>2, NothingPending, Zenon
  <2> QED
    BY <2>1 DEF QuietWhenExclusive, QuietWhenInactive
<1>5. QuietWhenExclusive' /\ QuietWhenInactive'
  BY <1>1, <1>4, Zenon DEF QuietWhenExclusive, QuietWhenInactive, Exclusive
<1>6. CASE /\ UNCHANGED <<pending_requests, queue_>>
           /\ \A j \in InstanceMap : owner'[j] = owner[j] \/ (j = i /\ owner'[j] = NoMap)
  <2>1. Busy' = Busy /\ PendingIsOutstanding' /\ OneUpdatePerMap'
    BY <1>1, <1>6, SameRequests, Zenon
  <2>2. \A j \in Busy' \cap InstanceMap : owner'[j] # NoMap
    BY <1>2, <1>6, <2>1, Zenon DEF NoDanglingRequest
  <2>3. \A v \in Worker : \A j \in children'[v] : j # i /\ j \in children[v]
    BY <1>1, <1>3, Zenon
  <2>4. NoDanglingRequest'
    BY <1>1, <1>6, <2>2, <2>3 DEF NoDanglingRequest, TypeOK
  <2>5. /\ \A k \in 1..Len(queue_) : queue_[k] # NoMap
        /\ \A m \in iter : m # NoMap
    BY MapAssumption, MapSubsets DEF TypeOK
  <2>6. \A m \in iter' : m \notin Busy' /\ {j \in InstanceMap : owner'[j] = m} \cap Busy' = {}
    BY ZenonT(40), <1>1, <1>6, <2>1, <2>5 DEF NotHandedOverYet, InstancesOf
  <2>7. \A k \in 1..Len(queue_') : {j \in InstanceMap : owner'[j] = queue_'[k]} \cap Busy' = {}
    BY <1>6, <2>1, <2>5, Zenon DEF NotHandedOverYet, InstancesOf
  <2>8. \A v \in Worker : children'[v] \cap Busy' = {}
    BY <1>1, <2>1, <2>3, Zenon DEF NotHandedOverYet
  <2> QED
    BY <1>5, <2>1, <2>4, <2>6, <2>7, <2>8, Zenon DEF NotHandedOverYet, InstancesOf
<1>7. CASE queue_' = Append(queue_, i) /\ pending_requests' = pending_requests + 1 /\ UNCHANGED owner
  <2>1. PendingIsOutstanding' /\ OneUpdatePerMap'
    BY <1>1, <1>2, <1>7, InvEnqueue, Zenon
  <2>2. /\ Busy' = Busy \cup {i}
        /\ Len(queue_') = Len(queue_) + 1
        /\ queue_'[Len(queue_) + 1] = i
        /\ \A k \in 1..Len(queue_) : queue_'[k] = queue_[k]
    BY <1>1, <1>2, <1>7, BusyAppend, Zenon
  <2>3. NoDanglingRequest'
    BY <1>1, <1>2, <1>7, <2>2, Zenon DEF NoDanglingRequest
  <2>4. \A m \in iter' : m \notin Busy' /\ {j \in InstanceMap : owner'[j] = m} \cap Busy' = {}
    BY <1>1, <1>2, <1>7, <2>2 DEF NotHandedOverYet, InstancesOf, TypeOK
  <2>5. \A k \in 1..Len(queue_') : k \in 1..Len(queue_) \/ k = Len(queue_) + 1
    BY <2>2 DEF TypeOK
  <2>6. \A k \in 1..Len(queue_) : queue_[k] # task[w]
    BY <1>2, Zenon DEF OneUpdatePerMap
  <2>7. {j \in InstanceMap : owner[j] = i} = {}
    BY <1>2, MapAssumption DEF TypeOK, Map
  <2>8. \A k \in 1..Len(queue_') : {j \in InstanceMap : owner'[j] = queue_'[k]} \cap Busy' = {}
    BY <1>2, <1>7, <2>2, <2>5, <2>6, <2>7 DEF NotHandedOverYet, InstancesOf
  <2>9. \A v \in Worker : children'[v] \cap Busy' = {}
    BY <1>1, <1>3, <2>2, Zenon DEF NotHandedOverYet
  <2> QED
    BY <1>5, <2>1, <2>3, <2>4, <2>8, <2>9, Zenon DEF NotHandedOverYet, InstancesOf
<1> QED
  BY <1>6, <1>7, Zenon DEF VisitInstance, schedule_update, TypeOK

LEMMA InvFinish ==
    ASSUME IInv, TypeOK', NEW w \in Worker, FinishUpdate(w)
    PROVE  IInv'
<1> USE DEF IInv
<1>1. /\ Busy' = Busy \ {task[w]} /\ task[w] \in Busy
      /\ Working' = Working \ {w} /\ w \in Working
      /\ \A v \in Working' : task'[v] = task[v]
  BY BusyFinish
<1>2. pending_requests # 0 /\ ~Exclusive /\ activated_
  <2>1. pending_requests # 0
    BY <1>1, NothingPending
  <2> QED
    BY <2>1, Zenon DEF QuietWhenExclusive, QuietWhenInactive
<1>3. /\ UNCHANGED <<iter, queue_, activated_, children, owner>>
      /\ pending_requests' = pending_requests - 1
      /\ children[w] = {}
      /\ \A v \in Worker : v # w => task'[v] = task[v]
  BY <1>2 DEF FinishUpdate, update_finished, TypeOK
<1>4. QuietWhenExclusive' /\ QuietWhenInactive'
  BY <1>2, Zenon DEF QuietWhenExclusive, QuietWhenInactive, Exclusive, FinishUpdate, update_finished
<1>5. PendingIsOutstanding'
  <2>1. Cardinality(Working') = Cardinality(Working) - 1
    BY <1>1, WorkingFinite, FS_RemoveElement, Zenon
  <2>2. Len(queue_) \in Nat /\ Cardinality(Working) \in Nat
    BY WorkingFinite DEF TypeOK
  <2> QED
    BY <1>3, <2>1, <2>2 DEF PendingIsOutstanding
<1>6. OneUpdatePerMap'
  BY <1>1, <1>3 DEF OneUpdatePerMap
<1>7. NoDanglingRequest'
  BY <1>1, <1>3, Zenon DEF NoDanglingRequest
<1>8. NotHandedOverYet'
  BY <1>1, <1>3, Zenon DEF NotHandedOverYet, InstancesOf
<1> QED
  BY <1>4, <1>5, <1>6, <1>7, <1>8

LEMMA InvStep == IInv /\ [Next]_vars => IInv'
<1> SUFFICES ASSUME IInv, [Next]_vars PROVE IInv'
  OBVIOUS
<1>1. TypeOK'
  BY TypeStep DEF IInv
<1> QED
  BY <1>1, InvWorld, InvSchedule, InvDequeue, InvThreadExit, InvVisit, InvFinish, Zenon
     DEF Next, WorldStep, WorkerStep

LEMMA Invariance == Spec => []IInv
BY InvInit, InvStep, PTL DEF Spec

-----------------------------------------------------------------------------
\* The counter of MapUpdater is exact: update_finished never meets a zero
\* counter ("BUG, report to devs") and wait() returns iff the pool is idle.
THEOREM PendingCorrect == Spec => []PendingIsOutstanding
BY Invariance, PTL DEF IInv

LEMMA InvExclusion == IInv => WorldOwnsMaps
BY NothingPending DEF IInv, QuietWhenExclusive, WorldOwnsMaps

\* MapManager::Update runs DelayedUpdate, and World::Update everything that
\* comes after it, with no map queued or being updated.
THEOREM WorldOwnsMapsCorrect == Spec => []WorldOwnsMaps
BY Invariance, InvExclusion, PTL

\* No map is updated by two workers at once, nor twice in a tick while its
\* first request is outstanding, nested scheduling by workers included.
THEOREM OneUpdateCorrect == Spec => []OneUpdatePerMap
BY Invariance, PTL DEF IInv

\* DestroyInstance never deletes a map that is queued, running or still to be
\* visited.
THEOREM NoDanglingCorrect == Spec => []NoDanglingRequest
BY Invariance, PTL DEF IInv

LEMMA RefinesInit == Init => Barrier!Init
<1> SUFFICES ASSUME Init PROVE Barrier!Init
  OBVIOUS
<1>1. Busy = {}
  BY InvInit, NothingPending, Zenon DEF IInv, Init
<1> QED
  BY <1>1, Zenon DEF Barrier!Init, Exclusive, Init

LEMMA RefinesStep ==
    ASSUME IInv, IInv', [Next]_vars
    PROVE  [Barrier!Next]_(Barrier!vars)
<1> USE DEF Barrier!Next, Barrier!vars
<1>0. WorldOwnsMaps /\ WorldOwnsMaps'
  BY InvExclusion, PTL
<1>1. CASE \/ Initialize \/ BeginUpdate \/ EndLoop \/ Wakeup \/ DelayedUpdate
           \/ UnloadAll \/ Deactivate \/ Join \/ UNCHANGED vars
           \/ \E m \in BaseMap : UpdateInline(m)
           \/ \E i \in InstanceMap, m \in BaseMap : CreateInstance(i, m)
  <2>1. UNCHANGED <<queue_, task, pending_requests>>
    BY <1>1 DEF Initialize, BeginUpdate, EndLoop, Wakeup, DelayedUpdate, UnloadAll, Deactivate, Join,
       UpdateInline, CreateInstance, vars, workerVars
  <2>2. Busy' = Busy
    BY <2>1, SameRequests
  <2>3. Exclusive \in BOOLEAN /\ Exclusive' \in BOOLEAN
    BY DEF Exclusive
  <2>4. CASE Exclusive = Exclusive'
    BY <2>2, <2>4, Zenon
  <2>5. CASE Exclusive /\ ~Exclusive'
    BY <2>2, <2>5, Zenon DEF Barrier!Open, Exclusive
  <2>6. CASE ~Exclusive /\ Exclusive'
    BY <1>0, <2>2, <2>6, Zenon DEF Barrier!Close, WorldOwnsMaps
  <2> QED
    BY <2>3, <2>4, <2>5, <2>6, Zenon
<1>2. ASSUME NEW m \in Map, m \notin Busy, ~Exclusive, UNCHANGED <<pc, task>>,
             \/ queue_' = Append(queue_, m)
             \/ UNCHANGED <<queue_, pending_requests>>
      PROVE  [Barrier!Next]_(Barrier!vars)
  <2>1. Exclusive' = Exclusive
    BY <1>2 DEF Exclusive
  <2>2. CASE queue_' = Append(queue_, m)
    <3>1. Busy' = Busy \cup {m}
      BY <1>2, <2>2, BusyAppend DEF IInv
    <3>2. Barrier!HandOver(m)
      BY <1>2, <2>1, <3>1, Zenon DEF Barrier!HandOver
    <3> QED
      BY <1>2, <3>2
  <2>3. CASE UNCHANGED <<queue_, pending_requests>>
    BY <1>2, <2>1, <2>3, SameRequests, Zenon
  <2> QED
    BY <1>2, <2>2, <2>3
<1>3. ASSUME NEW m \in BaseMap, ScheduleMap(m) PROVE [Barrier!Next]_(Barrier!vars)
  BY <1>2, <1>3, MapSubsets, Zenon
     DEF ScheduleMap, schedule_update, workerVars, Exclusive, IInv, NotHandedOverYet
<1>4. ASSUME NEW w \in Worker, Dequeue(w) PROVE [Barrier!Next]_(Barrier!vars)
  <2>1. Busy' = Busy
    BY <1>4, BusyDequeue, Zenon DEF IInv
  <2> QED
    BY <1>4, <2>1, Zenon DEF Dequeue, worldVars, Exclusive
<1>5. ASSUME NEW w \in Worker, ThreadExit(w) PROVE [Barrier!Next]_(Barrier!vars)
  BY <1>5, SameRequests, Zenon DEF ThreadExit, worldVars, Exclusive
<1>6. ASSUME NEW w \in Worker, NEW i \in InstanceMap, VisitInstance(w, i)
      PROVE  [Barrier!Next]_(Barrier!vars)
  <2>1. i \in Map /\ i \notin Busy /\ ~Exclusive
    <3>1. i \in Map /\ i \notin Busy /\ task[w] # NoMap
      BY <1>6, MapSubsets, Zenon DEF IInv, NotHandedOverYet, NoDanglingRequest, VisitInstance
    <3>2. Busy # {}
      BY <3>1 DEF Busy, Working
    <3> QED
      BY <1>0, <3>1, <3>2, Zenon DEF WorldOwnsMaps
  <2> QED
    BY <1>2, <1>6, <2>1, Zenon DEF VisitInstance, schedule_update, worldVars
<1>7. ASSUME NEW w \in Worker, FinishUpdate(w) PROVE [Barrier!Next]_(Barrier!vars)
  <2>1. Busy' = Busy \ {task[w]} /\ task[w] \in Busy /\ task[w] \in Map
    BY <1>7, BusyFinish, Zenon DEF IInv, TypeOK, FinishUpdate
  <2>2. ~Exclusive
    BY <1>0, <2>1 DEF WorldOwnsMaps
  <2>3. ~Exclusive'
    BY <1>7, <2>2 DEF FinishUpdate, update_finished, Exclusive
  <2>4. Barrier!GiveBack(task[w])
    BY <2>1, <2>2, <2>3 DEF Barrier!GiveBack, Exclusive
  <2> QED
    BY <2>1, <2>4, Zenon
<1> QED
  BY <1>1, <1>3, <1>4, <1>5, <1>6, <1>7, Zenon DEF Next, WorldStep, WorkerStep

\* The thread pool with its queue, counter and condition variable implements
\* the barrier that MapManager::Update relies on.
THEOREM BarrierRefinement == Spec => ImplementsBarrier
<1>1. IInv /\ IInv' /\ [Next]_vars => [Barrier!Next]_(Barrier!vars)
  BY RefinesStep
<1> QED
  BY <1>1, RefinesInit, Invariance, PTL DEF Spec, ImplementsBarrier, Barrier!Spec

-----------------------------------------------------------------------------
(* InstanceIds *)

\* Rounding up to a multiple of Chunk never gives less: a new allocation of
\* GenerateInstanceId never shrinks the vector (MapManager.cpp:410).
LEMMA RoundUpBounds ==
  ASSUME NEW n \in Nat
  PROVE  RoundUp(n) \in Nat /\ RoundUp(n) >= n
<1> DEFINE q == n \div Chunk
           r == n % Chunk
<1>1. Chunk \in Nat /\ Chunk > 0
  BY IdAssumption
<1>2. q \in Nat /\ r \in 0..(Chunk - 1) /\ n = Chunk * q + r
  BY <1>1
<1>3. RoundUp(n) = q * Chunk + (IF r > 0 THEN Chunk ELSE 0)
  BY DEF RoundUp
<1>4. q * Chunk = Chunk * q /\ Chunk * q \in Nat
  BY <1>1, <1>2
<1> HIDE DEF q, r
<1> QED
  BY <1>1, <1>2, <1>3, <1>4

LEMMA GrownType ==
  ASSUME NEW n \in Nat, size \in Nat
  PROVE  Grown(n) \in Nat
<1> DEFINE wanted == IF n > 2 * size THEN n ELSE 2 * size
<1>1. Word \in Nat /\ Word > 0
  BY IdAssumption
<1>2. wanted + Word - 1 \in Nat
  BY <1>1
<1>3. (wanted + Word - 1) \div Word \in Nat
  BY <1>1, <1>2
<1> QED
  BY <1>1, <1>3 DEF Grown

\* Allocating space keeps the types and never shrinks the vector.
LEMMA AllocateGrows ==
  ASSUME IdsTypeOK, Allocate
  PROVE  size' \in Nat /\ capacity' \in Nat /\ size' >= size
<1>1. next \in Nat /\ size \in Nat /\ capacity \in Nat
  BY IdAssumption DEF IdsTypeOK, Id
<1>2. RoundUp(next) \in Nat /\ RoundUp(next) >= next
  BY <1>1, RoundUpBounds
<1>3. Grown(capacity) \in Nat /\ Grown(RoundUp(next)) \in Nat
  BY <1>1, <1>2, GrownType
<1> QED
  BY <1>1, <1>2, <1>3 DEF Allocate, resize

LEMMA ModRange ==
  ASSUME NEW a \in Int, NEW b \in Nat, b > 0
  PROVE  a % b \in 0..(b - 1)
OBVIOUS

\* The next id is one of the range and, unless the ids ran out, is neither the
\* one handed out nor marked.
LEMMA AdvanceFinds ==
  ASSUME IdsTypeOK, Advance
  PROVE  /\ next' \in Id
         /\ Available # {} => next' # next /\ next' \notin marked
<1>1. next \in Nat /\ MaxId \in Nat
  BY IdAssumption DEF IdsTypeOK, Id
<1>2. CASE Available = {}
  <2> DEFINE succ == (next + 1) % (MaxId + 1)
  <2>1. next + 1 \in Int /\ MaxId + 1 \in Nat /\ MaxId + 1 > 0
    BY <1>1
  <2>2. succ \in 0..((MaxId + 1) - 1)
    BY <2>1, ModRange
  <2>3. next' = succ
    BY <1>2 DEF Advance
  <2> HIDE DEF succ
  <2>4. next' \in Id
    BY <1>1, <2>2, <2>3 DEF Id
  <2> QED
    BY <1>2, <2>4
<1>3. CASE Available # {}
  <2>1. next' \in Available
    BY <1>3, Zenon DEF Advance
  <2> QED
    BY <1>1, <2>1 DEF Available, Id
<1> QED
  BY <1>2, <1>3, Zenon

-----------------------------------------------------------------------------
LEMMA IdsTypeInit == IdsInit => IdsTypeOK
BY IdAssumption DEF IdsInit, IdsTypeOK, Idle, Id

LEMMA TypeLoad ==
  ASSUME IdsTypeOK, LoadInstances
  PROVE  IdsTypeOK'
<1>1. PICK db \in SUBSET DbId, max \in DbId \cup {0} :
          /\ resize(RoundUp(max))
          /\ marked' = {i \in db : i < RoundUp(max)}
          /\ fault' = IF max >= RoundUp(max) /\ db # {} THEN {"outside"} ELSE {}
          /\ next' \in 1..(max + 1) /\ next' \notin db
          /\ issued' = db
  BY DEF LoadInstances
<1>2. DbId \subseteq 1..(MaxId - 1) /\ MaxId \in Nat /\ MaxId > 0
  BY IdAssumption
<1>3. max \in Nat /\ db \subseteq Id /\ max < MaxId
  BY <1>2 DEF Id
<1>4. RoundUp(max) \in Nat
  BY <1>3, RoundUpBounds, Zenon
<1>5. Grown(RoundUp(max)) \in Nat
  BY <1>4, GrownType, Zenon DEF IdsTypeOK
<1>6. size' \in Nat /\ capacity' \in Nat
  BY <1>1, <1>4, <1>5, Zenon DEF resize, IdsTypeOK
<1>7. next' \in Id
  BY <1>1, <1>2, <1>3 DEF Id
<1>8. marked' \subseteq Id /\ issued' \subseteq Id /\ fault' \subseteq {"outside", "overflow"}
  BY <1>1, <1>3, Zenon
<1> QED
  BY <1>6, <1>7, <1>8, Zenon DEF LoadInstances, IdsTypeOK

LEMMA IdsTypeStep == IdsTypeOK /\ [IdsNext]_idsVars => IdsTypeOK'
<1> SUFFICES ASSUME IdsTypeOK, [IdsNext]_idsVars PROVE IdsTypeOK'
  OBVIOUS
<1>1. CASE LoadInstances
  BY <1>1, TypeLoad
<1>2. CASE GenerateInstanceId
  <2>1. size' \in Nat /\ capacity' \in Nat
    BY <1>2, AllocateGrows DEF GenerateInstanceId
  <2>2. next' \in Id
    BY <1>2, AdvanceFinds, Zenon DEF GenerateInstanceId
  <2> QED
    BY <1>2, <2>1, <2>2 DEF GenerateInstanceId, IdsTypeOK
<1>3. ASSUME NEW id \in Id, ResetInstance(id) PROVE IdsTypeOK'
  BY <1>3, Zenon DEF ResetInstance, FreeInstanceId, IdsTypeOK
<1>4. ASSUME NEW w \in MapThread, NEW id \in Id, DestroyInstance(w, id) PROVE IdsTypeOK'
  BY <1>4 DEF DestroyInstance, IdsTypeOK
<1>5. ASSUME NEW w \in MapThread, SetNextInstanceId(w) PROVE IdsTypeOK'
  BY <1>5 DEF SetNextInstanceId, IdsTypeOK
<1>6. ASSUME NEW w \in MapThread, LoadWord(w) PROVE IdsTypeOK'
  <2>1. marked \cap WordOf(free[w].id) \in SUBSET Id
    BY DEF IdsTypeOK
  <2> QED
    BY <1>6, <2>1, Zenon DEF LoadWord, IdsTypeOK
<1>7. ASSUME NEW w \in MapThread, StoreWord(w) PROVE IdsTypeOK'
  <2>1. Idle \in [pc : {"idle", "next", "load", "store"}, id : Id, word : SUBSET Id]
    BY IdAssumption DEF Idle, Id
  <2> HIDE DEF Idle
  <2> QED
    BY <1>7, <2>1 DEF StoreWord, IdsTypeOK
<1>8. CASE UNCHANGED idsVars
  BY <1>8 DEF idsVars, IdsTypeOK
<1> QED
  BY <1>1, <1>2, <1>3, <1>4, <1>5, <1>6, <1>7, <1>8 DEF IdsNext
-----------------------------------------------------------------------------
LEMMA StartupStep == IdsTypeOK /\ StartupIdle /\ [IdsNext]_idsVars => StartupIdle'
<1> SUFFICES ASSUME IdsTypeOK, StartupIdle, [IdsNext]_idsVars, phase' = "startup" PROVE free' = free /\ phase = phase'
  BY DEF StartupIdle
<1>1. ASSUME NEW w \in MapThread, SetNextInstanceId(w) \/ LoadWord(w) \/ StoreWord(w) PROVE FALSE
  BY <1>1 DEF SetNextInstanceId, LoadWord, StoreWord, StartupIdle, Idle
<1> QED
  BY <1>1, Zenon DEF IdsNext, idsVars, LoadInstances, GenerateInstanceId, ResetInstance, DestroyInstance

LEMMA InsideStep == IdsTypeOK /\ StartupIdle /\ MarksInside /\ [IdsNext]_idsVars => MarksInside'
<1> SUFFICES ASSUME IdsTypeOK, StartupIdle, MarksInside, [IdsNext]_idsVars PROVE MarksInside'
  BY Zenon
<1>1. CASE LoadInstances
  <2>1. PICK db \in SUBSET DbId, max \in DbId \cup {0} :
            /\ resize(RoundUp(max))
            /\ marked' = {i \in db : i < RoundUp(max)}
    BY <1>1, Zenon DEF LoadInstances
  <2>2. \A w \in MapThread : free'[w].word = {}
    BY <1>1 DEF LoadInstances, StartupIdle, Idle
  <2> QED
    BY <2>1, <2>2, Zenon DEF resize, MarksInside
<1>2. CASE GenerateInstanceId
  <2>1. size' \in Nat /\ size' >= size /\ size \in Nat /\ marked \subseteq Int /\ free' = free
    BY <1>2, AllocateGrows DEF GenerateInstanceId, IdsTypeOK, Id
  <2>2. \A w \in MapThread : free[w].word \subseteq Int
    BY DEF IdsTypeOK, Id
  <2> QED
    BY <1>2, <2>1, <2>2 DEF GenerateInstanceId, MarksInside
<1>3. ASSUME NEW id \in Id, ResetInstance(id) PROVE MarksInside'
  BY <1>3, Zenon DEF ResetInstance, FreeInstanceId, MarksInside
<1>4. ASSUME NEW w \in MapThread, NEW id \in Id, DestroyInstance(w, id) PROVE MarksInside'
  BY <1>4 DEF DestroyInstance, IdsTypeOK, MarksInside
<1>5. ASSUME NEW w \in MapThread, SetNextInstanceId(w) PROVE MarksInside'
  BY <1>5 DEF SetNextInstanceId, IdsTypeOK, MarksInside
<1>6. ASSUME NEW w \in MapThread, LoadWord(w) PROVE MarksInside'
  BY <1>6, Zenon DEF LoadWord, IdsTypeOK, MarksInside
<1>7. ASSUME NEW w \in MapThread, StoreWord(w) PROVE MarksInside'
  BY <1>7, Zenon DEF StoreWord, IdsTypeOK, MarksInside, Idle
<1>8. CASE UNCHANGED idsVars
  BY <1>8, Zenon DEF idsVars, MarksInside
<1> QED
  BY <1>1, <1>2, <1>3, <1>4, <1>5, <1>6, <1>7, <1>8, Zenon DEF IdsNext

-----------------------------------------------------------------------------
SafeInv == NextIsUnused /\ IssuedIsMarked /\ WordsCoverIssued

\* LoadInstances leaves every id marked and an unused next id.
LEMMA LoadSafe ==
  ASSUME IdsIInv, LoadInstances
  PROVE  SafeInv'
<1>1. PICK db \in SUBSET DbId, max \in DbId \cup {0} :
          /\ IF db = {} THEN max = 0 ELSE max \in db /\ \A i \in db : i <= max
          /\ marked' = {i \in db : i < RoundUp(max)}
          /\ fault' = IF max >= RoundUp(max) /\ db # {} THEN {"outside"} ELSE {}
          /\ next' \notin db
          /\ issued' = db
  BY DEF LoadInstances
<1>2. max \in Nat /\ db \subseteq Nat
  BY IdAssumption
<1>3. RoundUp(max) \in Nat
  BY <1>2, RoundUpBounds, Zenon
<1>4. ASSUME Sound' PROVE issued' \subseteq marked'
  <2>1. db # {} => max < RoundUp(max)
    BY <1>1, <1>2, <1>3, <1>4 DEF Sound
  <2>2. \A i \in db : i < RoundUp(max)
    BY <1>1, <1>2, <1>3, <2>1
  <2> QED
    BY <1>1, <2>2, Zenon
<1>5. \A w \in MapThread : free'[w].pc = "idle"
  BY DEF LoadInstances, IdsIInv, StartupIdle, Idle
<1> QED
  BY <1>1, <1>4, <1>5, Zenon DEF SafeInv, NextIsUnused, IssuedIsMarked, WordsCoverIssued

\* A generated id is marked, and the next one is neither it nor a marked one.
LEMMA GenerateSafe ==
  ASSUME IdsIInv, GenerateInstanceId
  PROVE  SafeInv'
<1>1. ASSUME Sound' PROVE next' \notin issued' /\ issued' \subseteq marked'
  <2>1. Sound /\ Available # {} /\ ~(next >= size')
    BY <1>1, Zenon DEF Sound, GenerateInstanceId
  <2>2. next \in Int /\ size' \in Nat /\ size' >= size /\ size \in Nat /\ marked \subseteq Int
    BY IdAssumption, AllocateGrows DEF GenerateInstanceId, IdsIInv, IdsTypeOK, Id
  <2>3. next' # next /\ next' \notin marked
    BY <2>1, AdvanceFinds DEF IdsIInv, GenerateInstanceId
  <2>4. issued \subseteq marked
    BY <2>1, Zenon DEF IdsIInv, IssuedIsMarked
  <2>5. \A i \in marked \cup {next} : i < size'
    BY <2>1, <2>2 DEF IdsIInv, MarksInside
  <2> QED
    BY <2>3, <2>4, <2>5, Zenon DEF GenerateInstanceId
<1>2. \A w \in MapThread : free'[w].pc = "idle"
  BY Zenon DEF GenerateInstanceId, WorkersIdle
<1> QED
  BY <1>1, <1>2, Zenon DEF SafeInv, NextIsUnused, IssuedIsMarked, WordsCoverIssued

LEMMA ResetSafe ==
  ASSUME IdsIInv, NEW id \in Id, ResetInstance(id)
  PROVE  SafeInv'
<1>1. Sound' => Sound
  BY Zenon DEF Sound, ResetInstance, FreeInstanceId
<1>2. \A w \in MapThread : free'[w].pc = "idle"
  BY Zenon DEF ResetInstance, WorkersIdle
<1> QED
  BY <1>1, <1>2, Zenon DEF SafeInv, ResetInstance, FreeInstanceId, IdsIInv, NextIsUnused,
                    IssuedIsMarked, WordsCoverIssued

LEMMA DestroySafe ==
  ASSUME IdsIInv, NEW w \in MapThread, NEW id \in Id, DestroyInstance(w, id)
  PROVE  SafeInv'
<1>1. Sound' => Sound
  BY Zenon DEF Sound, DestroyInstance
<1>2. free'[w].pc \in {"next", "load"} /\ free'[w].id = id
  BY Zenon DEF DestroyInstance, IdsIInv, IdsTypeOK
<1>3. \A v \in MapThread : v # w => free'[v] = free[v]
  BY Zenon DEF DestroyInstance, IdsIInv, IdsTypeOK
<1>4. Sound' => WordsCoverIssued'
  BY <1>1, <1>2, <1>3 DEF DestroyInstance, IdsIInv, WordsCoverIssued
<1> QED
  BY <1>1, <1>4, Zenon DEF SafeInv, DestroyInstance, IdsIInv, NextIsUnused, IssuedIsMarked, WordsCoverIssued

\* The three later steps of FreeInstanceId on a worker.
LEMMA FreeSafe ==
  ASSUME IdsIInv, NEW w \in MapThread, SetNextInstanceId(w) \/ LoadWord(w) \/ StoreWord(w)
  PROVE  SafeInv'
<1>0. free[w].pc # "idle" /\ (Sound' => Sound) /\ issued' = issued
  BY DEF Sound, SetNextInstanceId, LoadWord, StoreWord
<1>1. \A v \in MapThread : v # w => free'[v] = free[v]
  BY Zenon DEF SetNextInstanceId, LoadWord, StoreWord, IdsIInv, IdsTypeOK
<1>2. Sound => free[w].id \notin issued
  BY <1>0 DEF IdsIInv, WordsCoverIssued
<1>3. CASE SetNextInstanceId(w)
  <2>1. free'[w].pc = "load" /\ free'[w].id = free[w].id
    BY <1>3, Zenon DEF SetNextInstanceId, IdsIInv, IdsTypeOK
  <2>2. WordsCoverIssued'
    BY <1>0, <1>1, <1>2, <2>1, Zenon DEF IdsIInv, WordsCoverIssued
  <2> QED
    BY <1>0, <1>2, <1>3, <2>2 DEF SetNextInstanceId, SafeInv, IdsIInv, NextIsUnused, IssuedIsMarked
<1>4. CASE LoadWord(w)
  <2>1. /\ free'[w].id = free[w].id
        /\ free'[w].word = marked \cap WordOf(free[w].id)
    BY <1>4, Zenon DEF LoadWord, IdsIInv, IdsTypeOK
  <2>2. Sound => issued \cap WordOf(free[w].id) \subseteq free'[w].word
    BY <2>1, Zenon DEF IdsIInv, IssuedIsMarked
  <2>3. WordsCoverIssued'
    BY <1>0, <1>1, <1>2, <2>1, <2>2, Zenon DEF IdsIInv, WordsCoverIssued
  <2> QED
    BY <1>0, <1>4, <2>3 DEF LoadWord, SafeInv, IdsIInv, NextIsUnused, IssuedIsMarked
<1>5. CASE StoreWord(w)
  <2>1. free'[w].pc = "idle"
    BY <1>5, Zenon DEF StoreWord, IdsIInv, IdsTypeOK, Idle
  <2>2. WordsCoverIssued'
    BY <1>0, <1>1, <2>1, Zenon DEF IdsIInv, WordsCoverIssued
  <2>3. Sound => issued \cap WordOf(free[w].id) \subseteq free[w].word
    BY <1>5, Zenon DEF StoreWord, IdsIInv, WordsCoverIssued
  <2>4. Sound => issued \subseteq marked'
    BY <1>2, <1>5, <2>3, Zenon DEF StoreWord, IdsIInv, IssuedIsMarked
  <2> QED
    BY <1>0, <1>5, <2>2, <2>4, Zenon DEF StoreWord, SafeInv, IdsIInv, NextIsUnused, IssuedIsMarked
<1> QED
  BY <1>3, <1>4, <1>5, Zenon

LEMMA IInvInit == IdsInit => IdsIInv
<1> SUFFICES ASSUME IdsInit PROVE IdsIInv
  OBVIOUS
<1>1. ~Sound
  BY DEF IdsInit, Sound
<1> QED
  BY <1>1, IdsTypeInit, Zenon DEF IdsInit, IdsIInv, StartupIdle, MarksInside, NextIsUnused, IssuedIsMarked,
                        WordsCoverIssued, Idle

LEMMA IInvStep == IdsIInv /\ [IdsNext]_idsVars => IdsIInv'
<1> SUFFICES ASSUME IdsIInv, [IdsNext]_idsVars PROVE IdsIInv'
  OBVIOUS
<1>1. IdsTypeOK' /\ StartupIdle' /\ MarksInside'
  BY IdsTypeStep, StartupStep, InsideStep, Zenon DEF IdsIInv
<1>2. ASSUME UNCHANGED idsVars PROVE SafeInv'
  BY <1>2, Zenon DEF idsVars, IdsIInv, SafeInv, Sound, NextIsUnused, IssuedIsMarked, WordsCoverIssued
<1>3. SafeInv'
  BY <1>2, LoadSafe, GenerateSafe, ResetSafe, DestroySafe, FreeSafe, Zenon DEF IdsNext
<1> QED
  BY <1>1, <1>3, Zenon DEF IdsIInv, SafeInv

LEMMA Inductive == IdsSpec => []IdsIInv
BY IInvInit, IInvStep, PTL DEF IdsSpec

-----------------------------------------------------------------------------
\* The types of the allocator's state hold in every reachable state.
THEOREM IdsTypeCorrect == IdsSpec => []IdsTypeOK
<1>1. IdsIInv => IdsTypeOK
  BY DEF IdsIInv
<1> QED
  BY <1>1, Inductive, PTL

\* GenerateInstanceId hands out no id that an instance still has, unless a bit
\* was written outside the vector or no id was left (MapManager.cpp:381-425).
THEOREM NextIsUnusedCorrect == IdsSpec => []NextIsUnused
<1>1. IdsIInv => NextIsUnused
  BY DEF IdsIInv
<1> QED
  BY <1>1, Inductive, PTL

\* However the threads in FreeInstanceId interleave on the words of the vector,
\* the marks of the ids in use survive (MapManager.cpp:424).
THEOREM IssuedIsMarkedCorrect == IdsSpec => []IssuedIsMarked
<1>1. IdsIInv => IssuedIsMarked
  BY DEF IdsIInv
<1> QED
  BY <1>1, Inductive, PTL
=============================================================================
