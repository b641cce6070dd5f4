----------------------------- MODULE MapUpdater -----------------------------
(***************************************************************************)
(* One tick of MapManager::Update with the map updater's thread pool: the  *)
(* world thread hands every base map to DelayExecutor's workers and waits; *)
(* the worker that updates an instanced map hands over its instances.      *)
(*                                                                         *)
(* Everything done under MapUpdater's m_mutex is one step: schedule_update *)
(* (the executor's queue takes its own lock inside it), update_finished,   *)
(* and each evaluation of the loop in wait().                              *)
(***************************************************************************)
EXTENDS Integers, Sequences, FiniteSets

CONSTANTS
    BaseMap,        \* MapManager's i_maps
    InstanceMap,    \* maps created by and kept in a MapInstanced
    Worker,         \* threads of the DelayExecutor
    NoMap,          \* a worker between two requests
    HighWaterMark   \* requests the executor's queue holds before it is full

Map == BaseMap \cup InstanceMap

ASSUME MapAssumption ==
    /\ BaseMap \cap InstanceMap = {}
    /\ NoMap \notin Map
    /\ IsFiniteSet(Worker)
    /\ HighWaterMark \in Nat

VARIABLES
    pc,                \* where the world thread is
    iter,              \* base maps the loop of MapManager::Update has still to visit
    pending_requests,
    queue_,            \* the executor's ACE_Activation_Queue
    activated_,        \* DelayExecutor::activated_
    thread,            \* life of each worker's svc()
    task,              \* the map a worker's request updates
    children,          \* instances the running MapInstanced::Update has still to visit
    owner              \* m_InstancedMaps: the base map an instance is kept in, or NoMap

vars == <<pc, iter, pending_requests, queue_, activated_, thread, task, children, owner>>

worldVars  == <<pc, iter>>
workerVars == <<thread, task, children>>

Init ==
    /\ pc = "init"
    /\ iter = {}
    /\ pending_requests = 0
    /\ queue_ = <<>>
    /\ activated_ = FALSE
    /\ thread = [w \in Worker |-> "none"]
    /\ task = [w \in Worker |-> NoMap]
    /\ children = [w \in Worker |-> {}]
    /\ owner = [i \in InstanceMap |-> NoMap]

InstancesOf(m) == {i \in InstanceMap : owner[i] = m}

-----------------------------------------------------------------------------
(* MapUpdater *)

\* Defect: a request that the queue has no room for replaces the oldest one.
schedule_update_replaced(m) ==
    IF Len(queue_) < HighWaterMark
    THEN /\ pending_requests' = pending_requests + 1
         /\ queue_' = Append(queue_, m)
    ELSE /\ queue_' = Append(Tail(queue_), m)
         /\ UNCHANGED pending_requests

\* Defect: the request is handed over again by a retry of execute().
schedule_update_again(m) ==
    IF activated_ /\ Len(queue_) < HighWaterMark
    THEN /\ pending_requests' = pending_requests + 2
         /\ queue_' = queue_ \o <<m, m>>
    ELSE UNCHANGED <<pending_requests, queue_>>

schedule_update(m) ==
    \/ /\ activated_ /\ Len(queue_) < HighWaterMark
       /\ pending_requests' = pending_requests + 1
       /\ queue_' = Append(queue_, m)
    \/ /\ ~activated_ \/ Len(queue_) >= HighWaterMark
       /\ UNCHANGED <<pending_requests, queue_>>

\* Defect: the condition is not signalled.
update_finished_silent ==
    /\ pending_requests' = IF pending_requests = 0 THEN 0 ELSE pending_requests - 1
    /\ UNCHANGED pc

\* The broadcast moves a world thread that waits on m_condition to "awake".
update_finished ==
    IF pending_requests = 0
    THEN UNCHANGED <<pending_requests, pc>>
    ELSE /\ pending_requests' = pending_requests - 1
         /\ pc' = CASE pc = "waiting"    -> "awake"
                    [] pc = "unwaiting"  -> "unawake"
                    [] OTHER             -> pc

\* Defect: wait() tests the condition with "if": one broadcast ends it.
wait_once(blocked, done) ==
    pc' = IF pc \in {"maps", "idle"} /\ pending_requests > 0 THEN blocked ELSE done

\* The loop of wait(), entered or re-evaluated after a wake-up.
wait(blocked, done) ==
    pc' = IF pending_requests > 0 THEN blocked ELSE done

-----------------------------------------------------------------------------
(* The world thread *)

\* MapManager::Initialize; MapUpdate.Threads may be 0.
Initialize ==
    /\ pc = "init"
    /\ pc' = "idle"
    /\ \/ /\ Worker # {}
          /\ activated_' = TRUE
          /\ thread' = [w \in Worker |-> "svc"]
       \/ UNCHANGED <<activated_, thread>>
    /\ UNCHANGED <<iter, pending_requests, queue_, task, children, owner>>

\* A player enters an instance that has no map yet, while sessions are updated.
CreateInstance(i, m) ==
    /\ pc = "idle"
    /\ owner[i] = NoMap
    /\ owner' = [owner EXCEPT ![i] = m]
    /\ UNCHANGED <<pc, iter, pending_requests, queue_, activated_, workerVars>>

BeginUpdate ==
    /\ pc = "idle"
    /\ pc' = "maps"
    /\ iter' = BaseMap
    /\ UNCHANGED <<pending_requests, queue_, activated_, workerVars, owner>>

ScheduleMap(m) ==
    /\ pc = "maps" /\ m \in iter
    /\ activated_
    /\ iter' = iter \ {m}
    /\ schedule_update(m)
    /\ UNCHANGED <<pc, activated_, workerVars, owner>>

\* No pool: the map and its instances are updated here; some are unloaded.
UpdateInline(m) ==
    /\ pc = "maps" /\ m \in iter
    /\ ~activated_
    /\ iter' = iter \ {m}
    /\ \E gone \in SUBSET InstancesOf(m) :
          owner' = [i \in InstanceMap |-> IF i \in gone THEN NoMap ELSE owner[i]]
    /\ UNCHANGED <<pc, pending_requests, queue_, activated_, workerVars>>

EndLoop ==
    /\ pc = "maps" /\ iter = {}
    /\ IF activated_ THEN wait("waiting", "delayed") ELSE pc' = "delayed"
    /\ UNCHANGED <<iter, pending_requests, queue_, activated_, workerVars, owner>>

Wakeup ==
    /\ pc \in {"awake", "unawake"}
    /\ IF pc = "awake" THEN wait("waiting", "delayed")
                       ELSE wait("unwaiting", "deactivating")
    /\ UNCHANGED <<iter, pending_requests, queue_, activated_, workerVars, owner>>

\* DelayedUpdate of every map, then i_timer is reset.
DelayedUpdate ==
    /\ pc = "delayed"
    /\ pc' = "idle"
    /\ UNCHANGED <<iter, pending_requests, queue_, activated_, workerVars, owner>>

\* Shutdown: the maps are deleted before the pool is asked to stop.
UnloadAll ==
    /\ pc = "idle"
    /\ owner' = [i \in InstanceMap |-> NoMap]
    /\ IF activated_ THEN wait("unwaiting", "deactivating") ELSE pc' = "halted"
    /\ UNCHANGED <<iter, pending_requests, queue_, activated_, workerVars>>

Deactivate ==
    /\ pc = "deactivating"
    /\ activated_' = FALSE
    /\ pc' = "joining"
    /\ UNCHANGED <<iter, pending_requests, queue_, workerVars, owner>>

Join ==
    /\ pc = "joining"
    /\ \A w \in Worker : thread[w] = "exited"
    /\ pc' = "halted"
    /\ UNCHANGED <<iter, pending_requests, queue_, activated_, workerVars, owner>>

-----------------------------------------------------------------------------
(* DelayExecutor::svc *)

Dequeue(w) ==
    /\ thread[w] = "svc" /\ task[w] = NoMap
    /\ activated_ /\ queue_ # <<>>
    /\ task' = [task EXCEPT ![w] = Head(queue_)]
    /\ children' = [children EXCEPT ![w] = InstancesOf(Head(queue_))]
    /\ queue_' = Tail(queue_)
    /\ UNCHANGED <<worldVars, pending_requests, activated_, thread, owner>>

\* dequeue() returns NULL once the queue is deactivated.
ThreadExit(w) ==
    /\ thread[w] = "svc" /\ task[w] = NoMap
    /\ ~activated_
    /\ thread' = [thread EXCEPT ![w] = "exited"]
    /\ UNCHANGED <<worldVars, pending_requests, queue_, activated_, task, children, owner>>

\* The next instance in MapInstanced::Update: it is unloaded, kept because
\* players are still in it, or scheduled.
VisitInstance(w, i) ==
    /\ i \in children[w]
    /\ children' = [children EXCEPT ![w] = @ \ {i}]
    /\ \/ /\ owner' = [owner EXCEPT ![i] = NoMap]
          /\ UNCHANGED <<pending_requests, queue_>>
       \/ UNCHANGED <<owner, pending_requests, queue_>>
       \/ schedule_update(i) /\ UNCHANGED owner
    /\ UNCHANGED <<worldVars, activated_, thread, task>>

FinishUpdate(w) ==
    /\ task[w] # NoMap /\ children[w] = {}
    /\ task' = [task EXCEPT ![w] = NoMap]
    /\ update_finished
    /\ UNCHANGED <<iter, queue_, activated_, thread, children, owner>>

-----------------------------------------------------------------------------
WorldStep ==
    \/ Initialize \/ BeginUpdate \/ EndLoop \/ Wakeup \/ DelayedUpdate
    \/ Deactivate \/ Join
    \/ \E m \in BaseMap : ScheduleMap(m) \/ UpdateInline(m)

WorkerStep(w) ==
    \/ Dequeue(w) \/ ThreadExit(w) \/ FinishUpdate(w)
    \/ \E i \in InstanceMap : VisitInstance(w, i)

Next ==
    \/ WorldStep
    \/ UnloadAll
    \/ \E i \in InstanceMap, m \in BaseMap : CreateInstance(i, m)
    \/ \E w \in Worker : WorkerStep(w)

Spec == Init /\ [][Next]_vars

\* Threads that can run do run: the operating system schedules them all.
FairSpec == Spec /\ WF_vars(WorldStep) /\ \A w \in Worker : WF_vars(WorkerStep(w))

-----------------------------------------------------------------------------
Working == {w \in Worker : task[w] # NoMap}

\* Maps whose update is queued or running.
Busy == {queue_[k] : k \in 1..Len(queue_)} \cup {task[w] : w \in Working}

TypeOK ==
    /\ pc \in {"init", "idle", "maps", "waiting", "awake", "delayed",
               "unwaiting", "unawake", "deactivating", "joining", "halted"}
    /\ iter \subseteq BaseMap
    /\ pending_requests \in Nat
    /\ queue_ \in Seq(Map)
    /\ activated_ \in BOOLEAN
    /\ thread \in [Worker -> {"none", "svc", "exited"}]
    /\ task \in [Worker -> Map \cup {NoMap}]
    /\ children \in [Worker -> SUBSET InstanceMap]
    /\ owner \in [InstanceMap -> BaseMap \cup {NoMap}]

\* pending_requests counts the requests queued and running, so the branch of
\* update_finished that logs "BUG, report to devs" is never taken and wait()
\* returns exactly when the pool is idle (MapUpdater.cpp:82-127).
PendingIsOutstanding ==
    pending_requests = Len(queue_) + Cardinality(Working)

Exclusive == pc \notin {"maps", "waiting", "awake"}

\* While the world thread runs sessions, delayed updates or the unloading of
\* maps, no worker updates a map and none is queued (MapManager.cpp:252-277).
WorldOwnsMaps == Exclusive => Busy = {}

\* No map is updated by two workers, or again before its update of this tick
\* is over: every request outstanding is for another map.
OneUpdatePerMap ==
    /\ \A j, k \in 1..Len(queue_) : queue_[j] = queue_[k] => j = k
    /\ \A v, w \in Working : task[v] = task[w] => v = w
    /\ \A k \in 1..Len(queue_), w \in Working : queue_[k] # task[w]

\* A request never outlives its map: instances queued or running, and those a
\* worker has still to visit, are in m_InstancedMaps (MapInstanced.cpp:30-56).
NoDanglingRequest ==
    /\ \A i \in Busy \cap InstanceMap : owner[i] # NoMap
    /\ \A w \in Worker : \A i \in children[w] : owner[i] = task[w] /\ owner[i] # NoMap

\* wait() returns: a tick of the world thread ends, whatever the queue's
\* limit is, because a worker that schedules never blocks on a full queue; and
\* deactivate() joins every worker, so that unloading ends too.
TickEnds ==
    /\ pc = "maps" ~> pc = "delayed"
    /\ pc \in {"unwaiting", "deactivating"} ~> pc = "halted"

-----------------------------------------------------------------------------
(* The inductive invariant behind the safety properties above. *)

QuietWhenExclusive == Exclusive => pending_requests = 0

QuietWhenInactive == ~activated_ => pending_requests = 0

\* What is still to be handed over has not been: the base maps the loop has to
\* visit and the instances of maps whose own update has not visited them.
NotHandedOverYet ==
    /\ \A m \in iter : m \notin Busy /\ InstancesOf(m) \cap Busy = {}
    /\ \A k \in 1..Len(queue_) : InstancesOf(queue_[k]) \cap Busy = {}
    /\ \A w \in Worker : children[w] \cap Busy = {}

IInv ==
    /\ TypeOK
    /\ PendingIsOutstanding
    /\ QuietWhenExclusive
    /\ QuietWhenInactive
    /\ OneUpdatePerMap
    /\ NoDanglingRequest
    /\ NotHandedOverYet

Barrier == INSTANCE UpdateBarrier WITH exclusive <- Exclusive, busy <- Busy

\* The pool implements the barrier MapManager::Update relies on.
ImplementsBarrier == Barrier!Spec
=============================================================================
