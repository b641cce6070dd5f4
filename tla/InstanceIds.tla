---------------------------- MODULE InstanceIds -----------------------------
(***************************************************************************)
(* MapManager's allocator of instance ids: a vector<bool> with a bit per   *)
(* id in use and _nextInstanceId, the id the next instance will get.       *)
(*                                                                         *)
(* The world thread loads, generates and (from _ResetInstance) frees ids   *)
(* while the map update threads are idle. During a map update, threads     *)
(* that destroy battlegrounds free their ids concurrently and without a    *)
(* lock (MapInstanced::DestroyInstance): the test of _nextInstanceId, its  *)
(* assignment, and the read and write of the word that holds the bit are   *)
(* separate steps.                                                         *)
(***************************************************************************)
EXTENDS Integers, FiniteSets

CONSTANTS
    MapThread,     \* map update threads
    MaxId,      \* bound of the search, 0xFFFFFFFF in the code
    Chunk,      \* the size is a multiple of it, 32 in the code
    Word,       \* bits in a word of the vector<bool>, 64 in the build
    DbId        \* ids the table `instance` may hold when the server starts

ASSUME IdAssumption ==
    /\ MaxId \in Nat \ {0}
    /\ Chunk \in Nat \ {0}
    /\ Word \in Nat \ {0}
    /\ DbId \subseteq 1..(MaxId - 1) /\ IsFiniteSet(DbId)

Id == 0..MaxId

VARIABLES
    phase,      \* "startup" until LoadInstances, "run", "stopped" by World::StopNow
    size, capacity,     \* of _instanceIds
    marked,     \* the indexes whose bit is set
    next,       \* _nextInstanceId
    free,       \* FreeInstanceId as each worker runs it
    issued,     \* ids of the instances that exist
    fault       \* "outside": a bit beyond the vector was written;
                \* "overflow": GenerateInstanceId found no free id

idsVars == <<phase, size, capacity, marked, next, free, issued, fault>>

Idle == [pc |-> "idle", id |-> 0, word |-> {}]

IdsInit ==
    /\ phase = "startup"
    /\ size = 0 /\ capacity = 0
    /\ marked = {}
    /\ next = 0
    /\ free = [w \in MapThread |-> Idle]
    /\ issued = {}
    /\ fault = {}

\* The last two resize() arguments of the code.
RoundUp(n) == (n \div Chunk) * Chunk + (IF n % Chunk > 0 THEN Chunk ELSE 0)

\* vector<bool>::resize allocates whole words, and at least doubles.
Grown(n) == LET wanted == IF n > 2 * size THEN n ELSE 2 * size
            IN  ((wanted + Word - 1) \div Word) * Word

resize(n) ==
    /\ size' = n
    /\ capacity' = IF n > capacity THEN Grown(n) ELSE capacity

\* The indexes whose bits share a word with the bit of id.
WordOf(id) == {j \in Id : j \div Word = id \div Word}

WorkersIdle == \A w \in MapThread : free[w].pc = "idle"

-----------------------------------------------------------------------------
(* The world thread *)

\* InitInstanceIds sizes the vector for MAX(id); LoadResetTimes registers the
\* ids in ascending order and moves _nextInstanceId past a run that starts at 1.
LoadInstances ==
    /\ phase = "startup" /\ phase' = "run"
    /\ \E db \in SUBSET DbId, max \in DbId \cup {0} :
          /\ IF db = {} THEN max = 0 ELSE max \in db /\ \A i \in db : i <= max
          /\ resize(RoundUp(max))
          /\ marked' = {i \in db : i < RoundUp(max)}
          /\ fault' = IF max >= RoundUp(max) /\ db # {} THEN {"outside"} ELSE {}
          /\ next' \in 1..(max + 1) /\ next' \notin db
          /\ \A i \in 1..(next' - 1) : i \in db
          /\ issued' = db
    /\ UNCHANGED free

\* The search for the next available id, marked or beyond the vector.
Available == {i \in (next + 1)..(MaxId - 1) : i \notin marked}

\* Defect: the search is left out.
Advance_unsearched == next' = (next + 1) % (MaxId + 1)

\* _nextInstanceId is incremented, then moved to the lowest available id.
Advance ==
    IF Available = {}
    THEN next' = (next + 1) % (MaxId + 1)
    ELSE next' \in Available /\ \A i \in Available : next' <= i

\* Space for the id handed out: first up to the capacity, then a new allocation.
Allocate ==
    IF next < size THEN UNCHANGED <<size, capacity>>
    ELSE resize(IF size < capacity THEN capacity ELSE RoundUp(next))

GenerateInstanceId ==
    /\ phase = "run" /\ WorkersIdle
    /\ Advance
    /\ Allocate
    /\ phase' = IF next' = next THEN "stopped" ELSE phase
    /\ marked' = {i \in marked \cup {next} : i < size'}
    /\ issued' = issued \cup {next}
    /\ fault' = fault \cup (IF next >= size' THEN {"outside"} ELSE {})
                      \cup (IF Available = {} THEN {"overflow"} ELSE {})
    /\ UNCHANGED free

FreeInstanceId(id) ==
    /\ next' = IF id < next THEN id ELSE next
    /\ marked' = marked \ {id}
    /\ fault' = fault \cup (IF id >= size THEN {"outside"} ELSE {})

\* The end of InstanceSaveManager::_ResetInstance.
ResetInstance(id) ==
    /\ phase = "run" /\ WorkersIdle
    /\ id \in issued
    /\ issued' = issued \ {id}
    /\ FreeInstanceId(id)
    /\ UNCHANGED <<phase, size, capacity, free>>

-----------------------------------------------------------------------------
(* DestroyInstance of a battleground on a map update thread *)

\* The battleground is gone and FreeInstanceId compares its id.
DestroyInstance(w, id) ==
    /\ phase = "run" /\ free[w].pc = "idle"
    /\ id \in issued
    /\ issued' = issued \ {id}
    /\ free' = [free EXCEPT ![w] = [pc |-> IF id < next THEN "next" ELSE "load",
                                    id |-> id, word |-> {}]]
    /\ UNCHANGED <<phase, size, capacity, marked, next, fault>>

SetNextInstanceId(w) ==
    /\ free[w].pc = "next"
    /\ next' = free[w].id
    /\ free' = [free EXCEPT ![w].pc = "load"]
    /\ UNCHANGED <<phase, size, capacity, marked, issued, fault>>

LoadWord(w) ==
    /\ free[w].pc = "load"
    /\ free' = [free EXCEPT ![w].pc = "store",
                            ![w].word = marked \cap WordOf(free[w].id)]
    /\ UNCHANGED <<phase, size, capacity, marked, next, issued, fault>>

\* Defect: the whole word is cleared.
StoreWord_cleared(w) ==
    /\ free[w].pc = "store"
    /\ marked' = marked \ WordOf(free[w].id)
    /\ fault' = fault \cup (IF free[w].id >= size THEN {"outside"} ELSE {})
    /\ free' = [free EXCEPT ![w] = Idle]
    /\ UNCHANGED <<phase, size, capacity, next, issued>>

StoreWord(w) ==
    /\ free[w].pc = "store"
    /\ marked' = (marked \ WordOf(free[w].id)) \cup (free[w].word \ {free[w].id})
    /\ fault' = fault \cup (IF free[w].id >= size THEN {"outside"} ELSE {})
    /\ free' = [free EXCEPT ![w] = Idle]
    /\ UNCHANGED <<phase, size, capacity, next, issued>>

-----------------------------------------------------------------------------
IdsNext ==
    \/ LoadInstances
    \/ GenerateInstanceId
    \/ \E id \in Id : ResetInstance(id)
    \/ \E w \in MapThread :
          \/ \E id \in Id : DestroyInstance(w, id)
          \/ SetNextInstanceId(w) \/ LoadWord(w) \/ StoreWord(w)

IdsSpec == IdsInit /\ [][IdsNext]_idsVars

-----------------------------------------------------------------------------
IdsTypeOK ==
    /\ phase \in {"startup", "run", "stopped"}
    /\ size \in Nat /\ capacity \in Nat
    /\ marked \subseteq Id
    /\ next \in Id
    /\ free \in [MapThread -> [pc : {"idle", "next", "load", "store"}, id : Id, word : SUBSET Id]]
    /\ issued \subseteq Id
    /\ fault \subseteq {"outside", "overflow"}

Sound == phase = "run" /\ fault = {}

\* No two instances share an id: the id GenerateInstanceId will hand out is not
\* in use, even when workers race in FreeInstanceId, as long as every bit
\* written was inside the vector and the ids did not run out.
NextIsUnused == Sound => next \notin issued

\* Concurrent clears of bits in one word lose clears, never marks: every id in
\* use stays marked (MapInstanced.cpp:251-252, MapManager.cpp:424).
IssuedIsMarked == Sound => issued \subseteq marked

-----------------------------------------------------------------------------
(* The inductive invariant: a word a worker has loaded still holds every mark
   of an id in use, because ids are handed out only while workers are idle. *)

StartupIdle == phase = "startup" => \A w \in MapThread : free[w] = Idle

MarksInside ==
    /\ \A i \in marked : i < size
    /\ \A w \in MapThread : \A i \in free[w].word : i < size

WordsCoverIssued ==
    Sound => \A w \in MapThread :
        /\ free[w].pc # "idle" => free[w].id \notin issued
        /\ free[w].pc = "store" => issued \cap WordOf(free[w].id) \subseteq free[w].word

IdsIInv ==
    IdsTypeOK /\ StartupIdle /\ MarksInside /\ NextIsUnused /\ IssuedIsMarked /\ WordsCoverIssued
=============================================================================
