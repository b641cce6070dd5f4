--------------------------- MODULE UpdateBarrier ---------------------------
(***************************************************************************)
(* What MapUpdater promises MapManager::Update: between two exclusive      *)
(* phases of the world thread (sessions, delayed updates, timers) maps are *)
(* handed over for updating, and the exclusive phase starts again only     *)
(* when every map handed over has been given back.                         *)
(***************************************************************************)
CONSTANT Map

VARIABLES exclusive,   \* the world thread owns every map
          busy         \* maps handed over and not given back

vars == <<exclusive, busy>>

Init ==
    /\ exclusive = TRUE
    /\ busy = {}

Open ==
    /\ exclusive
    /\ exclusive' = FALSE
    /\ UNCHANGED busy

\* A map is handed over once: by the world thread, or by the update of the
\* map that owns it, which is itself still handed over.
HandOver(m) ==
    /\ ~exclusive
    /\ m \notin busy
    /\ busy' = busy \cup {m}
    /\ UNCHANGED exclusive

GiveBack(m) ==
    /\ m \in busy
    /\ busy' = busy \ {m}
    /\ UNCHANGED exclusive

Close ==
    /\ ~exclusive
    /\ busy = {}
    /\ exclusive' = TRUE
    /\ UNCHANGED busy

Next ==
    \/ Open
    \/ Close
    \/ \E m \in Map : HandOver(m) \/ GiveBack(m)

Spec == Init /\ [][Next]_vars
=============================================================================
