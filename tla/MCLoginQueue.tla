---------------------------- MODULE MCLoginQueue ----------------------------
(* Three players, three session objects, and a limit an operator moves between 1 and 2. *)
EXTENDS LoginQueue
=============================================================================
