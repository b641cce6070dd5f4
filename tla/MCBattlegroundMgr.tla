------------------------- MODULE MCBattlegroundMgr --------------------------
(***************************************************************************)
(* Three players and one battleground at a time. In battlegrounds, p1 and  *)
(* p2 join as a party and p3 joins for the other side; a match starts with *)
(* one player on each side and has room for a second. p1 and p3 may lose   *)
(* their connection at any moment. In bg_team_limit all join alone, and a  *)
(* side is full with one player.                                           *)
(***************************************************************************)
EXTENDS BattlegroundMgr, TLC

CONSTANTS p1, p2, p3

MCRace == p1 :> "ALLIANCE" @@ p2 :> "ALLIANCE" @@ p3 :> "HORDE"
MCParties == {{p3}, {p1, p2}}
MCSolo == {{p1}, {p2}, {p3}}

=============================================================================
