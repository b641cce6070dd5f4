----------------------------- MODULE MCItemFlow -----------------------------
(***************************************************************************)
(* Three players with bags of one place; two of them have an item. In one  *)
(* scene these two stand together and trade, in the other all three are a  *)
(* group with a corpse, and an item in it, to loot.                        *)
(***************************************************************************)
EXTENDS ItemFlow, TLC

CONSTANTS p1, p2, p3, a, b, loot

MCOwned == p1 :> {a} @@ p2 :> {b} @@ p3 :> {}
MCMoney == [p \in Players |-> 1]
MCScenes == {<<{{p1, p2}}, {}>>, <<{}, Players>>}

=============================================================================
