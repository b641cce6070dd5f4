-------------------------- MODULE MCSessionPackets --------------------------
(***************************************************************************)
(* Instance of SessionPackets for TLC.                                     *)
(***************************************************************************)
EXTENDS SessionPackets

MCKinds == AllKinds

=============================================================================
