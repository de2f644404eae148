----------------------------- MODULE MCSignaling ----------------------------
(***************************************************************************)
(* Instances of Signaling for TLC.                                         *)
(***************************************************************************)
EXTENDS Signaling, TLC

ConnSymmetry == Permutations(Conn)
Symmetry == Permutations(Conn) \cup Permutations(RoomId)
=============================================================================
