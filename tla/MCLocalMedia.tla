---------------------------- MODULE MCLocalMedia ----------------------------
(***************************************************************************)
(* Instances of LocalMedia for TLC.                                        *)
(***************************************************************************)
EXTENDS LocalMedia, TLC

MediaSymmetry == Permutations(Mic) \cup Permutations(Cam) \cup Permutations(Screen)
                     \cup Permutations(Peer) \cup Permutations(Task)
=============================================================================
