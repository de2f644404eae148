----------------------------- MODULE MCRecorder -----------------------------
(***************************************************************************)
(* Instances of Recorder for TLC.                                          *)
(***************************************************************************)
EXTENDS Recorder, TLC

TabSymmetry == Permutations(Mic) \cup Permutations(Cam) \cup Permutations(Screen)
                   \cup Permutations(Peer) \cup Permutations(Task) \cup Permutations(Recording)
=============================================================================
