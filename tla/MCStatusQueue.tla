--------------------------- MODULE MCStatusQueue ---------------------------
(* Instances of StatusQueue for TLC. *)
EXTENDS StatusQueue, TLC

OnePhase == <<"sync.messages">>
TwoPhases == <<"sync.messages", "sync.downloading">>
Symmetry == Permutations(Threads)
=============================================================================
