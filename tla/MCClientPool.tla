----------------------------- MODULE MCClientPool -----------------------------
(***************************************************************************)
(* Instance: two goroutines make three calls to three daemons, each of     *)
(* which opens one tab at most.                                            *)
(***************************************************************************)
EXTENDS ClientPool, TLC

MCSymmetry == Permutations(Callers) \cup Permutations(Shorts)
=============================================================================
