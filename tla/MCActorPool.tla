---------------------------- MODULE MCActorPool ----------------------------
(* Instances of ActorPool for TLC. *)
EXTENDS ActorPool, TLC

CallerSymmetry == Permutations(Caller)
=============================================================================
