------------------------------ MODULE MCAiGate ------------------------------
(***************************************************************************)
(* Instances of AiGate for TLC.                                            *)
(***************************************************************************)
EXTENDS AiGate, TLC

CONSTANTS c1, c2, c3, c4

\* The callers that cannot be interrupted are interchangeable.
WorkerSymmetry == Permutations(Caller \ Scripts)
=============================================================================
