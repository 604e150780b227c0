-------------------------- MODULE MCStratumDialogue --------------------------
(***************************************************************************)
(* The instance of StratumDialogue that TLC checks: its workers are        *)
(* interchangeable.                                                        *)
(***************************************************************************)
EXTENDS StratumDialogue, TLC

WorkerSymmetry == Permutations(Workers)
=============================================================================
