------------------------- MODULE MCExecutorServices -------------------------
(***************************************************************************)
(* Small ranges of ids and times for ExecutorServices; they end, and so do *)
(* the behaviours.                                                         *)
(***************************************************************************)
EXTENDS ExecutorServices, TLC

SlotSymmetry == Permutations(Slot)
=============================================================================
