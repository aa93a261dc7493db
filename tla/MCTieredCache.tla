--------------------------- MODULE MCTieredCache ---------------------------
(* Small instances of TieredCache for TLC.                                 *)
EXTENDS TieredCache, TLC

(* The processes are interchangeable.                                      *)
ProcessSymmetry == Permutations(Processes)
=============================================================================
