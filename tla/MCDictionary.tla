---------------------------- MODULE MCDictionary ----------------------------
(* Small instances of Dictionary for TLC.                                  *)
EXTENDS Dictionary, TLC

(* The slots are interchangeable and so are the words, but for the one     *)
(* spelt like the sentinel; used by the runs that check invariants only.   *)
SlotSymmetry ==
    Permutations(Writers) \cup Permutations(Readers) \cup Permutations(Plain)
=============================================================================
