---------------------------- MODULE MCJournal ----------------------------
(* Model-checking instance of Journal.                                     *)
EXTENDS Journal, TLC

CONSTANTS t1, t2, t3, b1, b2, b3

TwoThreads == {t1, t2}
ThreeThreads == {t1, t2, t3}
MCBlocks == {b1, b2}
ThreeBlocks == {b1, b2, b3}
Symm2 == Permutations(TwoThreads) \cup Permutations(ThreeBlocks)
Symm3 == Permutations(ThreeThreads) \cup Permutations(ThreeBlocks)
=============================================================================
