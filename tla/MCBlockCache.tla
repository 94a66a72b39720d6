---------------------------- MODULE MCBlockCache ----------------------------
EXTENDS BlockCache, TLC

CONSTANTS t1, t2, b1, b2, b3, e1, e2, e3, e4

TwoThreads == {t1, t2}
ThreeBlocks == {b1, b2, b3}
FourEntries == {e1, e2, e3, e4}

\* Both threads touch the same blocks (e.g. the bitmap, a shared directory).
SharedTwo == [t \in TwoThreads |-> {b1, b2}]

Cold == <<>>
Warm == <<b1, b2>>

SymmEntries == Permutations(FourEntries)
=============================================================================
