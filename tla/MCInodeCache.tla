---------------------------- MODULE MCInodeCache ----------------------------
EXTENDS InodeCache, TLC

CONSTANTS t1, t2, i1, i2, h1, h2, h3

OneThread == {t1}
TwoThreads == {t1, t2}
TwoInos == {i1, i2}
ThreeHandles == {h1, h2, h3}

SymmHandles == Permutations(ThreeHandles)
=============================================================================
