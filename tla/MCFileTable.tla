---------------------------- MODULE MCFileTable -----------------------------
EXTENDS FileTable, TLC

CONSTANTS p1, p2, p3, i1, i2, q1, q2

TwoProcs == {p1, p2}
ThreeProcs == {p1, p2, p3}
OneProc == {p1}
TwoInos == {i1, i2}
TwoPipes == {q1, q2}
OnePipe == {q1}

SymmInos == Permutations(TwoInos)
=============================================================================
