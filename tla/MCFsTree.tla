------------------------------ MODULE MCFsTree ------------------------------
EXTENDS FsTree

\* Every path of at most three characters over "a", "." and "/".
ShortPaths == UNION {[1 .. k -> {"a", ".", "/"}] : k \in 0 .. 3}
\* The same paths less the three-character elements, which FILE_NAME_MAX_LENGTH
\* = 3 would cut.
FitPaths == ShortPaths \ [1 .. 3 -> {"a", "."}]
TwoFds == {0, 1}
\* One writev whose second element is clamped once the first has advanced the offset.
SplitIov == {<<1, 3>>}
\* The paths that reach a dead working directory: "a", "/a" and "/".
OrphanPaths == {<<"a">>, <<"/", "a">>, <<"/">>}
=============================================================================
