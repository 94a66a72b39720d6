----------------------------- MODULE Namespace -----------------------------
(***************************************************************************)
(* What the file-system calls promise a user about names (spec 4.4, 7 and *)
(* 8): the names reachable from the root form a tree of typed objects.    *)
(* A call either leaves that tree alone or makes one step of it: a fresh  *)
(* name appears in a directory that is itself in the tree, or a name      *)
(* leaves it, a directory only once nothing is named below it.  Writes,   *)
(* opens, closes and failed calls are stutters.                           *)
(***************************************************************************)
EXTENDS Naturals, Sequences

VARIABLE tree    \* the set of <<path, type>>; the root (path <<>>) is implicit

Kinds == {"regular", "directory", "device"}
PathsOf(t) == {e[1] : e \in t}
IsDirIn(t, p) == p = <<>> \/ <<p, "directory">> \in t
Below(q, p) == Len(q) > Len(p) /\ SubSeq(q, 1, Len(p)) = p

NInit == tree = {}

\* A fresh name in a directory that is in the tree (old: before, new: after).
Make(old, new) ==
  \E e \in new \ old :
    /\ new = old \cup {e}
    /\ e[2] \in Kinds /\ Len(e[1]) > 0
    /\ e[1] \notin PathsOf(old)
    /\ IsDirIn(old, SubSeq(e[1], 1, Len(e[1]) - 1))

\* A name leaves the tree; a directory only when nothing is below it.
Remove(old, new) ==
  \E e \in old \ new :
    /\ new = old \ {e}
    /\ \A q \in PathsOf(old) : ~Below(q, e[1])

NNext == Make(tree, tree') \/ Remove(tree, tree')

NSpec == NInit /\ [][NNext]_tree
=============================================================================
