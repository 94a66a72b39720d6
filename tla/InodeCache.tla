----------------------------- MODULE InodeCache -----------------------------
(***************************************************************************)
(* The in-memory inode table of src/src/fs/inode.c: inode_get, inode_share *)
(* and inode_put with its inode_clear and kfree, together with the         *)
(* link-count update of sys_unlinkat (src/src/kernel/sysfile.c) that makes *)
(* an inode freeable.                                                      *)
(*                                                                         *)
(* Handles come from a small kalloc pool.  inode_get and inode_put take no *)
(* lock around the list or the test of the reference count, so the list    *)
(* head is read and written by separate steps (a concurrent update in      *)
(* between is lost, the outcome of the data race on the list pointers);    *)
(* decrement_rc and increment_rc are atomic (common/rc.c).  The file's     *)
(* data blocks are not modelled: inode_clear is reduced to writing the     *)
(* entry back as INODE_INVALID.  A thread reaches an inode through a       *)
(* directory entry (named), as namex and dirlookup do.                     *)
(***************************************************************************)
EXTENDS Naturals, Sequences, FiniteSets, SequencesExt, FiniteSetsExt

CONSTANTS
  Threads,   \* kernel threads in file-system system calls
  Inos,      \* inode numbers (all allocated and linked once at the start)
  Handles,   \* kalloc-able Inode structs
  MaxOps     \* bound: system calls per thread

VARIABLES
  lst,       \* the inode list at `head`, most recent first
  live,      \* handles kalloc'ed and not yet kfree'd
  ino,       \* Inode.inode_no
  rc,        \* Inode.rc.count
  links,     \* Inode.entry.num_links (in memory)
  dtype,     \* on-disk InodeEntry.type: "used" or "free" (INODE_INVALID)
  dlinks,    \* on-disk InodeEntry.num_links
  named,     \* inode numbers a directory entry points to
  pc, tgt, hh, hn, snap, ops

vars == <<lst, live, ino, rc, links, dtype, dlinks, named, pc, tgt, hh,
          hn, snap, ops>>

AnyIno == CHOOSE i \in Inos : TRUE
AnyHandle == CHOOSE h \in Handles : TRUE

Init ==
  /\ lst = <<>> /\ live = {}
  /\ ino = [h \in Handles |-> AnyIno]
  /\ rc = [h \in Handles |-> 0]
  /\ links = [h \in Handles |-> 0]
  /\ dtype = [i \in Inos |-> "used"]
  /\ dlinks = [i \in Inos |-> 1]
  /\ named = Inos
  /\ pc = [t \in Threads |-> "idle"]
  /\ tgt = [t \in Threads |-> AnyIno]
  /\ hh = [t \in Threads |-> AnyHandle]
  /\ hn = [t \in Threads |-> 0]
  /\ snap = [t \in Threads |-> <<>>]
  /\ ops = [t \in Threads |-> 0]


\* Control moves to `to`, everything but pc and the listed variables unchanged.
Goto(t, to) == pc' = [pc EXCEPT ![t] = to]
Back(t, n) == IF n > 0 THEN "hold" ELSE "idle"
-----------------------------------------------------------------------------
\* namex/dirlookup finds the inode number in a directory.
Lookup(t, i) ==
  /\ pc[t] = "idle" /\ ops[t] < MaxOps /\ i \in named
  /\ Goto(t, "scan")
  /\ tgt' = [tgt EXCEPT ![t] = i]
  /\ ops' = [ops EXCEPT ![t] = @ + 1]
  /\ UNCHANGED <<lst, live, ino, rc, links, dtype, dlinks, named, hh, hn, snap>>

\* Bug variant: the hit path returns the handle without increment_rc.
GetScan_NoIncrement(t) ==
  LET k == SelectInSeq(lst, LAMBDA h : ino[h] = tgt[t]) IN
  /\ pc[t] = "scan"
  /\ \/ /\ k /= 0
        /\ hh' = [hh EXCEPT ![t] = lst[k]]
        /\ Goto(t, "hold")
        /\ UNCHANGED <<live, ino, links, rc>>
     \/ /\ k = 0
        /\ \E f \in Handles \ live :
             /\ live' = live \cup {f}
             /\ ino' = [ino EXCEPT ![f] = tgt[t]]
             /\ rc' = [rc EXCEPT ![f] = 1]
             /\ links' = [links EXCEPT ![f] = 0]
             /\ hh' = [hh EXCEPT ![t] = f]
        /\ Goto(t, "load")
  /\ hn' = [hn EXCEPT ![t] = 1]
  /\ UNCHANGED <<lst, dtype, dlinks, named, tgt, snap, ops>>

(* inode_get: scan the list; a hit takes a reference with increment_rc;    *)
(* a miss kallocs and inits a handle with count 1 (no lock is held).       *)
GetScan(t) ==
  LET k == SelectInSeq(lst, LAMBDA h : ino[h] = tgt[t]) IN
  /\ pc[t] = "scan"
  /\ \/ /\ k /= 0
        /\ rc' = [rc EXCEPT ![lst[k]] = @ + 1]
        /\ hh' = [hh EXCEPT ![t] = lst[k]]
        /\ Goto(t, "hold")
        /\ UNCHANGED <<live, ino, links>>
     \/ /\ k = 0
        /\ \E f \in Handles \ live :
             /\ live' = live \cup {f}
             /\ ino' = [ino EXCEPT ![f] = tgt[t]]
             /\ rc' = [rc EXCEPT ![f] = 1]
             /\ links' = [links EXCEPT ![f] = 0]
             /\ hh' = [hh EXCEPT ![t] = f]
        /\ Goto(t, "load")
  /\ hn' = [hn EXCEPT ![t] = 1]
  /\ UNCHANGED <<lst, dtype, dlinks, named, tgt, snap, ops>>

\* inode_lock; inode_sync(NULL, inode, false) reads the entry; inode_unlock.
GetLoad(t) ==
  /\ pc[t] = "load"
  /\ links' = [links EXCEPT ![hh[t]] = dlinks[tgt[t]]]
  /\ Goto(t, "insert")
  /\ UNCHANGED <<lst, live, ino, rc, dtype, dlinks, named, tgt, hh, hn, snap, ops>>

\* _insert_into_list(&head, node): read head.next ...
InsertRead(t) ==
  /\ pc[t] = "insert"
  /\ snap' = [snap EXCEPT ![t] = lst]
  /\ Goto(t, "linkin")
  /\ UNCHANGED <<lst, live, ino, rc, links, dtype, dlinks, named, tgt, hh, hn, ops>>

\* ... and link the node in front of it.
InsertWrite(t) ==
  /\ pc[t] = "linkin"
  /\ lst' = <<hh[t]>> \o snap[t]
  /\ Goto(t, "hold")
  /\ UNCHANGED <<live, ino, rc, links, dtype, dlinks, named, tgt, hh, hn, snap, ops>>

\* Bug variant: inode_share returns the handle without increment_rc.
Share_NoIncrement(t) ==
  /\ pc[t] = "hold" /\ hn[t] = 1
  /\ hn' = [hn EXCEPT ![t] = @ + 1]
  /\ UNCHANGED <<lst, live, ino, rc, links, dtype, dlinks, named, pc, tgt, hh, snap, ops>>

\* inode_share: increment_rc (e.g. fork sharing cwd).
Share(t) ==
  /\ pc[t] = "hold" /\ hn[t] = 1
  /\ rc' = [rc EXCEPT ![hh[t]] = @ + 1]
  /\ hn' = [hn EXCEPT ![t] = @ + 1]
  /\ UNCHANGED <<lst, live, ino, links, dtype, dlinks, named, pc, tgt, hh, snap, ops>>

(* sys_unlinkat under the inode lock: the directory entry is zeroed,       *)
(* num_links-- and inode_sync writes the entry (PANIC if num_links < 1).  *)
Unlink(t) ==
  /\ pc[t] = "hold" /\ tgt[t] \in named /\ links[hh[t]] >= 1
  /\ named' = named \ {tgt[t]}
  /\ links' = [links EXCEPT ![hh[t]] = @ - 1]
  /\ dlinks' = [dlinks EXCEPT ![tgt[t]] = links[hh[t]] - 1]
  /\ UNCHANGED <<lst, live, ino, rc, dtype, pc, tgt, hh, hn, snap, ops>>

\* inode_put: decrement_rc ...
PutDec(t) ==
  /\ pc[t] = "hold"
  /\ rc' = [rc EXCEPT ![hh[t]] = @ - 1]
  /\ hn' = [hn EXCEPT ![t] = @ - 1]
  /\ Goto(t, "puttest")
  /\ UNCHANGED <<lst, live, ino, links, dtype, dlinks, named, tgt, hh, snap, ops>>

\* Bug variant: the last-reference test is off by one.
PutTest_OffByOne(t) ==
  /\ pc[t] = "puttest"
  /\ Goto(t, IF rc[hh[t]] <= 1 /\ links[hh[t]] = 0 THEN "clear" ELSE Back(t, hn[t]))
  /\ UNCHANGED <<lst, live, ino, rc, links, dtype, dlinks, named, tgt, hh, hn, snap, ops>>

\* ... then, unlocked, rc.count == 0 && entry.num_links == 0.
PutTest(t) ==
  /\ pc[t] = "puttest"
  /\ Goto(t, IF rc[hh[t]] = 0 /\ links[hh[t]] = 0 THEN "clear" ELSE Back(t, hn[t]))
  /\ UNCHANGED <<lst, live, ino, rc, links, dtype, dlinks, named, tgt, hh, hn, snap, ops>>

\* Bug variant: inode_clear without writing the entry back.
PutClear_NoSync(t) ==
  /\ pc[t] = "clear"
  /\ Goto(t, "detach")
  /\ UNCHANGED <<lst, live, ino, rc, links, dtype, dlinks, named, tgt, hh, hn, snap, ops>>

\* entry.type = INODE_INVALID; inode_clear(ctx, inode) ends in inode_sync.
PutClear(t) ==
  /\ pc[t] = "clear"
  /\ dtype' = [dtype EXCEPT ![ino[hh[t]]] = "free"]
  /\ Goto(t, "detach")
  /\ UNCHANGED <<lst, live, ino, rc, links, dlinks, named, tgt, hh, hn, snap, ops>>

\* _detach_from_list(&inode->node): read the neighbours ...
DetachRead(t) ==
  /\ pc[t] = "detach"
  /\ snap' = [snap EXCEPT ![t] = lst]
  /\ Goto(t, "unlink")
  /\ UNCHANGED <<lst, live, ino, rc, links, dtype, dlinks, named, tgt, hh, hn, ops>>

\* ... relink them; kfree(inode).
DetachWrite(t) ==
  /\ pc[t] = "unlink"
  /\ lst' = Remove(snap[t], hh[t])
  /\ live' = live \ {hh[t]}
  /\ Goto(t, Back(t, hn[t]))
  /\ UNCHANGED << ino, rc, links, dtype, dlinks, named, tgt, hh, hn, snap, ops>>

Finished ==
  /\ \A t \in Threads : pc[t] = "idle" /\ ops[t] = MaxOps
  /\ UNCHANGED vars

ThreadStep(t) ==
  \/ GetScan(t) \/ GetLoad(t) \/ InsertRead(t) \/ InsertWrite(t)
  \/ Share(t) \/ Unlink(t) \/ PutDec(t) \/ PutTest(t) \/ PutClear(t)
  \/ DetachRead(t) \/ DetachWrite(t)

Next ==
  \/ \E t \in Threads, i \in Inos : Lookup(t, i)
  \/ \E t \in Threads : ThreadStep(t)
  \/ Finished

Spec == Init /\ [][Next]_vars
-----------------------------------------------------------------------------
TypeOK ==
  /\ lst \in Seq(Handles) /\ live \subseteq Handles
  /\ ino \in [Handles -> Inos] /\ rc \in [Handles -> Nat]
  /\ links \in [Handles -> Nat] /\ dlinks \in [Inos -> Nat]
  /\ dtype \in [Inos -> {"used", "free"}] /\ named \subseteq Inos
  /\ pc \in [Threads -> {"idle", "scan", "load", "insert", "linkin", "hold",
                         "puttest", "clear", "detach", "unlink"}]
  /\ hn \in [Threads -> 0..2] /\ ops \in [Threads -> 0..MaxOps]

\* References thread t holds to handle h (ghost count of get/share minus put).
RefsTo(h) == MapThenSumSet(LAMBDA t : hn[t], {t \in Threads : hh[t] = h})

(* The reference count of every live handle equals the number of            *)
(* references the threads hold (inode_get, inode_share and inode_put keep  *)
(* rc.count exact).                                                        *)
RefCountExact ==
  \A h \in live : rc[h] = RefsTo(h)

(* A thread holding a reference (between inode_get/share and inode_put)    *)
(* holds a live handle of the inode it asked for: inode_put never frees a  *)
(* handle someone still references.                                       *)
NoDanglingRef ==
  \A t \in Threads : hn[t] > 0 => hh[t] \in live /\ ino[hh[t]] = tgt[t]

(* Spec 4.4: inode_get returns the shared in-memory handle: no two live    *)
(* handles of one inode number exist.                                      *)
UniqueHandle ==
  \A g, h \in live : g /= h => ino[g] /= ino[h]

(* No leaked inodes: when no system call is in progress, every inode that  *)
(* is allocated on disk is still reachable through a directory entry       *)
(* (inode_put of the last reference to an unlinked inode frees it).       *)
Quiescent == \A t \in Threads : pc[t] = "idle"
NoOrphan ==
  Quiescent => \A i \in Inos : dtype[i] = "used" => i \in named

(* inode_clear and kfree run at most once per handle: no two threads tear  *)
(* down the same inode.                                                    *)
ClearOnce ==
  \A t, u \in Threads :
    t /= u /\ pc[t] \in {"clear", "detach", "unlink"} /\ pc[u] \in {"clear", "detach", "unlink"}
      => hh[t] /= hh[u]
=============================================================================
