----------------------------- MODULE FileTable ------------------------------
(***************************************************************************)
(* The global file table of src/src/fs/file.c (file_alloc, file_dup,       *)
(* file_close, pipe_alloc's use of it) and the per-process descriptor      *)
(* tables of src/src/kernel/sysfile.c (fdalloc, sys_openat, sys_dup,       *)
(* sys_close, sys_pipe2), composed with the process tree of                *)
(* src/src/kernel/proc.c (fork, exit with its reparenting to root_proc,    *)
(* wait on the childexit semaphore, kill and find_proc).                   *)
(*                                                                         *)
(* A process runs one system call at a time and the table is guarded by    *)
(* ftable_lock, so each system call is one step.  The inode a File refers  *)
(* to is an element of Inos, and iref counts the inode references Files    *)
(* hold (what namei/create hand to sys_openat and file_close puts back).   *)
(* pipe_close is reduced to its open flags and the free of the Pipe.       *)
(* fork and exit hold processlock (and the scheduler lock) for the tree    *)
(* update, and exit posts its parent under both locks right before         *)
(* sched(ZOMBIE), so each is one step; wait is three: the call with its    *)
(* wait_sem, the wake-up, and the scan under processlock.                  *)
(***************************************************************************)
EXTENDS Naturals, FiniteSets, FiniteSetsExt

CONSTANTS
  Procs,      \* process slots (the first ones run at the start)
  InitProcs,  \* processes alive at the start
  NFILE,      \* size of ftable.filelist
  NOPENFILE,  \* size of a process's openfilelist
  Inos,       \* inodes a path can name
  Pipes,      \* kalloc-able Pipe structs
  NoFile,     \* NULL in an openfilelist
  Root,       \* root_proc, which runs the user init and never exits
  NoProc,     \* a NULL parent
  MaxOps      \* bound: system calls in all

Slots == 0..NFILE-1
Fds == 0..NOPENFILE-1

ASSUME NoFile \notin Slots /\ InitProcs \subseteq Procs /\ Root \in InitProcs

VARIABLES
  alive,     \* processes that exist
  oft,       \* oft[p][fd]: openfilelist of p
  ref,       \* File.ref
  ftype,     \* File.type: "none" (FD_NONE), "inode", "pipe"
  fino,      \* File.ip
  fpipe,     \* File.pipe
  fwr,       \* File.writable
  iref,      \* inode references held by Files
  pipes,     \* allocated Pipe structs
  readopen, writeopen,
  oops,      \* a NULL File pointer was dereferenced
  ops,
  zombie,    \* processes in state ZOMBIE, not yet freed by wait
  parent,    \* Proc.parent (NoProc for a free Proc)
  childexit, \* the count of Proc.childexit
  wpc,       \* where a process is in wait: "none", "sleep", "scan"
  killed,    \* processes with Proc.killed set
  panicked   \* kill's ASSERT failed

procVars == <<zombie, parent, childexit, wpc, killed, panicked>>
vars == <<alive, oft, ref, ftype, fino, fpipe, fwr, iref, pipes, readopen,
          writeopen, oops, ops, procVars>>

AnyIno == CHOOSE i \in Inos : TRUE
AnyPipe == CHOOSE q \in Pipes : TRUE

Init ==
  /\ alive = InitProcs
  /\ oft = [p \in Procs |-> [fd \in Fds |-> NoFile]]
  /\ ref = [s \in Slots |-> 0]
  /\ ftype = [s \in Slots |-> "none"]
  /\ fino = [s \in Slots |-> AnyIno]
  /\ fpipe = [s \in Slots |-> AnyPipe]
  /\ fwr = [s \in Slots |-> FALSE]
  /\ iref = [i \in Inos |-> 0]
  /\ pipes = {}
  /\ readopen = [q \in Pipes |-> FALSE]
  /\ writeopen = [q \in Pipes |-> FALSE]
  /\ oops = FALSE
  /\ ops = 0
  \* init_kproc: root_proc is its own parent; start_proc gives any other
  \* process without a parent to root_proc.
  /\ zombie = {}
  /\ parent = [p \in Procs |-> IF p \in InitProcs THEN Root ELSE NoProc]
  /\ childexit = [p \in Procs |-> 0]
  /\ wpc = [p \in Procs |-> "none"]
  /\ killed = {}
  /\ panicked = FALSE

\* The lowest element of a set of numbers, -1 when empty (the for loops).
First(S) == IF S = {} THEN -1 ELSE Min(S)
\* file_alloc: the first slot with ref == 0.
FreeSlot == First({s \in Slots : ref[s] = 0})
\* fdalloc: the lowest NULL descriptor of p.
FreeFd(p) == First({fd \in Fds : oft[p][fd] = NoFile})
\* The descriptors of p naming slot s.
FdsOf(p, s) == {fd \in Fds : oft[p][fd] = s}
Call == ops < MaxOps /\ ops' = ops + 1
\* A process that can make a system call: it exists, is not inside wait,
\* and has not been killed (the trap epilogue turns a killed process's
\* next return to user space into exit(-1)).
Ready(p) == p \in alive /\ wpc[p] = "none" /\ p \notin killed
\* Proc.children: the processes whose ptnode is on p's list.
Children(p) == {c \in alive \cup zombie : parent[c] = p /\ c /= p}
-----------------------------------------------------------------------------
\* Mutants of file_close and sys_dup, each a plausible slip in that code.
Drop_NoPut(k) ==
  LET dead == {s \in DOMAIN k : ref[s] - k[s] = 0 /\ ftype[s] /= "none"}
      ro == [q \in Pipes |-> readopen[q] /\ q \notin {fpipe[s] : s \in {d \in dead : ftype[d] = "pipe" /\ ~fwr[d]}}]
      wo == [q \in Pipes |-> writeopen[q] /\ q \notin {fpipe[s] : s \in {d \in dead : ftype[d] = "pipe" /\ fwr[d]}}]
  IN
  /\ ref' = [s \in Slots |-> IF s \in DOMAIN k /\ ftype[s] /= "none" THEN ref[s] - k[s] ELSE ref[s]]
  /\ ftype' = [s \in Slots |-> IF s \in dead THEN "none" ELSE ftype[s]]
  /\ iref' = iref
  /\ readopen' = ro /\ writeopen' = wo
  /\ pipes' = {q \in pipes : ro[q] \/ wo[q]}
Drop_PutEach(k) ==
  LET dead == {s \in DOMAIN k : ref[s] - k[s] = 0 /\ ftype[s] /= "none"}
      ro == [q \in Pipes |-> readopen[q] /\ q \notin {fpipe[s] : s \in {d \in dead : ftype[d] = "pipe" /\ ~fwr[d]}}]
      wo == [q \in Pipes |-> writeopen[q] /\ q \notin {fpipe[s] : s \in {d \in dead : ftype[d] = "pipe" /\ fwr[d]}}]
  IN
  /\ ref' = [s \in Slots |-> IF s \in DOMAIN k /\ ftype[s] /= "none" THEN ref[s] - k[s] ELSE ref[s]]
  /\ ftype' = [s \in Slots |-> IF s \in dead THEN "none" ELSE ftype[s]]
  /\ iref' = [i \in Inos |-> iref[i] - Cardinality({s \in DOMAIN k : ftype[s] = "inode" /\ fino[s] = i})]
  /\ readopen' = ro /\ writeopen' = wo
  /\ pipes' = {q \in pipes : ro[q] \/ wo[q]}
Drop_SwapEnds(k) ==
  LET dead == {s \in DOMAIN k : ref[s] - k[s] = 0 /\ ftype[s] /= "none"}
      ro == [q \in Pipes |-> readopen[q] /\ q \notin {fpipe[s] : s \in {d \in dead : ftype[d] = "pipe" /\ fwr[d]}}]
      wo == [q \in Pipes |-> writeopen[q] /\ q \notin {fpipe[s] : s \in {d \in dead : ftype[d] = "pipe" /\ ~fwr[d]}}]
  IN
  /\ ref' = [s \in Slots |-> IF s \in DOMAIN k /\ ftype[s] /= "none" THEN ref[s] - k[s] ELSE ref[s]]
  /\ ftype' = [s \in Slots |-> IF s \in dead THEN "none" ELSE ftype[s]]
  /\ iref' = [i \in Inos |-> iref[i] - Cardinality({s \in dead : ftype[s] = "inode" /\ fino[s] = i})]
  /\ readopen' = ro /\ writeopen' = wo
  /\ pipes' = {q \in pipes : ro[q] \/ wo[q]}
Dup_NoIncrement(p, fd) ==
  LET f == oft[p][fd]
      nfd == FreeFd(p)
  IN
  /\ Ready(p) /\ Call
  /\ f /= NoFile /\ nfd /= -1
  /\ oft' = [oft EXCEPT ![p][nfd] = f]
  /\ UNCHANGED <<ref, alive, ftype, fino, fpipe, fwr, iref, pipes, readopen, writeopen, oops, procVars>>
-----------------------------------------------------------------------------
(* The effect of dropping k references to each slot s of a set (file_close *)
(* k[s] times): a slot whose count reaches 0 gets type FD_NONE, its inode  *)
(* is put, its pipe end is closed, and a Pipe with both ends closed is     *)
(* freed.  Closes commute, so a set of them is applied at once.            *)
Drop(k) ==
  LET dead == {s \in DOMAIN k : ref[s] - k[s] = 0 /\ ftype[s] /= "none"}
      rclosed == {fpipe[s] : s \in {d \in dead : ftype[d] = "pipe" /\ ~fwr[d]}}
      wclosed == {fpipe[s] : s \in {d \in dead : ftype[d] = "pipe" /\ fwr[d]}}
      ro == [q \in Pipes |-> readopen[q] /\ q \notin rclosed]
      wo == [q \in Pipes |-> writeopen[q] /\ q \notin wclosed]
  IN
  /\ ref' = [s \in Slots |-> IF s \in DOMAIN k /\ ftype[s] /= "none"
                               THEN ref[s] - k[s] ELSE ref[s]]
  /\ ftype' = [s \in Slots |-> IF s \in dead THEN "none" ELSE ftype[s]]
  /\ iref' = [i \in Inos |->
               iref[i] - Cardinality({s \in dead : ftype[s] = "inode" /\ fino[s] = i})]
  /\ readopen' = ro /\ writeopen' = wo
  /\ pipes' = {q \in pipes : ro[q] \/ wo[q]}

\* sys_openat of an existing inode i (namei, then file_alloc and fdalloc).
Open(p, i) ==
  LET s == FreeSlot
      fd == FreeFd(p)
  IN
  /\ Ready(p) /\ Call
  /\ IF s /= -1 /\ fd /= -1
       THEN /\ oft' = [oft EXCEPT ![p][fd] = s]
            /\ ref' = [ref EXCEPT ![s] = 1]
            /\ ftype' = [ftype EXCEPT ![s] = "inode"]
            /\ fino' = [fino EXCEPT ![s] = i]
            /\ iref' = [iref EXCEPT ![i] = @ + 1]
       ELSE \* failure: file_close(f) returns early on FD_NONE; inodes.put(ip)
            /\ ref' = IF s /= -1 THEN [ref EXCEPT ![s] = 1] ELSE ref
            /\ UNCHANGED <<oft, ftype, fino, iref>>
  /\ UNCHANGED <<alive, fpipe, fwr, pipes, readopen, writeopen, oops, procVars>>

\* sys_close: clear the descriptor, then file_close (NULL is not checked).
Close(p, fd) ==
  LET f == oft[p][fd] IN
  /\ Ready(p) /\ Call
  /\ oft' = [oft EXCEPT ![p][fd] = NoFile]
  /\ IF f = NoFile
       THEN oops' = TRUE /\ UNCHANGED <<ref, ftype, iref, readopen, writeopen, pipes>>
       ELSE Drop([x \in {f} |-> 1]) /\ UNCHANGED oops
  /\ UNCHANGED <<alive, fino, fpipe, fwr, procVars>>

\* sys_dup: fd2file, fdalloc, then file_dup.
Dup(p, fd) ==
  LET f == oft[p][fd]
      nfd == FreeFd(p)
  IN
  /\ Ready(p) /\ Call
  /\ f /= NoFile /\ nfd /= -1
  /\ oft' = [oft EXCEPT ![p][nfd] = f]
  /\ ref' = [ref EXCEPT ![f] = @ + 1]
  /\ UNCHANGED <<alive, ftype, fino, fpipe, fwr, iref, pipes, readopen, writeopen, oops, procVars>>

\* The processes find_proc reaches from root_proc through the children lists.
RECURSIVE Tree(_)
Tree(S) == LET T == S \cup UNION {Children(q) : q \in S}
           IN IF T = S THEN S ELSE Tree(T)
FindProc(v) == v \in Tree({Root})

\* fork: create_proc (init_proc clears killed and childexit), then
\* set_parent_to_this, file_dup of every open descriptor, start_proc.
Fork(p, c) ==
  /\ Ready(p) /\ c \in Procs \ (alive \cup zombie) /\ Call
  /\ alive' = alive \cup {c}
  /\ oft' = [oft EXCEPT ![c] = oft[p]]
  /\ ref' = [s \in Slots |-> ref[s] + Cardinality(FdsOf(p, s))]
  /\ parent' = [parent EXCEPT ![c] = p]
  /\ childexit' = [childexit EXCEPT ![c] = 0]
  /\ killed' = killed \ {c}
  /\ UNCHANGED <<ftype, fino, fpipe, fwr, iref, pipes, readopen, writeopen, oops,
                 zombie, wpc, panicked>>

\* Mutants of exit's tree update.
Reparent_Keep(p) == parent
ExitPosts_NoRootPost(p) == [childexit EXCEPT ![parent[p]] = @ + 1]
ExitPosts_OwnSem(p) ==
  [childexit EXCEPT ![Root] = @ + Cardinality(Children(p) \cap zombie), ![p] = @ + 1]

\* exit's loop: every child of p gets root_proc as parent.
Reparent(p) == [c \in Procs |-> IF c \in Children(p) THEN Root ELSE parent[c]]
\* post_sem(&root_proc.childexit) for each child already a ZOMBIE, then
\* post_sem(&parent->childexit) for p itself.
ExitPosts(p) ==
  [childexit EXCEPT ![Root] = @ + Cardinality(Children(p) \cap zombie),
                    ![parent[p]] = @ + 1]

\* exit (never root_proc, by its ASSERT): hand the children to root_proc,
\* file_close every descriptor, post the parent, and become a ZOMBIE.
Exit(p) ==
  /\ p \in alive /\ wpc[p] = "none" /\ p /= Root /\ Call
  /\ alive' = alive \ {p}
  /\ zombie' = zombie \cup {p}
  /\ parent' = Reparent(p)
  /\ childexit' = ExitPosts(p)
  /\ oft' = [oft EXCEPT ![p] = [fd \in Fds |-> NoFile]]
  /\ Drop([s \in {oft[p][fd] : fd \in Fds} \ {NoFile} |-> Cardinality(FdsOf(p, s))])
  /\ UNCHANGED <<fino, fpipe, fwr, oops, wpc, killed, panicked>>

FileVars == <<alive, oft, ref, ftype, fino, fpipe, fwr, iref, pipes, readopen,
              writeopen, oops>>
\* wait_sem takes a counted post; the scan comes next.
Take(p) == /\ childexit' = [childexit EXCEPT ![p] = @ - 1]
           /\ wpc' = [wpc EXCEPT ![p] = "scan"]

\* wait: -1 at once when p has no children; otherwise wait_sem on
\* p->childexit, which takes a post or sleeps.
WaitCall(p) ==
  /\ Ready(p) /\ Call
  /\ \/ Children(p) = {} /\ UNCHANGED <<childexit, wpc>>
     \/ Children(p) /= {} /\ childexit[p] > 0 /\ Take(p)
     \/ /\ Children(p) /= {} /\ childexit[p] = 0
        /\ wpc' = [wpc EXCEPT ![p] = "sleep"] /\ UNCHANGED childexit
  /\ UNCHANGED <<FileVars, zombie, parent, killed, panicked>>

\* A post wakes the sleeper in wait_sem.
WaitWake(p) ==
  /\ wpc[p] = "sleep" /\ childexit[p] > 0 /\ Take(p)
  /\ UNCHANGED <<FileVars, ops, zombie, parent, killed, panicked>>

\* The alertable wait_sem ends on kill: wait returns -1.
WaitKilled(p) ==
  /\ wpc[p] = "sleep" /\ p \in killed
  /\ wpc' = [wpc EXCEPT ![p] = "none"]
  /\ UNCHANGED <<FileVars, ops, zombie, parent, childexit, killed, panicked>>

\* Under processlock: free a ZOMBIE child (detach, kfree) and return its
\* pid, or return -1 when the list holds none.
WaitScan(p) ==
  /\ wpc[p] = "scan"
  /\ wpc' = [wpc EXCEPT ![p] = "none"]
  /\ \/ \E z \in Children(p) \cap zombie :
          /\ zombie' = zombie \ {z}
          /\ parent' = [parent EXCEPT ![z] = NoProc]
     \/ Children(p) \cap zombie = {} /\ UNCHANGED <<zombie, parent>>
  /\ UNCHANGED <<FileVars, ops, childexit, killed, panicked>>

\* console_intr's ^C: kill(thisproc()->pid) for a process other than
\* root_proc (pid 1); find_proc searches the tree from root_proc, and a
\* -1 from kill fails the ASSERT around it.
Kill(v) ==
  /\ v \in alive /\ v /= Root /\ Call
  /\ IF FindProc(v) THEN killed' = killed \cup {v} /\ UNCHANGED panicked
                    ELSE panicked' = TRUE /\ UNCHANGED killed
  /\ UNCHANGED <<FileVars, zombie, parent, childexit, wpc>>

(* sys_pipe2, first part: pipe_alloc takes two Files with file_alloc and a  *)
(* Pipe with kalloc.  When a File is missing, `bad:` calls file_close on   *)
(* the one it got, which returns early since its type is still FD_NONE.   *)
Pipe2NoFile(p) ==
  LET s0 == FreeSlot
      s1 == First({s \in Slots : ref[s] = 0} \ {s0})
  IN
  /\ Ready(p) /\ Call
  /\ s0 = -1 \/ s1 = -1
  /\ ref' = [s \in Slots |-> IF s \in {s0, s1} THEN 1 ELSE ref[s]]
  /\ UNCHANGED <<alive, oft, ftype, fino, fpipe, fwr, iref, pipes, readopen,
                 writeopen, oops, procVars>>

(* sys_pipe2 with both Files and a Pipe: init_pipe, init_read_pipe,        *)
(* init_write_pipe, then fdalloc(f0) and fdalloc(f1); if either fails, the *)
(* descriptor that was allocated is closed with sys_close and -1 returned. *)
Pipe2(p) ==
  LET s0 == FreeSlot
      s1 == First({s \in Slots : ref[s] = 0} \ {s0})
      fd0 == FreeFd(p)
      fd1 == First({fd \in Fds : oft[p][fd] = NoFile} \ {fd0})
  IN
  /\ Ready(p) /\ Call
  /\ s0 /= -1 /\ s1 /= -1
  /\ \E q \in Pipes \ pipes :
       LET made == /\ ftype' = [ftype EXCEPT ![s0] = "pipe", ![s1] = "pipe"]
                   /\ fpipe' = [fpipe EXCEPT ![s0] = q, ![s1] = q]
                   /\ fwr' = [fwr EXCEPT ![s0] = FALSE, ![s1] = TRUE]
       IN
       \/ /\ fd0 /= -1 /\ fd1 /= -1
          /\ made
          /\ ref' = [ref EXCEPT ![s0] = 1, ![s1] = 1]
          /\ oft' = [oft EXCEPT ![p][fd0] = s0, ![p][fd1] = s1]
          /\ pipes' = pipes \cup {q}
          /\ readopen' = [readopen EXCEPT ![q] = TRUE]
          /\ writeopen' = [writeopen EXCEPT ![q] = TRUE]
          /\ UNCHANGED iref
       \/ /\ fd0 /= -1 /\ fd1 = -1
          \* sys_close(fd0): the read end is closed, f1 keeps ref 1
          /\ ftype' = [ftype EXCEPT ![s0] = "none", ![s1] = "pipe"]
          /\ fpipe' = [fpipe EXCEPT ![s0] = q, ![s1] = q]
          /\ fwr' = [fwr EXCEPT ![s0] = FALSE, ![s1] = TRUE]
          /\ ref' = [ref EXCEPT ![s0] = 0, ![s1] = 1]
          /\ pipes' = pipes \cup {q}
          /\ readopen' = [readopen EXCEPT ![q] = FALSE]
          /\ writeopen' = [writeopen EXCEPT ![q] = TRUE]
          /\ UNCHANGED <<oft, iref>>
       \/ /\ fd0 = -1
          \* nothing to close: both Files keep ref 1
          /\ made
          /\ ref' = [ref EXCEPT ![s0] = 1, ![s1] = 1]
          /\ pipes' = pipes \cup {q}
          /\ readopen' = [readopen EXCEPT ![q] = TRUE]
          /\ writeopen' = [writeopen EXCEPT ![q] = TRUE]
          /\ UNCHANGED <<oft, iref>>
  /\ UNCHANGED <<alive, fino, oops, procVars>>

Next ==
  \/ \E p \in Procs :
       \/ \E i \in Inos : Open(p, i)
       \/ \E fd \in Fds : Close(p, fd) \/ Dup(p, fd)
       \/ \E c \in Procs : Fork(p, c)
       \/ Exit(p) \/ Pipe2(p) \/ Pipe2NoFile(p)
       \/ WaitCall(p) \/ WaitWake(p) \/ WaitKilled(p) \/ WaitScan(p)
       \/ Kill(p)
  \/ ops = MaxOps /\ UNCHANGED vars

Spec == Init /\ [][Next]_vars
\* A process woken in wait, or holding processlock for its scan, is
\* runnable and is eventually scheduled; nothing forces a system call.
FairSpec == Spec /\ \A p \in Procs : WF_vars(WaitWake(p)) /\ WF_vars(WaitScan(p))
-----------------------------------------------------------------------------
TypeOK ==
  /\ alive \subseteq Procs
  /\ oft \in [Procs -> [Fds -> Slots \cup {NoFile}]]
  /\ ref \in [Slots -> Nat] /\ ftype \in [Slots -> {"none", "inode", "pipe"}]
  /\ fino \in [Slots -> Inos] /\ fpipe \in [Slots -> Pipes]
  /\ fwr \in [Slots -> BOOLEAN] /\ iref \in [Inos -> Nat]
  /\ pipes \subseteq Pipes /\ oops \in BOOLEAN
  /\ zombie \subseteq Procs /\ alive \cap zombie = {}
  /\ parent \in [Procs -> Procs \cup {NoProc}]
  /\ childexit \in [Procs -> Nat] /\ killed \subseteq Procs
  /\ wpc \in [Procs -> {"none", "sleep", "scan"}]

\* Descriptors, over all processes, naming slot s.
Holders(s) == {pf \in alive \X Fds : oft[pf[1]][pf[2]] = s}

(* File.ref counts exactly the descriptors that name the File, across      *)
(* fork, dup, close and exit: no File stays allocated once no descriptor   *)
(* names it, and none is reused while named.                               *)
FileRefExact == \A s \in Slots : ref[s] = Cardinality(Holders(s))

(* The weaker half that survives the leaks: a File is never back on the   *)
(* free list (ref 0, taken by file_alloc) while a descriptor of some      *)
(* process still names it, whatever dup, fork, close and exit did.        *)
FileRefCovers == \A s \in Slots : ref[s] >= Cardinality(Holders(s))

(* A Pipe's open flags say whether a File of that end is still open, and a *)
(* Pipe is allocated exactly while one of its ends is open (pipe_close     *)
(* flips the end of the File being closed and frees the Pipe with both    *)
(* ends closed).                                                          *)
OpenEnd(q, w) == \E s \in Slots : ref[s] > 0 /\ ftype[s] = "pipe" /\ fpipe[s] = q /\ fwr[s] = w
PipeEndsExact ==
  \A q \in Pipes :
    /\ q \in pipes <=> (readopen[q] \/ writeopen[q])
    /\ q \in pipes => (readopen[q] <=> OpenEnd(q, FALSE)) /\ (writeopen[q] <=> OpenEnd(q, TRUE))

(* The inode references held through the file table equal the open Files  *)
(* of each inode: file_close puts the inode exactly when the last         *)
(* reference to the File goes.                                            *)
InodeRefExact ==
  \A i \in Inos : iref[i] = Cardinality({s \in Slots : ref[s] > 0 /\ ftype[s] = "inode" /\ fino[s] = i})

(* Spec 4.7: an invalid descriptor makes the system call return -1; no     *)
(* system call dereferences a NULL File.                                   *)
NoNullFile == ~oops

(* Every ZOMBIE is counted exactly once on the childexit of the process   *)
(* whose list holds it: exit posts its parent, and when a process exits   *)
(* with ZOMBIE children, root_proc, which adopts them, gets a post for     *)
(* each.  A wait that passed wait_sem then always finds a child to free,  *)
(* and one that sleeps is never left asleep beside a ZOMBIE child.        *)
ZombiesCounted ==
  \A p \in alive :
    childexit[p] + (IF wpc[p] = "scan" THEN 1 ELSE 0) = Cardinality(Children(p) \cap zombie)

(* Every process, running or ZOMBIE, stays on the tree find_proc searches *)
(* from root_proc, across exits of its ancestors and the frees of wait:   *)
(* kill of a running process always finds it, and its ASSERT holds.       *)
InTree == (alive \cup zombie) \subseteq Tree({Root}) /\ ~panicked

(* A wait that sleeps on childexit while a child of the caller is already *)
(* a ZOMBIE returns: the post that child's exit (or its adoption by        *)
(* root_proc) left is there to wake it, so init's wait loop never hangs   *)
(* beside an orphan it should free.                                        *)
WaitReturns ==
  \A p \in Procs :
    (wpc[p] = "sleep" /\ Children(p) \cap zombie /= {}) ~> wpc[p] = "none"
=============================================================================
