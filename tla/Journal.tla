------------------------------ MODULE Journal ------------------------------
(***************************************************************************)
(* The write-ahead log of the block cache (src/src/fs/cache.c):            *)
(* cache_begin_op, cache_sync, cache_end_op (group commit, log body,       *)
(* committed header, install, truncate) and the replay done by            *)
(* init_bcache after a crash.                                              *)
(*                                                                         *)
(* Each thread runs transactions: begin_op, a few (acquire block, modify,  *)
(* sync, release) steps, end_op.  Spinlock critical sections are single    *)
(* steps; a thread is a separate step wherever the code releases a lock    *)
(* or sleeps.  Block payloads are abstracted to the identity of the write  *)
(* that produced them.  Every cached block stays resident here (eviction   *)
(* is the subject of the BlockCache module).                               *)
(***************************************************************************)
EXTENDS Naturals, Sequences, FiniteSets, FiniteSetsExt, SequencesExt, Relation

CONSTANTS
  Threads,            \* kernel threads issuing file-system operations
  Blocks,             \* home block numbers written through the log
  NoThread,           \* "nobody holds it"
  LOG_MAX_SIZE,       \* entries of LogHeader.block_no
  OP_MAX_NUM_BLOCKS,  \* per-transaction block budget (ctx->rm)
  MaxTx,              \* bound: transactions per thread
  MaxWrites,          \* bound: block writes per transaction
  MaxCrashes          \* bound: crashes (power failures)

ASSUME NoThread \notin Threads
\* Callers size a transaction to its budget (file_write splits by MAX_OP_WRITE_N).
ASSUME MaxWrites <= OP_MAX_NUM_BLOCKS

VARIABLES
  disk,         \* home location of each block on the device
  logDisk,      \* log body slots log_start+1 .. on the device
  diskHdr,      \* committed LogHeader on the device (block_no[0..num_blocks))
  cache,        \* payload of each block in the buffer cache
  pinned,       \* Block.pinned
  holder,       \* thread holding the block's sleep lock (Block.lock)
  header,       \* in-memory LogHeader
  outstanding,  \* log.outstanding
  logLock,      \* holder of log_lock
  semVal,       \* log.log_sem value
  pc, rm, cur, ci, txCount, wIdx,
  phase,        \* "run" or "recover" (init_bcache after a crash)
  recIdx,       \* replay loop index of init_bcache
  crashes,
  committed     \* ghost: block contents as of the last committed header

vars == <<disk, logDisk, diskHdr, cache, pinned, holder, header, outstanding,
          logLock, semVal, pc, rm, cur, ci, txCount, wIdx, phase, recIdx,
          crashes, committed>>

Slots == 1..LOG_MAX_SIZE
Val == [th : Threads \cup {NoThread}, tx : Nat, w : Nat]
V0 == [th |-> NoThread, tx |-> 0, w |-> 0]      \* content before any write

PCs == {"idle", "begin", "semwait", "sleep", "op", "hold", "copy",
        "install", "write", "relock", "panic"}

Free(b) == holder[b] = NoThread
InHeader(b, h) == \E i \in 1..Len(h) : h[i] = b

(***************************************************************************)
(* log_sem: a counting semaphore whose sleepers are the threads in         *)
(* "sleep".  post_sem wakes one sleeper when the value was negative;       *)
(* post_all_sem posts while the value is negative, i.e. wakes exactly the  *)
(* threads already asleep.                                                 *)
(***************************************************************************)
PostSem(p) ==
  /\ semVal' = semVal + 1
  /\ IF semVal < 0
       THEN \E s \in {u \in Threads : p[u] = "sleep"} : pc' = [p EXCEPT ![s] = "begin"]
       ELSE pc' = p

PostAllSem(p) ==
  /\ semVal' = IF semVal < 0 THEN 0 ELSE semVal
  /\ pc' = [u \in Threads |-> IF p[u] = "sleep" THEN "begin" ELSE p[u]]

Init ==
  /\ disk = [b \in Blocks |-> V0]
  /\ logDisk = [i \in Slots |-> V0]
  /\ diskHdr = <<>>
  /\ cache = [b \in Blocks |-> V0]
  /\ pinned = [b \in Blocks |-> FALSE]
  /\ holder = [b \in Blocks |-> NoThread]
  /\ header = <<>>
  /\ outstanding = 0
  /\ logLock = NoThread
  /\ semVal = 0
  /\ pc = [t \in Threads |-> "idle"]
  /\ rm = [t \in Threads |-> 0]
  /\ cur = [t \in Threads |-> CHOOSE b \in Blocks : TRUE]
  /\ ci = [t \in Threads |-> 1]
  /\ txCount = [t \in Threads |-> 0]
  /\ wIdx = [t \in Threads |-> 0]
  /\ phase = "run"
  /\ recIdx = 1
  /\ crashes = 0
  /\ committed = [b \in Blocks |-> V0]

Running == phase = "run"
Go(t, from, to) == pc[t] = from /\ pc' = [pc EXCEPT ![t] = to]
DiskVars == <<disk, logDisk, diskHdr, committed>>

\* A system call starts a transaction (not forced: no fairness).
Start(t) ==
  /\ Running /\ txCount[t] < MaxTx
  /\ Go(t, "idle", "begin")
  /\ wIdx' = [wIdx EXCEPT ![t] = 0]
  /\ UNCHANGED <<DiskVars, cache, pinned, holder, header, outstanding, logLock,
                 semVal, rm, cur, ci, txCount, phase, recIdx, crashes>>

\* Bug variant: admission test with < instead of <= (one slot too generous).
BeginOp_StrictLess(t) ==
  /\ Running /\ pc[t] = "begin" /\ logLock = NoThread
  /\ rm' = [rm EXCEPT ![t] = OP_MAX_NUM_BLOCKS]
  /\ IF LOG_MAX_SIZE < Len(header) + (outstanding + 1) * OP_MAX_NUM_BLOCKS
       THEN pc' = [pc EXCEPT ![t] = "semwait"] /\ UNCHANGED outstanding
       ELSE pc' = [pc EXCEPT ![t] = "op"] /\ outstanding' = outstanding + 1
  /\ UNCHANGED <<DiskVars, cache, pinned, holder, header, logLock, semVal, cur,
                 ci, txCount, wIdx, phase, recIdx, crashes>>

(* cache_begin_op: under log_lock, admit when the reserved budget fits,    *)
(* otherwise release log_lock and go on to wait_sem(&log.log_sem).         *)
BeginOp(t) ==
  /\ Running /\ pc[t] = "begin" /\ logLock = NoThread
  /\ rm' = [rm EXCEPT ![t] = OP_MAX_NUM_BLOCKS]
  /\ IF LOG_MAX_SIZE <= Len(header) + (outstanding + 1) * OP_MAX_NUM_BLOCKS
       THEN /\ pc' = [pc EXCEPT ![t] = "semwait"]
            /\ UNCHANGED outstanding
       ELSE /\ pc' = [pc EXCEPT ![t] = "op"]
            /\ outstanding' = outstanding + 1
  /\ UNCHANGED <<DiskVars, cache, pinned, holder, header, logLock, semVal, cur,
                 ci, txCount, wIdx, phase, recIdx, crashes>>

\* wait_sem: take a post if one is pending, else sleep until posted.
WaitSem(t) ==
  /\ Running /\ pc[t] = "semwait"
  /\ semVal' = semVal - 1
  /\ pc' = [pc EXCEPT ![t] = IF semVal > 0 THEN "begin" ELSE "sleep"]
  /\ UNCHANGED <<DiskVars, cache, pinned, holder, header, outstanding, logLock,
                 rm, cur, ci, txCount, wIdx, phase, recIdx, crashes>>

\* cache_acquire(b) inside an operation: sleeps until the block is free.
Acquire(t, b) ==
  /\ Running /\ wIdx[t] < MaxWrites /\ Free(b)
  /\ Go(t, "op", "hold")
  /\ holder' = [holder EXCEPT ![b] = t]
  /\ cur' = [cur EXCEPT ![t] = b]
  /\ UNCHANGED <<DiskVars, cache, pinned, header, outstanding, logLock, semVal,
                 rm, ci, txCount, wIdx, phase, recIdx, crashes>>

\* Bug variant: cache_sync pins the block but never records it in the header.
Sync_NoAppend(t) ==
  LET b == cur[t] IN
  /\ Running /\ pc[t] = "hold" /\ logLock = NoThread
  /\ cache' = [cache EXCEPT ![b] = [th |-> t, tx |-> txCount[t], w |-> wIdx[t] + 1]]
  /\ wIdx' = [wIdx EXCEPT ![t] = @ + 1]
  /\ pinned' = [pinned EXCEPT ![b] = TRUE]
  /\ pc' = [pc EXCEPT ![t] = "op"]
  /\ holder' = [holder EXCEPT ![b] = NoThread]
  /\ UNCHANGED <<DiskVars, header, rm, outstanding, logLock, semVal, cur, ci,
                 txCount, phase, recIdx, crashes>>

(* The caller modifies the payload, then cache_sync(ctx, b) under log_lock *)
(* pins b and records it in the header once (decrementing ctx->rm), with  *)
(* the PANIC check made after the append; then cache_release(b).           *)
Sync(t) ==
  LET b == cur[t]
      new == ~InHeader(b, header)
      hdr == IF new THEN Append(header, b) ELSE header
      bad == new /\ (rm[t] <= 0 \/ Len(hdr) >= LOG_MAX_SIZE)
  IN
  /\ Running /\ pc[t] = "hold" /\ logLock = NoThread
  /\ cache' = [cache EXCEPT ![b] = [th |-> t, tx |-> txCount[t], w |-> wIdx[t] + 1]]
  /\ wIdx' = [wIdx EXCEPT ![t] = @ + 1]
  /\ pinned' = [pinned EXCEPT ![b] = TRUE]
  /\ header' = hdr
  /\ rm' = IF new /\ ~bad THEN [rm EXCEPT ![t] = @ - 1] ELSE rm
  /\ pc' = [pc EXCEPT ![t] = IF bad THEN "panic" ELSE "op"]
  /\ holder' = IF bad THEN holder ELSE [holder EXCEPT ![b] = NoThread]
  /\ UNCHANGED <<DiskVars, outstanding, logLock, semVal, cur, ci, txCount,
                 phase, recIdx, crashes>>

EndOp(t) ==
  /\ Running /\ pc[t] = "op" /\ logLock = NoThread
  /\ outstanding' = outstanding - 1
  /\ IF outstanding - 1 > 0
       THEN /\ PostSem([pc EXCEPT ![t] = "idle"])
            /\ txCount' = [txCount EXCEPT ![t] = @ + 1]
            /\ UNCHANGED <<logLock, ci>>
       ELSE /\ pc' = [pc EXCEPT ![t] = "copy"]
            /\ logLock' = t
            /\ ci' = [ci EXCEPT ![t] = 1]
            /\ UNCHANGED <<semVal, txCount>>
  /\ UNCHANGED <<DiskVars, cache, pinned, holder, header, rm, cur, wIdx, phase,
                 recIdx, crashes>>

\* copy_block(header.block_no[i], log_start+i+1): log body write.
CommitCopy(t) ==
  /\ Running /\ pc[t] = "copy" /\ ci[t] <= Len(header)
  /\ Free(header[ci[t]])
  /\ logDisk' = [logDisk EXCEPT ![ci[t]] = cache[header[ci[t]]]]
  /\ ci' = [ci EXCEPT ![t] = @ + 1]
  /\ UNCHANGED <<disk, diskHdr, committed, cache, pinned, holder, header,
                 outstanding, logLock, semVal, pc, rm, cur, txCount, wIdx,
                 phase, recIdx, crashes>>

\* Bug variant: the install loop restarts at C's index 0.
CommitHeader_IndexFromZero(t) ==
  /\ Running /\ pc[t] = "copy" /\ ci[t] > Len(header)
  /\ diskHdr' = header
  /\ committed' = [b \in Blocks |-> IF InHeader(b, header) THEN cache[b]
                                                            ELSE committed[b]]
  /\ ci' = [ci EXCEPT ![t] = 0]
  /\ pc' = [pc EXCEPT ![t] = "install"]
  /\ UNCHANGED <<disk, logDisk, cache, pinned, holder, header, outstanding,
                 logLock, semVal, rm, cur, txCount, wIdx, phase, recIdx, crashes>>

\* write_header(): the commit point.
CommitHeader(t) ==
  /\ Running /\ pc[t] = "copy" /\ ci[t] > Len(header)
  /\ diskHdr' = header
  /\ committed' = [b \in Blocks |-> IF InHeader(b, header) THEN cache[b]
                                                            ELSE committed[b]]
  /\ ci' = [ci EXCEPT ![t] = 1]
  /\ pc' = [pc EXCEPT ![t] = "install"]
  /\ UNCHANGED <<disk, logDisk, cache, pinned, holder, header, outstanding,
                 logLock, semVal, rm, cur, txCount, wIdx, phase, recIdx, crashes>>

(* Install loop: cache_acquire(block_no[i]) with log_lock held, then       *)
(* release log_lock around device_write.                                   *)
InstallAcquire(t) ==
  /\ Running /\ pc[t] = "install" /\ ci[t] <= Len(header)
  /\ Free(header[ci[t]])
  /\ holder' = [holder EXCEPT ![header[ci[t]]] = t]
  /\ cur' = [cur EXCEPT ![t] = header[ci[t]]]
  /\ logLock' = NoThread
  /\ pc' = [pc EXCEPT ![t] = "write"]
  /\ UNCHANGED <<DiskVars, cache, pinned, header, outstanding, semVal, rm, ci,
                 txCount, wIdx, phase, recIdx, crashes>>

\* Bug variant: the install loop forgets device_write.
InstallWrite_NoDeviceWrite(t) ==
  /\ Running /\ pc[t] = "write"
  /\ pc' = [pc EXCEPT ![t] = "relock"]
  /\ UNCHANGED <<disk, logDisk, diskHdr, committed, cache, pinned, holder, header,
                 outstanding, logLock, semVal, rm, cur, ci, txCount, wIdx,
                 phase, recIdx, crashes>>

InstallWrite(t) ==
  /\ Running /\ pc[t] = "write"
  /\ disk' = [disk EXCEPT ![cur[t]] = cache[cur[t]]]
  /\ pc' = [pc EXCEPT ![t] = "relock"]
  /\ UNCHANGED <<logDisk, diskHdr, committed, cache, pinned, holder, header,
                 outstanding, logLock, semVal, rm, cur, ci, txCount, wIdx,
                 phase, recIdx, crashes>>

\* re-take log_lock, unpin, cache_release, next i.
InstallRelock(t) ==
  /\ Running /\ pc[t] = "relock" /\ logLock = NoThread
  /\ logLock' = t
  /\ pinned' = [pinned EXCEPT ![cur[t]] = FALSE]
  /\ holder' = [holder EXCEPT ![cur[t]] = NoThread]
  /\ ci' = [ci EXCEPT ![t] = @ + 1]
  /\ pc' = [pc EXCEPT ![t] = "install"]
  /\ UNCHANGED <<DiskVars, cache, header, outstanding, semVal, rm, cur, txCount,
                 wIdx, phase, recIdx, crashes>>

\* header.num_blocks = 0; write_header(); post_all_sem; release log_lock.
Truncate(t) ==
  /\ Running /\ pc[t] = "install" /\ ci[t] > Len(header)
  /\ header' = <<>>
  /\ diskHdr' = <<>>
  /\ PostAllSem([pc EXCEPT ![t] = "idle"])
  /\ logLock' = NoThread
  /\ txCount' = [txCount EXCEPT ![t] = @ + 1]
  /\ UNCHANGED <<disk, logDisk, committed, cache, pinned, holder, outstanding,
                 rm, cur, ci, wIdx, phase, recIdx, crashes>>

(* Power failure: memory is lost; init_bcache then reads the header.       *)
(* A transaction cut short counts against its thread's bound.              *)
Crash ==
  /\ crashes < MaxCrashes
  /\ crashes' = crashes + 1
  /\ phase' = "recover"
  /\ header' = diskHdr
  /\ recIdx' = 1
  /\ pinned' = [b \in Blocks |-> FALSE]
  /\ holder' = [b \in Blocks |-> NoThread]
  /\ outstanding' = 0
  /\ logLock' = NoThread
  /\ semVal' = 0
  /\ txCount' = [t \in Threads |-> IF pc[t] \in {"idle", "begin", "semwait", "sleep"}
                                     THEN txCount[t] ELSE txCount[t] + 1]
  /\ pc' = [t \in Threads |-> "idle"]
  /\ UNCHANGED <<DiskVars, cache, rm, cur, ci, wIdx>>

\* init_bcache replay: copy_block(log_start+i+1, header.block_no[i]).
RecoverCopy ==
  /\ phase = "recover" /\ recIdx <= Len(header)
  /\ disk' = [disk EXCEPT ![header[recIdx]] = logDisk[recIdx]]
  /\ recIdx' = recIdx + 1
  /\ UNCHANGED <<logDisk, diskHdr, committed, cache, pinned, holder, header,
                 outstanding, logLock, semVal, pc, rm, cur, ci, txCount, wIdx,
                 phase, crashes>>

\* header.num_blocks = 0; write_header(); the cache now mirrors the disk.
RecoverDone ==
  /\ phase = "recover" /\ recIdx > Len(header)
  /\ header' = <<>>
  /\ diskHdr' = <<>>
  /\ cache' = disk
  /\ phase' = "run"
  /\ UNCHANGED <<disk, logDisk, committed, pinned, holder, outstanding, logLock,
                 semVal, pc, rm, cur, ci, txCount, wIdx, recIdx, crashes>>

\* Every thread has run all its transactions: the system rests.
Finished ==
  /\ Running
  /\ \A t \in Threads : pc[t] = "idle" /\ txCount[t] = MaxTx
  /\ UNCHANGED vars

ThreadStep(t) ==
  \/ BeginOp(t) \/ WaitSem(t) \/ \E b \in Blocks : Acquire(t, b)
  \/ Sync(t) \/ EndOp(t) \/ CommitCopy(t) \/ CommitHeader(t)
  \/ InstallAcquire(t) \/ InstallWrite(t) \/ InstallRelock(t) \/ Truncate(t)

Next ==
  \/ \E t \in Threads : Start(t) \/ ThreadStep(t)
  \/ Crash \/ RecoverCopy \/ RecoverDone
  \/ Finished

Fairness ==
  /\ \A t \in Threads : WF_vars(ThreadStep(t))
  /\ WF_vars(RecoverCopy) /\ WF_vars(RecoverDone)

Spec == Init /\ [][Next]_vars /\ Fairness

-----------------------------------------------------------------------------
(* Properties *)

TypeOK ==
  /\ disk \in [Blocks -> Val] /\ cache \in [Blocks -> Val]
  /\ logDisk \in [Slots -> Val] /\ committed \in [Blocks -> Val]
  /\ diskHdr \in Seq(Blocks) /\ header \in Seq(Blocks)
  /\ pinned \in [Blocks -> BOOLEAN]
  /\ holder \in [Blocks -> Threads \cup {NoThread}]
  /\ outstanding \in Nat /\ semVal \in Int
  /\ logLock \in Threads \cup {NoThread}
  /\ pc \in [Threads -> PCs] /\ rm \in [Threads -> 0..OP_MAX_NUM_BLOCKS]
  /\ cur \in [Threads -> Blocks] /\ ci \in [Threads -> Nat \ {0}]
  /\ phase \in {"run", "recover"}

\* What init_bcache would leave on the home blocks if power failed now.
Replay ==
  [b \in Blocks |->
     LET idx == {i \in 1..Len(diskHdr) : diskHdr[i] = b}
     IN IF idx = {} THEN disk[b] ELSE logDisk[Max(idx)]]

(* Crash consistency of cache_end_op/init_bcache: at every instant, a      *)
(* crash followed by replay yields exactly the contents of the last group  *)
(* whose header reached the disk: no block of an uncommitted transaction   *)
(* is ever on its home location, and no committed one is lost.            *)
CrashConsistent == Replay = committed

(* Durability of group commit: once no transaction is running or           *)
(* committing, every block synced through the log has reached its home     *)
(* location and is unpinned (end_op returns only after installing the      *)
(* group, so no synced write may stay only in the cache).                  *)
Quiescent ==
  /\ Running /\ outstanding = 0 /\ logLock = NoThread
  /\ \A t \in Threads : pc[t] \in {"idle", "begin", "semwait", "sleep"}
QuiescentDurable ==
  Quiescent => \A b \in Blocks : disk[b] = cache[b] /\ ~pinned[b]

(* cache_begin_op's admission reserves enough log space that cache_sync    *)
(* never reaches its PANIC (rm exhausted or header full).                  *)
NoSyncPanic == \A t \in Threads : pc[t] /= "panic"

\* t spins on log_lock, or sleeps on the sleep lock of a block it must take.
NeedsLogLock(t) == pc[t] \in {"begin", "hold", "relock"}
BlockWanted(t) ==
  IF pc[t] \in {"copy", "install"} /\ ci[t] <= Len(header) THEN {header[ci[t]]} ELSE {}
WaitsFor ==
  [p \in Threads \X Threads |->
     \/ NeedsLogLock(p[1]) /\ logLock = p[2]
     \/ \E b \in BlockWanted(p[1]) : holder[b] = p[2]]

(* No deadlock between log_lock and block sleep locks: cache_end_op takes  *)
(* block locks while holding log_lock, and cache_sync takes log_lock while *)
(* its caller holds a block; no set of threads may wait on each other in a *)
(* cycle.                                                                  *)
NoWaitCycle ==
  Running => IsIrreflexive(TransitiveClosure(WaitsFor, Threads), Threads)

(* Every cache_begin_op that is called returns, and every transaction      *)
(* that starts ends (log_sem wake-ups are not lost; no thread sleeps      *)
(* holding log_lock on a block another thread holds).                     *)
OpTerminates == \A t \in Threads : (pc[t] = "begin") ~> (pc[t] = "idle")
-----------------------------------------------------------------------------
(* Refinement mapping onto AtomicDisk: memory is the buffer cache, the     *)
(* durable contents are what init_bcache would replay now, and the pending *)
(* group is the in-memory header while no committed header is on disk.    *)
PendingGroup ==
  IF Running /\ diskHdr = <<>> THEN {b \in Blocks : InHeader(b, header)} ELSE {}

AD == INSTANCE AtomicDisk
        WITH mem <- cache, durable <- Replay, pending <- PendingGroup, up <- Running

(* cache_sync, cache_end_op, the crash and init_bcache together implement  *)
(* atomic group commit: every step of the journal either leaves the        *)
(* replayable contents alone or is one of AtomicDisk's write, commit,      *)
(* crash and recover steps.                                                *)
RefinesAtomicDisk == AD!ASpec
=============================================================================
