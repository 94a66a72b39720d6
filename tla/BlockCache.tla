----------------------------- MODULE BlockCache -----------------------------
(***************************************************************************)
(* The block cache of src/src/fs/cache.c: cache_acquire (hit and miss      *)
(* paths), manage_block_num (eviction) and cache_release.                  *)
(*                                                                         *)
(* Block structs come from a small kalloc pool (Entries); an entry is      *)
(* listed (in the LRU list, head first), in flight (allocated and counted  *)
(* in block_num by a miss that has not yet inserted it) or free.  A freed  *)
(* entry keeps its stale fields until kalloc hands it out again and       *)
(* init_block resets it, as heap memory does.  Each critical section of    *)
(* the cache `lock` is one step; a thread is a separate step where it      *)
(* releases the lock (device_read, wait_sem on Block.lock).  What the      *)
(* caller does while holding a block is reduced to its effect on the      *)
(* cache: pinning it through cache_sync, or writing it home and unpinning  *)
(* it as cache_end_op's install loop does.                                 *)
(***************************************************************************)
EXTENDS Naturals, Sequences, FiniteSets, SequencesExt

CONSTANTS
  Threads,             \* kernel threads calling cache_acquire
  BlockNos,            \* block numbers
  Entries,             \* kalloc-able Block structs
  NoBlock,             \* block_no of an entry never used
  Access,              \* Access[t]: block numbers thread t acquires
  WarmList,            \* blocks cached at the start, head first
  EVICTION_THRESHOLD,  \* soft bound on block_num
  MaxOps               \* bound: acquires per thread

ASSUME /\ WarmList \in Seq(BlockNos) /\ Len(WarmList) <= Cardinality(Entries)
       /\ Access \in [Threads -> SUBSET BlockNos]

VARIABLES
  lst,       \* the list at `head`, most recently used first
  inflight,  \* entries allocated by a miss, not yet inserted
  bno,       \* Block.block_no
  acq,       \* Block.acquired
  pin,       \* Block.pinned
  sem,       \* value of Block.lock (a sleep lock: semaphore of 1)
  waitq,     \* threads asleep in Block.lock's queue
  blockNum,  \* block_num
  pc, ent, want, ops

vars == <<lst, inflight, bno, acq, pin, sem, waitq, blockNum, pc, ent, want,
          ops>>

EntryOf == CHOOSE f \in [1..Len(WarmList) -> Entries] : IsInjective(f)

Init ==
  /\ lst = [i \in 1..Len(WarmList) |-> EntryOf[i]]
  /\ inflight = {}
  /\ bno = [e \in Entries |-> IF \E i \in DOMAIN lst : lst[i] = e
                                THEN WarmList[CHOOSE i \in DOMAIN lst : lst[i] = e]
                                ELSE NoBlock]
  /\ acq = [e \in Entries |-> FALSE]
  /\ pin = [e \in Entries |-> FALSE]
  /\ sem = [e \in Entries |-> 1]
  /\ waitq = [e \in Entries |-> {}]
  /\ blockNum = Len(WarmList)
  /\ pc = [t \in Threads |-> "idle"]
  /\ ent = [t \in Threads |-> CHOOSE e \in Entries : TRUE]
  /\ want = [t \in Threads |-> NoBlock]
  /\ ops = [t \in Threads |-> 0]

Listed == ToSet(lst)
Allocated == Listed \cup inflight

\* The first entry from the head with the block number (the _for_in_list scan).
Lookup(b) == SelectInSeq(lst, LAMBDA e : bno[e] = b)

\* The test of manage_block_num: neither acquired nor pinned.
Evictable(e) == ~acq[e] /\ ~pin[e]

(* manage_block_num: walk from the tail (head.prev) towards the head while *)
(* block_num >= EVICTION_THRESHOLD, freeing every entry neither acquired  *)
(* nor pinned; s is the part of the list not yet walked, n is block_num.  *)
RECURSIVE EvictWalk(_, _)
EvictWalk(s, n) ==
  IF s = <<>> \/ n < EVICTION_THRESHOLD
    THEN [kept |-> s, num |-> n]
    ELSE LET e == Last(s)
             r == EvictWalk(Front(s), IF Evictable(e) THEN n - 1 ELSE n)
         IN IF Evictable(e) THEN r ELSE [kept |-> r.kept \o <<e>>, num |-> r.num]

\* post_sem(&block->lock): wake the first sleeper, if any.
PostBlock(e, p) ==
  /\ sem' = [sem EXCEPT ![e] = @ + 1]
  /\ IF waitq[e] = {}
       THEN pc' = p /\ waitq' = waitq
       ELSE \E s \in waitq[e] : /\ pc' = [p EXCEPT ![s] = "relist"]
                                /\ waitq' = [waitq EXCEPT ![e] = @ \ {s}]
-----------------------------------------------------------------------------
(* cache_acquire, hit: mark the entry acquired, drop `lock`, then wait_sem *)
(* on its sleep lock.                                                      *)
AcquireHit(t, b) ==
  /\ pc[t] = "idle" /\ ops[t] < MaxOps /\ b \in Access[t]
  /\ Lookup(b) /= 0
  /\ acq' = [acq EXCEPT ![lst[Lookup(b)]] = TRUE]
  /\ ent' = [ent EXCEPT ![t] = lst[Lookup(b)]]
  /\ want' = [want EXCEPT ![t] = b]
  /\ ops' = [ops EXCEPT ![t] = @ + 1]
  /\ pc' = [pc EXCEPT ![t] = "hitwait"]
  /\ UNCHANGED <<lst, inflight, bno, pin, sem, waitq, blockNum>>

\* Bug variant: the miss path returns without taking the new block's lock.
AcquireMiss_NoLock(t, b) ==
  LET w == EvictWalk(lst, blockNum)
      freed == Listed \ ToSet(w.kept)
  IN
  /\ pc[t] = "idle" /\ ops[t] < MaxOps /\ b \in Access[t]
  /\ Lookup(b) = 0
  /\ \E f \in (Entries \ Allocated) \cup freed :
       /\ lst' = w.kept
       /\ inflight' = inflight \cup {f}
       /\ bno' = [bno EXCEPT ![f] = b]
       /\ acq' = [acq EXCEPT ![f] = TRUE]
       /\ pin' = [pin EXCEPT ![f] = FALSE]
       /\ sem' = [sem EXCEPT ![f] = 1]
       /\ waitq' = [waitq EXCEPT ![f] = {}]
       /\ ent' = [ent EXCEPT ![t] = f]
  /\ blockNum' = w.num + 1
  /\ want' = [want EXCEPT ![t] = b]
  /\ ops' = [ops EXCEPT ![t] = @ + 1]
  /\ pc' = [pc EXCEPT ![t] = "read"]

(* cache_acquire, miss: manage_block_num, kalloc + init_block, wait_sem on *)
(* the fresh lock, block_num++, then drop `lock` for device_read.          *)
AcquireMiss(t, b) ==
  LET w == EvictWalk(lst, blockNum)
      freed == Listed \ ToSet(w.kept)
  IN
  /\ pc[t] = "idle" /\ ops[t] < MaxOps /\ b \in Access[t]
  /\ Lookup(b) = 0
  /\ \E f \in (Entries \ Allocated) \cup freed :
       /\ lst' = w.kept
       /\ inflight' = inflight \cup {f}
       /\ bno' = [bno EXCEPT ![f] = b]
       /\ acq' = [acq EXCEPT ![f] = TRUE]
       /\ pin' = [pin EXCEPT ![f] = FALSE]
       /\ sem' = [sem EXCEPT ![f] = 0]
       /\ waitq' = [waitq EXCEPT ![f] = {}]
       /\ ent' = [ent EXCEPT ![t] = f]
  /\ blockNum' = w.num + 1
  /\ want' = [want EXCEPT ![t] = b]
  /\ ops' = [ops EXCEPT ![t] = @ + 1]
  /\ pc' = [pc EXCEPT ![t] = "read"]

\* wait_sem(&block->lock): take it if free, else sleep in its queue.
HitWait(t) ==
  LET e == ent[t] IN
  /\ pc[t] = "hitwait"
  /\ sem' = [sem EXCEPT ![e] = @ - 1]
  /\ IF sem[e] > 0
       THEN pc' = [pc EXCEPT ![t] = "relist"] /\ waitq' = waitq
       ELSE pc' = [pc EXCEPT ![t] = "sleep"] /\ waitq' = [waitq EXCEPT ![e] = @ \cup {t}]
  /\ UNCHANGED <<lst, inflight, bno, acq, pin, blockNum, ent, want, ops>>

(* Under `lock` again: _detach_from_list, _insert_into_list at the head.   *)
(* (Detaching an entry that is no longer listed is undefined in C; here    *)
(* it is simply put back at the head.)                                    *)
Relist(t) ==
  /\ pc[t] = "relist"
  /\ lst' = <<ent[t]>> \o Remove(lst, ent[t])
  /\ pc' = [pc EXCEPT ![t] = "hold"]
  /\ UNCHANGED <<inflight, bno, acq, pin, sem, waitq, blockNum, ent, want, ops>>

\* After device_read: under `lock`, _insert_into_list at the head.
MissInsert(t) ==
  /\ pc[t] = "read"
  /\ lst' = <<ent[t]>> \o lst
  /\ inflight' = inflight \ {ent[t]}
  /\ pc' = [pc EXCEPT ![t] = "hold"]
  /\ UNCHANGED <<bno, acq, pin, sem, waitq, blockNum, ent, want, ops>>

\* Bug variant: cache_release that clears acquired but does not post.
Release_NoPost(t, use) ==
  LET e == ent[t] IN
  /\ pc[t] = "hold"
  /\ use = "install" => pin[e]
  /\ pin' = [pin EXCEPT ![e] = CASE use = "sync" -> TRUE
                                 [] use = "install" -> FALSE
                                 [] OTHER -> @]
  /\ acq' = [acq EXCEPT ![e] = FALSE]
  /\ pc' = [pc EXCEPT ![t] = "idle"]
  /\ UNCHANGED <<lst, inflight, bno, sem, waitq, blockNum, ent, want, ops>>

(* The holder's use of the block, then cache_release: acquired = false,    *)
(* post_sem(&block->lock).  "sync" is cache_sync under a transaction (pin);*)
(* "install" is end_op's device_write and unpin.                          *)
Release(t, use) ==
  LET e == ent[t] IN
  /\ pc[t] = "hold"
  /\ use = "install" => pin[e]
  /\ pin' = [pin EXCEPT ![e] = CASE use = "sync" -> TRUE
                                 [] use = "install" -> FALSE
                                 [] OTHER -> @]
  /\ acq' = [acq EXCEPT ![e] = FALSE]
  /\ PostBlock(e, [pc EXCEPT ![t] = "idle"])
  /\ UNCHANGED <<lst, inflight, bno, blockNum, ent, want, ops>>

Uses == {"plain", "sync", "install"}

\* Where a thread has passed wait_sem on ent[t] and not yet released it.
Holding == {"read", "relist", "hold"}

\* Every thread has made its acquires and released them.
Finished ==
  /\ \A t \in Threads : pc[t] = "idle" /\ ops[t] = MaxOps
  /\ UNCHANGED vars

ThreadStep(t) ==
  \/ HitWait(t) \/ Relist(t) \/ MissInsert(t)
  \/ \E u \in Uses : Release(t, u)

Next ==
  \/ \E t \in Threads, b \in BlockNos : AcquireHit(t, b) \/ AcquireMiss(t, b)
  \/ \E t \in Threads : ThreadStep(t)
  \/ Finished

Spec == Init /\ [][Next]_vars /\ \A t \in Threads : WF_vars(ThreadStep(t))
-----------------------------------------------------------------------------
TypeOK ==
  /\ lst \in Seq(Entries) /\ inflight \subseteq Entries
  /\ bno \in [Entries -> BlockNos \cup {NoBlock}]
  /\ acq \in [Entries -> BOOLEAN] /\ pin \in [Entries -> BOOLEAN]
  /\ sem \in [Entries -> (1 - Cardinality(Threads))..1] /\ waitq \in [Entries -> SUBSET Threads]
  /\ blockNum \in Nat
  /\ pc \in [Threads -> {"idle", "hitwait", "sleep", "relist", "read", "hold"}]
  /\ ent \in [Threads -> Entries] /\ ops \in [Threads -> 0..MaxOps]

(* Spec 4.2: no two handles to the same block_no coexist in the list (the  *)
(* miss path of cache_acquire must not create a second entry for a block  *)
(* that another miss is still reading in).                                *)
NoDuplicate ==
  \A i, j \in DOMAIN lst : i /= j => bno[lst[i]] /= bno[lst[j]]

(* A thread between cache_acquire and cache_release, or waiting inside     *)
(* cache_acquire, refers to a live Block of the number it asked for: the   *)
(* acquired flag must keep manage_block_num from freeing it.              *)
HeldResident ==
  \A t \in Threads :
    pc[t] \in {"hitwait", "sleep", "relist", "hold"} =>
      ent[t] \in Allocated /\ bno[ent[t]] = want[t]

(* Block.lock is a sleep lock: the miss path takes the fresh Block's lock *)
(* before device_read, a hit sleeps on it until cache_release posts, so at *)
(* most one thread is past wait_sem on any Block at a time.               *)
LockExclusive ==
  \A t, u \in Threads :
    t /= u /\ pc[t] \in Holding /\ pc[u] \in Holding => ent[t] /= ent[u]

(* Every cache_acquire returns: a thread asleep on a block's sleep lock is *)
(* woken by the holder's cache_release.                                   *)
AcquireTerminates ==
  \A t \in Threads : (pc[t] \in {"hitwait", "sleep", "relist", "read"}) ~> (pc[t] = "hold")
=============================================================================
