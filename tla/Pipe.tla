-------------------------------- MODULE Pipe --------------------------------
(***************************************************************************)
(* One Pipe of src/src/fs/pipe.c: pipe_write, pipe_read and pipe_close,     *)
(* from the moment init_pipe has opened both ends.                         *)
(*                                                                         *)
(* Each critical section of pi->lock is one step.  A thread woken from     *)
(* unalertable_wait_sem continues WITHOUT re-acquiring pi->lock: it tests, *)
(* reads and writes the ring unlocked and finally releases the lock that   *)
(* another thread may hold.  Its accesses then race with the lock holder,  *)
(* so the statements data[nwrite++ % PIPE_SIZE] = c and                    *)
(* c = data[nread++ % PIPE_SIZE] are two steps each, in either order (the  *)
(* compiler and the weakly ordered CPU may make the counter visible before *)
(* or after the data).  A pipe end is closed by the last file_close of its *)
(* File, which happens only while no call through that end is running.     *)
(***************************************************************************)
EXTENDS Integers, Sequences, FiniteSets

CONSTANTS
  Writers,     \* threads calling pipe_write
  Readers,     \* threads calling pipe_read
  PIPE_SIZE,   \* ring size
  MaxN,        \* bound: bytes per call (n)
  MaxOps,      \* bound: calls per thread
  Killable,    \* threads that may be marked killed
  None         \* contents of a ring slot never written

Threads == Writers \cup Readers
Idx == 0..PIPE_SIZE-1
Bytes == Writers \X (1..MaxN*MaxOps)    \* byte c: the k-th byte of writer w

VARIABLES
  data, nread, nwrite, readopen, writeopen,
  locked,      \* pi->lock
  rsem, wsem,  \* pi->rlock, pi->wlock: [val |-> value, q |-> sleepers]
  pc, n, i, tmp, calls, killed,
  cpc,         \* per end ("r", "w"): "open", "test" (after pipe_close's unlock), "done"
  frees,       \* number of kfree of the Pipe
  sent, got    \* ghost: bytes in the order writers produced and readers got them

vars == <<data, nread, nwrite, readopen, writeopen, locked, rsem, wsem, pc, n,
          i, tmp, calls, killed, cpc, frees, sent, got>>

Init ==
  /\ data = [x \in Idx |-> None]
  /\ nread = 0 /\ nwrite = 0
  /\ readopen = TRUE /\ writeopen = TRUE
  /\ locked = FALSE
  /\ rsem = [val |-> 0, q |-> {}] /\ wsem = [val |-> 0, q |-> {}]
  /\ pc = [t \in Threads |-> "idle"]
  /\ n = [t \in Threads |-> 0] /\ i = [t \in Threads |-> 0]
  /\ tmp = [t \in Threads |-> 0] /\ calls = [t \in Threads |-> 0]
  /\ killed = [t \in Threads |-> FALSE]
  /\ cpc = [e \in {"r", "w"} |-> "open"]
  /\ frees = 0 /\ sent = <<>> /\ got = <<>>

(* post_sem (common/sem.c is not in the tree): wake one sleeper, or count  *)
(* the post when nobody sleeps.  unalertable_wait_sem takes a counted post *)
(* or sleeps until a post picks it.  The woken thread resumes at `to`.     *)
Post(s, p, to) ==
  IF s.q = {} THEN <<[s EXCEPT !.val = @ + 1], p>>
  ELSE LET u == CHOOSE x \in s.q : TRUE
       IN <<[s EXCEPT !.q = @ \ {u}], [p EXCEPT ![u] = to[u]]>>
-----------------------------------------------------------------------------
ByteOf(t) == <<t, calls[t] * MaxN + i[t] + 1>>
Done(t) == /\ pc' = [pc EXCEPT ![t] = "idle"] /\ locked' = FALSE
\* Where a woken thread resumes.
Resume == [t \in Threads |-> IF t \in Writers THEN "wtest" ELSE "rtest"]

\* file_write through an open write end: pipe_write acquires pi->lock.
WCall(t) ==
  /\ pc[t] = "idle" /\ cpc["w"] = "open" /\ ~killed[t] /\ calls[t] < MaxOps
  /\ ~locked /\ locked' = TRUE
  /\ \E k \in 1..MaxN : n' = [n EXCEPT ![t] = k]
  /\ pc' = [pc EXCEPT ![t] = "wtest"] /\ i' = [i EXCEPT ![t] = 0]
  /\ UNCHANGED <<data, nread, nwrite, readopen, writeopen, rsem, wsem, tmp,
                 calls, killed, cpc, frees, sent, got>>

(* The for loop and the while (full) test.  All bytes written: post rlock, *)
(* release, return n.  Full with the read end closed or killed: release,   *)
(* return -1.  Full otherwise: post rlock, release, sleep on wlock.        *)
WTest(t) ==
  /\ pc[t] = "wtest"
  /\ LET full == nwrite = nread + PIPE_SIZE IN
     \/ /\ i[t] = n[t]
        /\ LET r == Post(rsem, pc, Resume) IN
           rsem' = r[1] /\ pc' = [r[2] EXCEPT ![t] = "idle"]
        /\ locked' = FALSE
        /\ calls' = [calls EXCEPT ![t] = @ + 1] /\ UNCHANGED wsem
     \/ /\ i[t] < n[t] /\ full /\ (~readopen \/ killed[t])
        /\ Done(t)
        /\ calls' = [calls EXCEPT ![t] = @ + 1] /\ UNCHANGED <<rsem, wsem>>
     \/ /\ i[t] < n[t] /\ full /\ readopen /\ ~killed[t]
        /\ LET r == Post(rsem, pc, Resume) IN
           rsem' = r[1] /\ pc' = [r[2] EXCEPT ![t] = "wwait"]
        /\ locked' = FALSE
        /\ UNCHANGED <<wsem, calls>>
     \/ /\ i[t] < n[t] /\ ~full
        /\ pc' = [pc EXCEPT ![t] = "wput"]
        /\ UNCHANGED <<locked, rsem, wsem, calls>>
  /\ UNCHANGED <<data, nread, nwrite, readopen, writeopen, n, i, tmp, killed,
                 cpc, frees, sent, got>>

\* unalertable_wait_sem(&pi->wlock); back to the test without the lock.
WWait(t) ==
  /\ pc[t] = "wwait"
  /\ IF wsem.val > 0
       THEN wsem' = [wsem EXCEPT !.val = @ - 1] /\ pc' = [pc EXCEPT ![t] = "wtest"]
       ELSE wsem' = [wsem EXCEPT !.q = @ \cup {t}] /\ pc' = [pc EXCEPT ![t] = "wsleep"]
  /\ UNCHANGED <<data, nread, nwrite, readopen, writeopen, locked, rsem, n, i,
                 tmp, calls, killed, cpc, frees, sent, got>>

(* data[nwrite++ % PIPE_SIZE] = byte, first half: load nwrite, then either *)
(* store the byte or publish nwrite + 1.                                   *)
WPut(t) ==
  /\ pc[t] = "wput"
  /\ tmp' = [tmp EXCEPT ![t] = nwrite]
  /\ sent' = Append(sent, ByteOf(t))
  /\ \/ /\ data' = [data EXCEPT ![nwrite % PIPE_SIZE] = ByteOf(t)]
        /\ pc' = [pc EXCEPT ![t] = "wpub"] /\ UNCHANGED nwrite
     \/ /\ nwrite' = nwrite + 1
        /\ pc' = [pc EXCEPT ![t] = "wstore"] /\ UNCHANGED data
  /\ UNCHANGED <<nread, readopen, writeopen, locked, rsem, wsem, n, i, calls,
                 killed, cpc, frees, got>>

\* Second half: the other of the two stores; i++.
WFinish(t) ==
  /\ pc[t] \in {"wpub", "wstore"}
  /\ IF pc[t] = "wpub"
       THEN nwrite' = tmp[t] + 1 /\ UNCHANGED data
       ELSE data' = [data EXCEPT ![tmp[t] % PIPE_SIZE] = ByteOf(t)] /\ UNCHANGED nwrite
  /\ i' = [i EXCEPT ![t] = @ + 1] /\ pc' = [pc EXCEPT ![t] = "wtest"]
  /\ UNCHANGED <<nread, readopen, writeopen, locked, rsem, wsem, n, tmp, calls,
                 killed, cpc, frees, sent, got>>
-----------------------------------------------------------------------------
\* file_read through an open read end: pipe_read acquires pi->lock.
RCall(t) ==
  /\ pc[t] = "idle" /\ cpc["r"] = "open" /\ ~killed[t] /\ calls[t] < MaxOps
  /\ ~locked /\ locked' = TRUE
  /\ \E k \in 1..MaxN : n' = [n EXCEPT ![t] = k]
  /\ pc' = [pc EXCEPT ![t] = "rtest"] /\ i' = [i EXCEPT ![t] = 0]
  /\ UNCHANGED <<data, nread, nwrite, readopen, writeopen, rsem, wsem, tmp,
                 calls, killed, cpc, frees, sent, got>>

(* while (empty && writeopen): killed -> release, return -1; otherwise     *)
(* release and sleep on rlock.  Not empty or write end closed: read loop.  *)
RTest(t) ==
  /\ pc[t] = "rtest"
  /\ LET waiting == nread = nwrite /\ writeopen IN
     \/ /\ waiting /\ killed[t]
        /\ Done(t) /\ calls' = [calls EXCEPT ![t] = @ + 1]
     \/ /\ waiting /\ ~killed[t]
        /\ pc' = [pc EXCEPT ![t] = "rwait"] /\ locked' = FALSE
        /\ UNCHANGED <<calls>>
     \/ /\ ~waiting
        /\ pc' = [pc EXCEPT ![t] = "rloop"]
        /\ UNCHANGED <<locked, calls>>
  /\ UNCHANGED <<data, nread, nwrite, readopen, writeopen, rsem, wsem, n, i,
                 tmp, killed, cpc, frees, sent, got>>

\* unalertable_wait_sem(&pi->rlock); back to the test without the lock.
\* Mutant: the reader passes rlock without waiting for a post.
RWait_NoCheck(t) ==
  /\ pc[t] = "rwait"
  /\ rsem' = [rsem EXCEPT !.val = @ - 1] /\ pc' = [pc EXCEPT ![t] = "rtest"]
  /\ UNCHANGED <<data, nread, nwrite, readopen, writeopen, locked, wsem, n, i,
                 tmp, calls, killed, cpc, frees, sent, got>>

RWait(t) ==
  /\ pc[t] = "rwait"
  /\ IF rsem.val > 0
       THEN rsem' = [rsem EXCEPT !.val = @ - 1] /\ pc' = [pc EXCEPT ![t] = "rtest"]
       ELSE rsem' = [rsem EXCEPT !.q = @ \cup {t}] /\ pc' = [pc EXCEPT ![t] = "rsleep"]
  /\ UNCHANGED <<data, nread, nwrite, readopen, writeopen, locked, wsem, n, i,
                 tmp, calls, killed, cpc, frees, sent, got>>

(* The read loop: i == n or empty -> post wlock, release, return i.        *)
(* Otherwise c = data[nread++ % PIPE_SIZE], first half: load nread, then   *)
(* either load the byte or publish nread + 1.                              *)
\* Mutant: pipe_read returns without post_sem(&pi->wlock).
RLoop_NoPost(t) ==
  /\ pc[t] = "rloop"
  /\ \/ /\ i[t] = n[t] \/ nread = nwrite
        /\ pc' = [pc EXCEPT ![t] = "idle"] /\ UNCHANGED wsem
        /\ locked' = FALSE
        /\ calls' = [calls EXCEPT ![t] = @ + 1]
        /\ UNCHANGED <<nread, tmp, got>>
     \/ /\ i[t] < n[t] /\ nread /= nwrite
        /\ tmp' = [tmp EXCEPT ![t] = nread]
        /\ \/ got' = Append(got, data[nread % PIPE_SIZE])
              /\ pc' = [pc EXCEPT ![t] = "rpub"] /\ UNCHANGED nread
           \/ nread' = nread + 1
              /\ pc' = [pc EXCEPT ![t] = "rload"] /\ UNCHANGED got
        /\ UNCHANGED <<locked, wsem, calls>>
  /\ UNCHANGED <<data, nwrite, readopen, writeopen, rsem, n, i, killed, cpc,
                 frees, sent>>

RLoop(t) ==
  /\ pc[t] = "rloop"
  /\ \/ /\ i[t] = n[t] \/ nread = nwrite
        /\ LET r == Post(wsem, pc, Resume) IN
           wsem' = r[1] /\ pc' = [r[2] EXCEPT ![t] = "idle"]
        /\ locked' = FALSE
        /\ calls' = [calls EXCEPT ![t] = @ + 1]
        /\ UNCHANGED <<nread, tmp, got>>
     \/ /\ i[t] < n[t] /\ nread /= nwrite
        /\ tmp' = [tmp EXCEPT ![t] = nread]
        /\ \/ got' = Append(got, data[nread % PIPE_SIZE])
              /\ pc' = [pc EXCEPT ![t] = "rpub"] /\ UNCHANGED nread
           \/ nread' = nread + 1
              /\ pc' = [pc EXCEPT ![t] = "rload"] /\ UNCHANGED got
        /\ UNCHANGED <<locked, wsem, calls>>
  /\ UNCHANGED <<data, nwrite, readopen, writeopen, rsem, n, i, killed, cpc,
                 frees, sent>>

\* Second half: the other of the two; i++.
RFinish(t) ==
  /\ pc[t] \in {"rpub", "rload"}
  /\ IF pc[t] = "rpub"
       THEN nread' = tmp[t] + 1 /\ UNCHANGED got
       ELSE got' = Append(got, data[tmp[t] % PIPE_SIZE]) /\ UNCHANGED nread
  /\ i' = [i EXCEPT ![t] = @ + 1] /\ pc' = [pc EXCEPT ![t] = "rloop"]
  /\ UNCHANGED <<data, nwrite, readopen, writeopen, locked, rsem, wsem, n, tmp,
                 calls, killed, cpc, frees, sent>>
-----------------------------------------------------------------------------
(* pipe_close(pi, writable) from the last file_close of end e, while no    *)
(* call runs through that end: under pi->lock flip the end's flag and post *)
(* the opposite semaphore; after the unlock the test of both flags.        *)
CloseEnd(e) ==
  /\ cpc[e] = "open" /\ ~locked
  /\ \A t \in (IF e = "w" THEN Writers ELSE Readers) : pc[t] = "idle"
  /\ IF e = "w"
       THEN LET r == Post(rsem, pc, Resume) IN
            /\ writeopen' = FALSE /\ rsem' = r[1] /\ pc' = r[2]
            /\ UNCHANGED <<readopen, wsem>>
       ELSE LET r == Post(wsem, pc, Resume) IN
            /\ readopen' = FALSE /\ wsem' = r[1] /\ pc' = r[2]
            /\ UNCHANGED <<writeopen, rsem>>
  /\ cpc' = [cpc EXCEPT ![e] = "test"]
  /\ UNCHANGED <<data, nread, nwrite, locked, n, i, tmp, calls, killed, frees,
                 sent, got>>

\* if (pi->readopen == 0 && pi->writeopen == 0) kfree(pi);
CloseFree(e) ==
  /\ cpc[e] = "test"
  /\ frees' = IF ~readopen /\ ~writeopen THEN frees + 1 ELSE frees
  /\ cpc' = [cpc EXCEPT ![e] = "done"]
  /\ UNCHANGED <<data, nread, nwrite, readopen, writeopen, locked, rsem, wsem,
                 pc, n, i, tmp, calls, killed, sent, got>>

\* The thread is marked killed; unalertable sleepers are not woken.
Kill(t) ==
  /\ t \in Killable /\ ~killed[t]
  /\ killed' = [killed EXCEPT ![t] = TRUE]
  /\ UNCHANGED <<data, nread, nwrite, readopen, writeopen, locked, rsem, wsem,
                 pc, n, i, tmp, calls, cpc, frees, sent, got>>

Finished ==
  /\ \A t \in Threads : pc[t] = "idle"
  /\ \A e \in {"r", "w"} : cpc[e] = "done"
  /\ UNCHANGED vars

WriterStep(t) == WTest(t) \/ WWait(t) \/ WPut(t) \/ WFinish(t)
ReaderStep(t) == RTest(t) \/ RWait(t) \/ RLoop(t) \/ RFinish(t)

Next ==
  \/ \E t \in Writers : WCall(t) \/ WriterStep(t)
  \/ \E t \in Readers : RCall(t) \/ ReaderStep(t)
  \/ \E e \in {"r", "w"} : CloseEnd(e) \/ CloseFree(e)
  \/ \E t \in Threads : Kill(t)
  \/ Finished

(* A thread inside a call is scheduled (weak fairness of its steps), and   *)
(* pipe_close runs to its end.  Starting a call, closing an end and being  *)
(* killed are the user's choice and get no fairness.                       *)
Spec ==
  /\ Init /\ [][Next]_vars
  /\ \A t \in Writers : WF_vars(WriterStep(t))
  /\ \A t \in Readers : WF_vars(ReaderStep(t))
  /\ \A e \in {"r", "w"} : WF_vars(CloseFree(e))
-----------------------------------------------------------------------------
TypeOK ==
  /\ data \in [Idx -> Bytes \cup {None}]
  /\ nread \in Nat /\ nwrite \in Nat /\ locked \in BOOLEAN
  /\ readopen \in BOOLEAN /\ writeopen \in BOOLEAN
  /\ rsem.val \in Nat /\ rsem.q \subseteq Readers
  /\ wsem.val \in Nat /\ wsem.q \subseteq Writers
  /\ frees \in Nat /\ killed \in [Threads -> BOOLEAN]

(* The ring never holds more than PIPE_SIZE unread bytes and is never read *)
(* past what was written: pipe_write's full test and pipe_read's empty     *)
(* test, made partly without pi->lock, keep nread <= nwrite <= nread +     *)
(* PIPE_SIZE.                                                              *)
BufferBounded == nread <= nwrite /\ nwrite <= nread + PIPE_SIZE

(* Readers receive exactly the bytes written, in order (spec 4.6): what    *)
(* pipe_read copied out is a prefix of what pipe_write copied in.          *)
PipeFifo == got = SubSeq(sent, 1, Len(got))

\* pipe_close frees the Pipe once (spec 4.6: freed when both sides close).
FreedOnce == frees <= 1

(* A reader asleep on rlock while bytes are waiting or the write end is    *)
(* closed is woken by pipe_write's final post or pipe_close's.  A writer   *)
(* killed at a full ring returns -1 without the post (lines 69-71), so     *)
(* this fails once the writer may be killed and its end stays open.        *)
ReaderWakes ==
  \A t \in Readers :
    (pc[t] = "rsleep" /\ (nread /= nwrite \/ ~writeopen)) ~> pc[t] /= "rsleep"

(* A writer asleep on wlock while there is room or the read end is closed  *)
(* is woken: every pipe_read posts wlock.                                  *)
WriterWakes ==
  \A t \in Writers :
    (pc[t] = "wsleep" /\ (nwrite /= nread + PIPE_SIZE \/ ~readopen)) ~> pc[t] /= "wsleep"

(* Spec 5: a thread killed while blocked in pipe_read or pipe_write        *)
(* returns -1 without waiting for the other side.                          *)
KilledReturns ==
  \A t \in Killable : (killed[t] /\ pc[t] \in {"rsleep", "wsleep"}) ~> pc[t] = "idle"
=============================================================================
