------------------------------ MODULE Console ------------------------------
(***************************************************************************)
(* The console line discipline of kernel/console.c: console_intr edits a  *)
(* ring of INPUT_BUF bytes and commits lines to the reader, console_read  *)
(* (reached through file_read and inode_read on a device inode) consumes  *)
(* them, and cons.sem counts the commits.  One reader process; each key   *)
(* is one console_intr, atomic under cons.lock.  The reader's steps are   *)
(* the stretches of console_read between acquiring and releasing          *)
(* cons.lock.                                                             *)
(*                                                                        *)
(* The indices are usize.  INPUT_BUF divides 2^64, so every index taken   *)
(* % INPUT_BUF is exact; read_idx-- on 0 gives 2^64-1, which is kept as   *)
(* -1: (-1 + 1) % INPUT_BUF = 0 as in the code, and -1 equals no index    *)
(* in 0..INPUT_BUF-1, as 2^64-1 does not.                                 *)
(***************************************************************************)
EXTENDS Integers, Sequences, SequencesExt

CONSTANTS
  INPUT_BUF,   \* ring size (128 in console.h)
  Chars,       \* ordinary characters a user can type
  MaxN,        \* largest n a read asks for
  MaxKeys,     \* bound on keys typed
  MaxReads     \* bound on console_read calls

\* Bytes that mean something to the line discipline.
NL == "nl"     \* '\n'
CR == "cr"     \* '\r'
BS == "bs"     \* BACKSPACE (127)
CtrlU == "^U"
CtrlD == "^D"
CtrlC == "^C"
NUL == "nul"   \* the zero byte of the static cons.buf
Keys == Chars \cup {NL, CR, BS, CtrlU, CtrlD, CtrlC}
Idx == 0 .. INPUT_BUF - 1

VARIABLES
  buf, read_idx, write_idx, edit_idx,  \* struct console
  locked,      \* cons.lock is held
  sem,         \* cons.sem's count
  spinning,    \* console_intr is looping forever holding cons.lock
  rpc,         \* where the reader is in file_read/console_read
  n, target,   \* console_read's n and target
  killed,      \* the reader's proc has been killed
  ilock,       \* the console inode's sleep lock (a semaphore, 1 = free)
  keys, reads, \* bounds
  committed,   \* history: bytes console_intr has made readable, in order
  got          \* history: bytes console_read has consumed, in order

vars == <<buf, read_idx, write_idx, edit_idx, locked, sem, spinning, rpc, n,
          target, killed, ilock, keys, reads, committed, got>>

\* console_init, and the zeroed static struct console.
Init ==
  /\ buf = [i \in Idx |-> NUL]
  /\ read_idx = 0 /\ write_idx = 0 /\ edit_idx = 0
  /\ locked = FALSE /\ sem = 0 /\ spinning = FALSE
  /\ rpc = "idle" /\ n = 0 /\ target = 0 /\ killed = FALSE
  /\ ilock = 1 /\ keys = 0 /\ reads = 0
  /\ committed = <<>> /\ got = <<>>
-----------------------------------------------------------------------------
(* console_intr.  Every branch runs under cons.lock with interrupts off.   *)

\* The slots from write_idx (exclusive) to e (inclusive), in ring order.
Pending(b, w, e) == [k \in 1 .. (e - w) % INPUT_BUF |-> b[(w + k) % INPUT_BUF]]

\* write_idx = edit_idx; post_sem(&cons.sem).  No sleeper to pick: the
\* reader that sleeps is woken instead of the count growing.
Commit(b, e) ==
  /\ write_idx' = e
  /\ committed' = committed \o Pending(b, write_idx, e)
  /\ IF rpc = "sleep" THEN rpc' = "relock" /\ UNCHANGED sem
                      ELSE sem' = sem + 1 /\ UNCHANGED rpc

Full == (edit_idx + 1) % INPUT_BUF = read_idx

\* `continue` jumps back to while(c != 0xff) with c unchanged.
Spin ==
  /\ spinning' = TRUE /\ locked' = TRUE
  /\ UNCHANGED <<buf, read_idx, write_idx, edit_idx, sem, rpc, n, target,
                 killed, ilock, committed, got>>

\* A key the reader is not concerned with: only the edit ring changes.
EditOnly(e) ==
  /\ edit_idx' = e
  /\ UNCHANGED <<buf, read_idx, write_idx, locked, sem, spinning, rpc, n,
                 target, killed, ilock, committed, got>>

Backspace ==
  EditOnly(IF edit_idx # write_idx THEN (edit_idx - 1) % INPUT_BUF ELSE edit_idx)

RECURSIVE KillLine(_)
KillLine(e) ==
  IF e # write_idx /\ buf[(e - 1) % INPUT_BUF] # NL
  THEN KillLine((e - 1) % INPUT_BUF) ELSE e

\* ^D: a full ring spins; otherwise the ^D is stored and committed.
EndOfFile ==
  \/ Full /\ Spin
  \/ /\ ~Full
     /\ LET e == (edit_idx + 1) % INPUT_BUF
        IN /\ edit_idx' = e
           /\ buf' = [buf EXCEPT ![e] = CtrlD]
           /\ Commit(buf', e)
     /\ UNCHANGED <<read_idx, locked, spinning, n, target, killed, ilock, got>>

\* ^C: kill(thisproc()->pid).  The interrupt is taken in whatever process
\* runs; when that is the reader (a user process, pid > 1) it is killed,
\* otherwise no state of this model changes.
Interrupt ==
  /\ killed' = TRUE
  /\ UNCHANGED <<buf, read_idx, write_idx, edit_idx, locked, sem, spinning,
                 rpc, n, target, ilock, committed, got>>

\* An ordinary character, or '\n' (which '\r' becomes).
Ordinary(c) ==
  \/ Full /\ Spin
  \/ /\ ~Full
     /\ LET e == (edit_idx + 1) % INPUT_BUF
        IN /\ edit_idx' = e
           /\ buf' = [buf EXCEPT ![e] = c]
           /\ IF c = NL \/ (e + 1) % INPUT_BUF = read_idx
              THEN Commit(buf', e)
              ELSE UNCHANGED <<write_idx, committed, sem, rpc>>
     /\ UNCHANGED <<read_idx, locked, spinning, n, target, killed, ilock, got>>

ConsoleIntr(k) ==
  /\ ~locked /\ keys < MaxKeys
  /\ keys' = keys + 1
  /\ LET c == IF k = CR THEN NL ELSE k
     IN CASE c = BS    -> Backspace
          [] c = CtrlU -> EditOnly(KillLine(edit_idx))
          [] c = CtrlD -> EndOfFile
          [] c = CtrlC -> Interrupt
          [] OTHER     -> Ordinary(c)
  /\ UNCHANGED reads
-----------------------------------------------------------------------------
(* The reader: file_read -> inode_read -> console_read.                    *)

\* Release cons.lock and return to file_read, which retakes the inode lock
\* console_read gave back and releases it; a killed process then exits.
Finish ==
  /\ locked' = FALSE
  /\ rpc' = IF killed THEN "dead" ELSE "idle"

\* Lines 110-117, with cons.lock held: take the next slot, whatever
\* write_idx says.
ReadOne ==
  LET ri == (read_idx + 1) % INPUT_BUF
      c == buf[ri]
  IN \/ /\ c = CtrlD
        /\ read_idx' = IF n < target THEN ri - 1 ELSE ri
        /\ got' = IF n < target THEN got ELSE Append(got, CtrlD)
        /\ Finish /\ UNCHANGED n
     \/ /\ c # CtrlD
        /\ read_idx' = ri
        /\ got' = Append(got, c)
        /\ IF c = NL \/ n = 1
           THEN Finish /\ n' = n - 1
           ELSE rpc' = "loop" /\ n' = n - 1 /\ locked' = TRUE

\* file_read's inodes.lock, console_read's inodes.unlock, then cons.lock.
ReadCall ==
  /\ rpc = "idle" /\ ~killed /\ reads < MaxReads
  /\ ~locked /\ ilock > 0
  /\ \E k \in 1 .. MaxN : n' = k /\ target' = k
  /\ locked' = TRUE /\ rpc' = "loop" /\ reads' = reads + 1
  /\ UNCHANGED <<buf, read_idx, write_idx, edit_idx, sem, spinning, killed,
                 ilock, keys, committed, got>>

\* One pass of while(n > 0) under cons.lock: wait when nothing is committed.
ReadLoop ==
  /\ rpc = "loop"
  /\ \/ /\ read_idx = write_idx
        /\ locked' = FALSE /\ rpc' = "wait"
        /\ UNCHANGED <<read_idx, n, got>>
     \/ read_idx # write_idx /\ ReadOne
  /\ UNCHANGED <<buf, write_idx, edit_idx, sem, spinning, target, killed,
                 ilock, keys, reads, committed>>

\* _wait_sem(&cons.sem, true) (common/sem.c is not in the tree): a counted
\* post is taken at once, otherwise the reader sleeps.
ReadWait ==
  /\ rpc = "wait"
  /\ IF sem > 0 THEN sem' = sem - 1 /\ rpc' = "relock"
                ELSE rpc' = "sleep" /\ UNCHANGED sem
  /\ UNCHANGED <<buf, read_idx, write_idx, edit_idx, locked, spinning, n,
                 target, killed, ilock, keys, reads, committed, got>>

\* A kill ends the alertable sleep: console_read returns -1 without
\* inodes.lock(ip), and file_read's inodes.unlock posts the inode lock.
ReadKilled ==
  /\ rpc = "sleep" /\ killed
  /\ rpc' = "dead" /\ ilock' = ilock + 1
  /\ UNCHANGED <<buf, read_idx, write_idx, edit_idx, locked, sem, spinning,
                 n, target, killed, keys, reads, committed, got>>

\* Woken: retake cons.lock and go straight on to line 110.
ReadRelock ==
  /\ rpc = "relock" /\ ~locked
  /\ ReadOne
  /\ UNCHANGED <<buf, write_idx, edit_idx, sem, spinning, target, killed,
                 ilock, keys, reads, committed>>

Next ==
  \/ \E k \in Keys : ConsoleIntr(k)
  \/ ReadCall \/ ReadLoop \/ ReadWait \/ ReadKilled \/ ReadRelock

Spec == Init /\ [][Next]_vars
-----------------------------------------------------------------------------
TypeOK ==
  /\ buf \in [Idx -> Keys \cup {NUL}]
  /\ read_idx \in -1 .. INPUT_BUF - 1
  /\ write_idx \in Idx /\ edit_idx \in Idx
  /\ rpc \in {"idle", "loop", "wait", "sleep", "relock", "dead"}
  /\ sem \in Nat /\ ilock \in Nat

(* Spec 4.6: a console read returns only what the line discipline has    *)
(* committed (a line ended by '\n' or ^D, or a full buffer), in the order  *)
(* it was typed; the bytes console_read consumes, the ^D it eats as the    *)
(* end of file included, are a prefix of the bytes console_intr committed. *)
ReadsCommitted == IsPrefix(got, committed)
====
