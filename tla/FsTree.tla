------------------------------- MODULE FsTree -------------------------------
(***************************************************************************)
(* The file-system tree as one process sees it through the system calls   *)
(* of src/src/kernel/sysfile.c: the inode layer of src/src/fs/inode.c      *)
(* (inode_alloc, the block map inode_map with its indirect block,          *)
(* inode_read/inode_write, inode_lookup/inode_insert, inode_clear, the     *)
(* reference counts of inode_get/inode_put), the bitmap allocator of       *)
(* cache_alloc/cache_free (src/src/fs/cache.c), path resolution            *)
(* (skipelem, namex), stati, and the calls openat, close, read, write,   *)
(* writev, fstat, newfstatat, mkdirat, mknodat, unlinkat and chdir, with   *)
(* file_read/file_write/file_close of src/src/fs/file.c.                   *)
(*                                                                         *)
(* Each system call runs from begin_op to end_op as one step: its inode   *)
(* sleep locks and its transaction are held by this process only, so the  *)
(* interleavings of several processes (modelled in InodeCache, BlockCache *)
(* and Journal) do not change what one call computes.  A layer function  *)
(* is a pure operator from a state record to a state record; a system     *)
(* call composes them in the order the code calls them.  Byte contents of *)
(* regular files are abstracted away; a directory's payload is kept as    *)
(* the sequence of its DirEntry records, one per DSIZE bytes.             *)
(***************************************************************************)
EXTENDS Integers, Sequences, FiniteSets

LOCAL FS == INSTANCE FiniteSetsExt
LOCAL Gr == INSTANCE Graphs
LOCAL SE == INSTANCE SequencesExt

CONSTANTS
  NINODE,      \* sblock->num_inodes; inode numbers 1 .. NINODE-1
  NBLOCK,      \* data blocks 1 .. NBLOCK tracked by the bitmap
  BSIZE,       \* BLOCK_SIZE in the model's byte unit
  DSIZE,       \* sizeof(DirEntry) in the same unit
  NDIRECT,     \* INODE_NUM_DIRECT
  NINDIRECT,   \* INODE_NUM_INDIRECT
  MAXNAME,     \* FILE_NAME_MAX_LENGTH
  Chars,       \* path characters other than "/"
  Paths,       \* the paths the process passes to system calls
  Fds,         \* the process's descriptor slots
  Counts,      \* byte counts passed to read and write
  Iovs,        \* iov_len sequences passed to writev
  Majors,      \* major(dev) values passed to mknodat
  MaxOps,      \* bound on system calls
  ValidOnly    \* TRUE: the process never makes the requests spec 7 calls user errors

ROOT == 1                                  \* ROOT_INODE_NO
Inos == 1 .. NINODE - 1
Blocks == 1 .. NBLOCK
MAXBYTES == (NDIRECT + NINDIRECT) * BSIZE  \* INODE_MAX_BYTES
Types == {"invalid", "regular", "directory", "device"}
Dot == <<".">>
DotDot == <<".", ".">>
Names == UNION {[1 .. k -> Chars] : k \in 1 .. MAXNAME}
Entry == [ino : 0 .. NINODE - 1, name : Names \cup {<<>>}]
Tomb == [ino |-> 0, name |-> <<>>]         \* a memset DirEntry
NoFile == [ip |-> 0, off |-> 0, readable |-> FALSE, writable |-> FALSE]
ZeroAddrs == [k \in 0 .. NINDIRECT - 1 |-> 0]
EmptyEntry(t) == [type |-> t, links |-> 0, size |-> 0,
                  addrs |-> [k \in 0 .. NDIRECT - 1 |-> 0], indirect |-> 0, major |-> 0]

VARIABLES
  ent,     \* ent[i]: the InodeEntry of inode i (kept in step with its block)
  ind,     \* ind[b]: the address array of block b read as an IndirectBlock
  bitmap,  \* the set of allocated data blocks
  dir,     \* dir[i]: the DirEntry records of directory i, in file order
  rc,      \* rc[i]: the reference count of inode i's in-memory handle
  panic,   \* a PANIC() was reached
  cwd,     \* thisproc()->cwd
  files,   \* files[fd]: the File the descriptor names (one File per fd)
  hung,    \* the process sleeps forever on an inode lock it holds
  ops      \* system calls made

vars == <<ent, ind, bitmap, dir, rc, panic, cwd, files, hung, ops>>

(***************************************************************************)
(* Layer functions as operators on a state record; .out carries a result.*)
(***************************************************************************)
St == [ent |-> ent, ind |-> ind, bitmap |-> bitmap, dir |-> dir, rc |-> rc,
       panic |-> panic, hang |-> FALSE, out |-> 0]

\* cache_alloc: the first clear bit of the bitmap is set and the block
\* zeroed; with none clear the kernel panics.
CacheAlloc(s) ==
  IF Blocks \subseteq s.bitmap THEN [s EXCEPT !.panic = TRUE, !.out = 0]
  ELSE LET b == FS!Min(Blocks \ s.bitmap)
       IN [s EXCEPT !.bitmap = @ \cup {b}, !.ind[b] = ZeroAddrs, !.out = b]

\* cache_free: the block's bit is cleared; its contents stay.
CacheFree(s, b) == [s EXCEPT !.bitmap = @ \ {b}]

\* inode_map: the block holding file block k of inode i.  A direct slot is
\* allocated only with a transaction (ctx); the indirect block itself is
\* allocated whenever it is missing, ctx or not.  Each helper receives the
\* state a cache_alloc returned, with the new block in .out.
SetAddr(a, i, k) == [a EXCEPT !.ent[i].addrs[k] = a.out]
SetIndirect(a, i) == [a EXCEPT !.ent[i].indirect = a.out]
SetIndEntry(a, ib, j) == [a EXCEPT !.ind[ib][j] = a.out]
WithIndirect(s, i) ==
  IF s.ent[i].indirect # 0 THEN s ELSE SetIndirect(CacheAlloc(s), i)
MapIndirect(s1, ib, j, ctx) ==
  IF s1.panic THEN s1
  ELSE IF s1.ind[ib][j] # 0 THEN [s1 EXCEPT !.out = s1.ind[ib][j]]
  ELSE IF ~ctx THEN [s1 EXCEPT !.out = 0]
  ELSE SetIndEntry(CacheAlloc(s1), ib, j)
MapIndirectOf(s1, i, j, ctx) == MapIndirect(s1, s1.ent[i].indirect, j, ctx)
InodeMap(s, i, k, ctx) ==
  IF k < NDIRECT
  THEN IF s.ent[i].addrs[k] # 0 THEN [s EXCEPT !.out = s.ent[i].addrs[k]]
       ELSE IF ~ctx THEN [s EXCEPT !.out = 0]
       ELSE SetAddr(CacheAlloc(s), i, k)
  ELSE MapIndirectOf(WithIndirect(s, i), i, k - NDIRECT, ctx)

\* The loop of inode_read/inode_write over file blocks k .. last.
RECURSIVE MapBlocks(_, _, _, _, _)
MapBlocks(s, i, k, last, ctx) ==
  IF k > last \/ s.panic THEN s
  ELSE MapBlocks(InodeMap(s, i, k, ctx), i, k + 1, last, ctx)

\* Mutant: the count is not clamped to num_bytes.
InodeRead_NoClamp(s, i, off, n) ==
  LET s1 == MapBlocks(s, i, off \div BSIZE, (off + n - 1) \div BSIZE, FALSE)
  IN [s1 EXCEPT !.out = n]

\* inode_read of n bytes at off: clamped to num_bytes; .out is the count.
InodeRead(s, i, off, n) ==
  LET count == IF n + off > s.ent[i].size THEN s.ent[i].size - off ELSE n
      s1 == IF count = 0 THEN s
            ELSE MapBlocks(s, i, off \div BSIZE, (off + count - 1) \div BSIZE, FALSE)
  IN [s1 EXCEPT !.out = count]

\* Mutant: the last block is end / BLOCK_SIZE - 1, one short when the
\* write ends inside a block.
InodeWrite_LastOffByOne(s, i, off, n) ==
  LET end == off + n
      s1  == IF end > s.ent[i].size THEN [s EXCEPT !.ent[i].size = end] ELSE s
  IN [MapBlocks(s1, i, off \div BSIZE, end \div BSIZE - 1, TRUE) EXCEPT !.out = n]

\* inode_write of n bytes at off: num_bytes grows first, then every block
\* the range touches is mapped (allocated on demand).
InodeWrite(s, i, off, n) ==
  LET end == off + n
      s1  == IF end > s.ent[i].size THEN [s EXCEPT !.ent[i].size = end] ELSE s
  IN [MapBlocks(s1, i, off \div BSIZE, (end - 1) \div BSIZE, TRUE) EXCEPT !.out = n]

\* inode_lookup: the first live entry of directory d named name.
LiveAt(s, d, name) ==
  {k \in DOMAIN s.dir[d] : s.dir[d][k].ino # 0 /\ s.dir[d][k].name = name}
InodeLookup(s, d, name) ==
  IF LiveAt(s, d, name) = {} THEN [ino |-> 0, idx |-> 0]
  ELSE LET k == FS!Min(LiveAt(s, d, name)) IN [ino |-> s.dir[d][k].ino, idx |-> k]

\* inode_insert: fails if the name is present; else the entry goes to the
\* first tombstone, or is appended, through inode_write.
InodeInsert(s, d, name, ino) ==
  LET holes == {k \in DOMAIN s.dir[d] : s.dir[d][k].ino = 0}
      k     == IF holes = {} THEN Len(s.dir[d]) + 1 ELSE FS!Min(holes)
      s1    == InodeWrite(s, d, (k - 1) * DSIZE, DSIZE)
  IN IF InodeLookup(s, d, name).ino # 0 THEN [s EXCEPT !.out = -1]
     ELSE [s1 EXCEPT !.dir[d] = IF k > Len(@) THEN Append(@, [ino |-> ino, name |-> name])
                                ELSE [@ EXCEPT ![k] = [ino |-> ino, name |-> name]],
                     !.out = (k - 1) * DSIZE]

\* inode_alloc: the first inode whose on-disk type is INVALID is zeroed and
\* given its type; with none free the kernel panics.
FreeInos(s) == {i \in Inos : s.ent[i].type = "invalid"}
InodeAlloc(s, t) ==
  IF FreeInos(s) = {} THEN [s EXCEPT !.panic = TRUE, !.out = 0]
  ELSE LET i == FS!Min(FreeInos(s))
       IN [s EXCEPT !.ent[i] = EmptyEntry(t), !.out = i]

\* inode_clear: the indirect block's targets and the indirect block, then
\* the direct blocks, are freed; num_bytes becomes 0.
RECURSIVE FreeAll(_, _)
FreeAll(s, bs) ==
  IF bs = {} THEN s ELSE LET b == FS!Min(bs) IN FreeAll(CacheFree(s, b), bs \ {b})
InodeClear(s, i) ==
  LET e   == s.ent[i]
      ibs == IF e.indirect = 0 THEN {}
             ELSE {s.ind[e.indirect][j] : j \in 0 .. NINDIRECT - 1} \cup {e.indirect}
      dbs == {e.addrs[k] : k \in 0 .. NDIRECT - 1}
      s1  == FreeAll(s, (ibs \cup dbs) \ {0})
  IN [s1 EXCEPT !.ent[i].indirect = 0, !.ent[i].addrs = [k \in 0 .. NDIRECT - 1 |-> 0],
                !.ent[i].size = 0, !.dir[i] = <<>>]

\* inode_get / inode_share: one more reference to the handle.
InodeGet(s, i) == [s EXCEPT !.rc[i] = @ + 1]

\* inode_put: the last reference to an inode with no links marks it
\* INVALID and clears it.
InodePut(s, i) ==
  LET s1 == [s EXCEPT !.rc[i] = @ - 1]
  IN IF s1.rc[i] = 0 /\ s1.ent[i].links = 0
     THEN InodeClear([s1 EXCEPT !.ent[i].type = "invalid"], i)
     ELSE s1

(***************************************************************************)
(* Path resolution.                                                       *)
(***************************************************************************)
RECURSIVE DropSlashes(_)
DropSlashes(p) == IF p # <<>> /\ Head(p) = "/" THEN DropSlashes(Tail(p)) ELSE p
RECURSIVE ElemLen(_)
ElemLen(p) == IF p = <<>> \/ Head(p) = "/" THEN 0 ELSE 1 + ElemLen(Tail(p))

\* skipelem: skip slashes, take the next element (its first FILE_NAME_MAX_LENGTH
\* characters), skip the slashes after it; not ok when no element is left.
\* SkipTake receives the path after the leading slashes and the element's
\* length.
\* Mutant: the slashes after the element are left in the rest.
SkipTake_KeepSlashes(p, len) ==
  IF p = <<>> THEN [ok |-> FALSE, name |-> <<>>, rest |-> <<>>]
  ELSE [ok |-> TRUE,
        name |-> SubSeq(p, 1, IF len >= MAXNAME THEN MAXNAME ELSE len),
        rest |-> SubSeq(p, len + 1, Len(p))]
SkipTake(p, len) ==
  IF p = <<>> THEN [ok |-> FALSE, name |-> <<>>, rest |-> <<>>]
  ELSE [ok |-> TRUE,
        name |-> SubSeq(p, 1, IF len >= MAXNAME THEN MAXNAME ELSE len),
        rest |-> DropSlashes(SubSeq(p, len + 1, Len(p)))]
SkipAt(p) == SkipTake(p, ElemLen(p))
SkipElem(path) == SkipAt(DropSlashes(path))

\* The loop of namex from inode cur; .ino is 0 for NULL.  With parent
\* (nameiparent) it stops before the last element and returns its name.
\* WalkStep receives the element skipelem took (e) and, for a directory,
\* the inode its lookup found (next).
RECURSIVE Walk(_, _, _, _)
WalkStep(s, cur, e, next, parent) ==
  IF ~e.ok THEN [ino |-> IF parent THEN 0 ELSE cur, name |-> <<>>]
  ELSE IF s.ent[cur].type # "directory" THEN [ino |-> 0, name |-> <<>>]
  ELSE IF parent /\ e.rest = <<>> THEN [ino |-> cur, name |-> e.name]
  ELSE IF next = 0 THEN [ino |-> 0, name |-> <<>>]
  ELSE Walk(s, next, e.rest, parent)
WalkElem(s, cur, e, parent) ==
  WalkStep(s, cur, e, InodeLookup(s, cur, e.name).ino, parent)
Walk(s, cur, path, parent) == WalkElem(s, cur, SkipElem(path), parent)

\* namex: from the root for an absolute path, else from the cwd.
Namex(s, path, parent) ==
  Walk(s, IF path # <<>> /\ Head(path) = "/" THEN ROOT ELSE cwd, path, parent)

(***************************************************************************)
(* create of sysfile.c: .out is the inode returned (locked, referenced)   *)
(* or 0 for NULL.  .hang: inodes.lock of an inode this call already holds.*)
(* Each step is an operator receiving the state the previous one left.    *)
(***************************************************************************)
\* inode_lock: ASSERT(rc > 0), then the sleep lock; one this call already
\* holds (held) is never released, and the caller sleeps forever.
InodeLock(s, i, held) ==
  IF s.rc[i] = 0 THEN [s EXCEPT !.panic = TRUE]
  ELSE IF i \in held THEN [s EXCEPT !.hang = TRUE]
  ELSE s

\* Both branches end by unlocking and putting the parent dp.
CreateDone(s3, ip, dp) == IF s3.panic \/ s3.hang THEN s3 ELSE [InodePut(s3, dp) EXCEPT !.out = ip]
\* A new directory gets "." and ".." and its parent one more link.
\* Mutant: the parent does not gain the new directory's ".." link.
DotEntries_NoParentLink(s1, ip, dp) ==
  InodeInsert(InodeInsert(s1, ip, Dot, ip), ip, DotDot, dp)
DotEntries(s1, ip, dp) ==
  [InodeInsert(InodeInsert(s1, ip, Dot, ip), ip, DotDot, dp) EXCEPT !.ent[dp].links = @ + 1]
CreateEntries(s1, ip, dp, name, t) ==
  CreateDone(InodeInsert(IF t = "directory" THEN DotEntries(s1, ip, dp) ELSE s1, dp, name, ip),
             ip, dp)
\* The inode alloc returned (a.out) is referenced, locked, given its major
\* and one link.
CreateNew(a, dp, name, t, ma) ==
  IF a.panic THEN a
  ELSE CreateEntries([InodeGet(a, a.out) EXCEPT !.ent[a.out].links = 1, !.ent[a.out].major = ma],
                     a.out, dp, name, t)
\* found: what lookup returned in the locked parent, which is got and
\* locked while dp is held.
CreateFound(s0, dp, name, t, ma, found) ==
  IF found # 0 THEN CreateDone(InodeLock(InodeGet(s0, found), found, {dp}), found, dp)
  ELSE CreateNew(InodeAlloc(s0, t), dp, name, t, ma)
CreateIn(s, pr, t, ma) ==
  IF pr.ino = 0 THEN [s EXCEPT !.out = 0]
  ELSE CreateFound(InodeGet(s, pr.ino), pr.ino, pr.name, t, ma,
                   InodeLookup(s, pr.ino, pr.name).ino)
Create(s, path, t, ma) == CreateIn(s, Namex(s, path, TRUE), t, ma)

\* A call ends with the state s; a PANIC() stops the kernel where it is.
Apply(s) ==
  IF s.panic THEN panic' = TRUE /\ UNCHANGED <<ent, ind, bitmap, dir, rc, hung>>
  ELSE /\ ent' = s.ent /\ ind' = s.ind /\ bitmap' = s.bitmap /\ dir' = s.dir
       /\ rc' = s.rc /\ panic' = FALSE /\ hung' = s.hang

\* Spec 7 user errors: a create whose last element is "." or "..", and a
\* directory opened for writing.
CreateOk(path) == ~ValidOnly \/ Namex(St, path, TRUE).name \notin {Dot, DotDot}

Call == ~panic /\ ~hung /\ ops < MaxOps /\ ops' = ops + 1

(***************************************************************************)
(* System calls.                                                          *)
(***************************************************************************)
Init ==
  /\ ent = [i \in Inos |-> IF i = ROOT
                           THEN [EmptyEntry("directory") EXCEPT !.links = 1, !.size = 2 * DSIZE,
                                   !.addrs[0] = 1]
                           ELSE EmptyEntry("invalid")]
  /\ ind = [b \in Blocks |-> ZeroAddrs]
  /\ bitmap = {1}
  /\ dir = [i \in Inos |-> IF i = ROOT THEN <<[ino |-> ROOT, name |-> Dot],
                                           [ino |-> ROOT, name |-> DotDot]>> ELSE <<>>]
  /\ rc = [i \in Inos |-> IF i = ROOT THEN 2 ELSE 0]
  /\ panic = FALSE
  /\ cwd = ROOT
  /\ files = [fd \in Fds |-> NoFile]
  /\ hung = FALSE
  /\ ops = 0

\* mkdirat and mknodat: create, then unlock and put the inode.
PutCreated(c) == Apply(IF c.out = 0 \/ c.hang THEN c ELSE InodePut(c, c.out))

SysMkdirat(path) ==
  /\ Call /\ CreateOk(path)
  /\ PutCreated(Create(St, path, "directory", 0))
  /\ UNCHANGED <<cwd, files>>

\* mknodat: ma is major(dev), or 1 for a path starting with "console"
\* (no path of the model's alphabet does).
SysMknodat(path, ma) ==
  /\ Call /\ CreateOk(path)
  /\ PutCreated(Create(St, path, "device", ma))
  /\ UNCHANGED <<cwd, files>>

\* openat: create for O_CREAT, else namei then lock; then a File in the
\* first free descriptor slot (fdalloc), or the inode is put back when
\* there is none.  c is the state after create or namei, c.out the inode.
Modes == {"rdonly", "wronly_creat", "rdwr"}
Lookup(s, r) == IF r = 0 THEN [s EXCEPT !.out = 0] ELSE [InodeGet(s, r) EXCEPT !.out = r]
Opened(path, mode) ==
  IF mode = "wronly_creat" THEN Create(St, path, "regular", 0)
  ELSE Lookup(St, Namex(St, path, FALSE).ino)
FreeFds == {fd \in Fds : files[fd] = NoFile}
OpenWith(c, mode) ==
  /\ ValidOnly /\ c.out # 0 => ~(mode # "rdonly" /\ c.ent[c.out].type = "directory")
  /\ IF c.out = 0 \/ c.hang \/ c.panic THEN Apply(c) /\ UNCHANGED files
     ELSE IF FreeFds = {} THEN Apply(InodePut(c, c.out)) /\ UNCHANGED files
     ELSE /\ Apply(c)
          /\ files' = [files EXCEPT ![FS!Min(FreeFds)] =
                         [ip |-> c.out, off |-> 0, readable |-> mode # "wronly_creat",
                          writable |-> mode # "rdonly"]]
SysOpenat(path, mode) ==
  /\ Call
  /\ mode = "wronly_creat" => CreateOk(path)
  /\ OpenWith(Opened(path, mode), mode)
  /\ UNCHANGED cwd

\* close: the descriptor is cleared; file_close puts the inode.
SysClose(fd) ==
  /\ Call /\ files[fd] # NoFile
  /\ files' = [files EXCEPT ![fd] = NoFile]
  /\ Apply(InodePut(St, files[fd].ip))
  /\ UNCHANGED cwd

\* fd2file: the File of a descriptor, or NULL.
Fd2File(fd) == files[fd] # NoFile

\* read: file_read at the File's offset, which advances by the count r.out.
ReadWith(fd, r) == Apply(r) /\ files' = [files EXCEPT ![fd].off = @ + r.out]
\* inode_read of a device: ASSERT(major == 1), then console_read, which
\* returns once n bytes, a newline or ^D arrive: any count 0 .. n.
DeviceRead(fd, n) ==
  IF ent[files[fd].ip].major # 1
  THEN Apply([St EXCEPT !.panic = TRUE]) /\ UNCHANGED files
  ELSE \E r \in 0 .. n : ReadWith(fd, [St EXCEPT !.out = r])
SysRead(fd, n) ==
  /\ Call /\ Fd2File(fd)
  /\ IF ~files[fd].readable THEN UNCHANGED <<ent, ind, bitmap, dir, rc, panic, hung, files>>
     ELSE IF ent[files[fd].ip].type = "device" THEN DeviceRead(fd, n)
     ELSE ReadWith(fd, InodeRead(St, files[fd].ip, files[fd].off, n))
  /\ UNCHANGED cwd

\* file_write clamps n to INODE_MAX_BYTES - f->off, an unsigned difference
\* that wraps to a huge value once a device's offset has passed the bound.
Clamp(off, n) == IF off <= MAXBYTES /\ MAXBYTES - off < n THEN MAXBYTES - off ELSE n
\* inode_write of a device: ASSERT(major == 1), then console_write of all m.
InodeWriteDev(s, ip, m) == IF s.ent[ip].major # 1 THEN [s EXCEPT !.panic = TRUE] ELSE s
\* The loop of file_write: nothing for m = 0, else inode_write of m bytes
\* (the MAX_OP_WRITE_N pieces leave the same state as one write).
FileWriteAt(s, ip, off, m) ==
  IF m = 0 THEN s
  ELSE IF s.ent[ip].type = "device" THEN InodeWriteDev(s, ip, m)
  ELSE InodeWrite(s, ip, off, m)
\* writev: one file_write per iov element, each at the offset the previous
\* one left; .out is the final offset.  write is writev of one element.
RECURSIVE WriteLoop(_, _, _, _)
WriteLoop(s, ip, off, iov) ==
  IF iov = <<>> \/ s.panic THEN [s EXCEPT !.out = off]
  ELSE WriteLoop(FileWriteAt(s, ip, off, Clamp(off, Head(iov))), ip,
                 off + Clamp(off, Head(iov)), Tail(iov))
\* Raw bytes written into a directory replace the DirEntry records they
\* cover with whatever the user put there.
Covered(off, n) == ((off \div DSIZE) + 1) .. ((off + n - 1) \div DSIZE + 1)
WriteWith(fd, f, wr) ==
  /\ files' = IF wr.panic THEN files ELSE [files EXCEPT ![fd].off = wr.out]
  /\ IF ent[f.ip].type = "directory" /\ wr.out > f.off
     THEN \E junk \in [Covered(f.off, wr.out - f.off) -> Entry] :
            Apply([wr EXCEPT !.dir[f.ip] =
                    [k \in 1 .. (Len(@) \cup Covered(f.off, wr.out - f.off)) |->
                       IF k \in Covered(f.off, wr.out - f.off) THEN junk[k] ELSE @[k]]])
     ELSE Apply(wr)
\* file_write refuses a File not opened for writing.
WriteIov(fd, iov) ==
  IF ~files[fd].writable THEN UNCHANGED <<ent, ind, bitmap, dir, rc, panic, hung, files>>
  ELSE WriteWith(fd, files[fd], WriteLoop(St, files[fd].ip, files[fd].off, iov))
SysWrite(fd, n) == Call /\ Fd2File(fd) /\ WriteIov(fd, <<n>>) /\ UNCHANGED cwd
SysWritev(fd, iov) == Call /\ Fd2File(fd) /\ WriteIov(fd, iov) /\ UNCHANGED cwd

\* stati: st_mode from the type; any other type PANICs.
StatI(s, ip) ==
  IF s.ent[ip].type \in {"regular", "directory", "device"} THEN s ELSE [s EXCEPT !.panic = TRUE]
\* file_stat: a File of type FD_INODE (every File FsTree opens) has its
\* inode locked and stated.
FileStat(s, f) == StatI(s, f.ip)
SysFstat(fd) == Call /\ Fd2File(fd) /\ Apply(FileStat(St, files[fd])) /\ UNCHANGED <<cwd, files>>
\* newfstatat: namei, lock, stati, unlock, put.
StatAt(ip) ==
  IF ip = 0 THEN UNCHANGED <<ent, ind, bitmap, dir, rc, panic, hung>>
  ELSE Apply(InodePut(StatI(InodeGet(St, ip), ip), ip))
SysNewfstatat(path) == Call /\ StatAt(Namex(St, path, FALSE).ino) /\ UNCHANGED <<cwd, files>>

\* isdirempty: no live entry after "." and "..".
\* Mutant: the scan starts one record late, past the first real entry.
IsDirEmpty_SkipFirst(s, d) == \A k \in DOMAIN s.dir[d] : k > 3 => s.dir[d][k].ino = 0
IsDirEmpty(s, d) == \A k \in DOMAIN s.dir[d] : k > 2 => s.dir[d][k].ino = 0

\* unlinkat: refuses "." and "..", a missing name and a non-empty
\* directory; else the entry becomes a tombstone, the parent loses the
\* child directory's ".." link, dp is unlocked and put, and the child
\* loses one link and is put.  Each step receives the state the previous
\* one left: s0 with dp referenced, s1 with ip referenced too.
Tombstone(s1, dp, idx) ==
  [InodeWrite(s1, dp, (idx - 1) * DSIZE, DSIZE) EXCEPT !.dir[dp][idx] = Tomb]
\* Mutant: the parent loses a link whatever the child's type.
DropDotDot_Always(s2, dp, isdir) == [s2 EXCEPT !.ent[dp].links = @ - 1]
DropDotDot(s2, dp, isdir) == IF isdir THEN [s2 EXCEPT !.ent[dp].links = @ - 1] ELSE s2
UnlinkEntry(s1, dp, ip, idx) ==
  [InodePut(DropDotDot(Tombstone(s1, dp, idx), dp, s1.ent[ip].type = "directory"), dp)
     EXCEPT !.ent[ip].links = @ - 1]
UnlinkChild(s1, dp, ip, idx) ==
  IF s1.hang THEN Apply(s1)
  ELSE IF s1.ent[ip].links < 1 THEN panic' = TRUE /\ UNCHANGED <<ent, ind, bitmap, dir, rc, hung>>
  ELSE IF s1.ent[ip].type = "directory" /\ ~IsDirEmpty(s1, ip)
       THEN Apply(InodePut(InodePut(s1, ip), dp))
  ELSE Apply(InodePut(UnlinkEntry(s1, dp, ip, idx), ip))
UnlinkAt(s0, dp, name, lk) ==
  IF name \in {Dot, DotDot} \/ lk.ino = 0 THEN Apply(InodePut(s0, dp))
  ELSE UnlinkChild(InodeLock(InodeGet(s0, lk.ino), lk.ino, {dp}), dp, lk.ino, lk.idx)
UnlinkIn(pr) ==
  IF pr.ino = 0 THEN UNCHANGED <<ent, ind, bitmap, dir, rc, panic, hung>>
  ELSE UnlinkAt(InodeGet(St, pr.ino), pr.ino, pr.name, InodeLookup(St, pr.ino, pr.name))
SysUnlinkat(path) ==
  /\ Call
  /\ UnlinkIn(Namex(St, path, TRUE))
  /\ UNCHANGED <<cwd, files>>

\* chdir: namei, which must be a directory; the old cwd is put.
ChdirTo(ip) ==
  IF ip = 0 THEN UNCHANGED <<ent, ind, bitmap, dir, rc, panic, hung, cwd>>
  ELSE IF ent[ip].type # "directory" THEN Apply(InodePut(InodeGet(St, ip), ip)) /\ UNCHANGED cwd
  ELSE Apply(InodePut(InodeGet(St, ip), cwd)) /\ cwd' = ip
SysChdir(path) ==
  /\ Call
  /\ ChdirTo(Namex(St, path, FALSE).ino)
  /\ UNCHANGED files

Next ==
  \/ \E p \in Paths : SysMkdirat(p) \/ SysUnlinkat(p) \/ SysChdir(p) \/ SysNewfstatat(p)
  \/ \E p \in Paths, ma \in Majors : SysMknodat(p, ma)
  \/ \E p \in Paths, m \in Modes : SysOpenat(p, m)
  \/ \E fd \in Fds : SysClose(fd) \/ SysFstat(fd)
  \/ \E fd \in Fds, n \in Counts : SysRead(fd, n) \/ SysWrite(fd, n)
  \/ \E fd \in Fds, iov \in Iovs : SysWritev(fd, iov)

Spec == Init /\ [][Next]_vars

(***************************************************************************)
(* Properties.                                                            *)
(***************************************************************************)
TypeOK ==
  /\ ent \in [Inos -> [type : Types, links : 0 .. NINODE, size : 0 .. MAXBYTES,
                       addrs : [0 .. NDIRECT - 1 -> 0 .. NBLOCK], indirect : 0 .. NBLOCK,
                       major : {0} \cup Majors]]
  /\ ind \in [Blocks -> [0 .. NINDIRECT - 1 -> 0 .. NBLOCK]]
  /\ bitmap \subseteq Blocks
  /\ \A i \in Inos : dir[i] \in Seq(Entry)
  /\ rc \in [Inos -> 0 .. MaxOps + 2]
  /\ cwd \in Inos
  /\ \A fd \in Fds : files[fd] = NoFile \/ (files[fd].ip \in Inos /\ files[fd].off \in Nat)
  /\ panic \in BOOLEAN /\ hung \in BOOLEAN

Allocated == {i \in Inos : ent[i].type # "invalid"}

(* inode_read and inode_write ASSERT(offset <= num_bytes): the offset of  *)
(* every File on a regular file or directory stays within the size of the *)
(* inode it names, whatever reads and writes through other descriptors on *)
(* the same inode, unlinks, closes and reuses of inode numbers come       *)
(* between.  Device offsets are exempt: console_read ignores them.        *)
OffsetWithinFile ==
  \A fd \in Fds : files[fd] # NoFile /\ ent[files[fd].ip].type # "device" =>
                   files[fd].off <= ent[files[fd].ip].size

\* The directory tree: an edge for every live entry other than "." and "..".
LiveEntries == {dk \in UNION {{d} \X DOMAIN dir[d] : d \in Inos} : dir[dk[1]][dk[2]].ino # 0}
Tree == [node |-> Inos,
         edge |-> {<<dk[1], dir[dk[1]][dk[2]].ino>> :
                     dk \in {x \in LiveEntries : dir[x[1]][x[2]].name \notin {Dot, DotDot}}}]
Reachable == {ROOT} \cup Gr!Descendants(Tree, ROOT)

(* Spec 4.4 (num_links == 0 => unreachable) made exact: every inode       *)
(* reachable from the root has as many links as there are live entries    *)
(* other than "." naming it in reachable directories (its parent's entry   *)
(* and the ".." of each subdirectory), after any sequence of create,       *)
(* mkdirat, unlinkat and inode_put.  A dangling entry (a freed inode still *)
(* named) breaks it too.                                                   *)
LinkCountExact ==
  \A i \in Reachable :
    ent[i].links = Cardinality({dk \in LiveEntries : /\ dk[1] \in Reachable
                                                      /\ dir[dk[1]][dk[2]].ino = i
                                                      /\ dir[dk[1]][dk[2]].name # Dot})

\* The block file block k of inode i lives in, 0 for none.
BlockAt(i, k) ==
  IF k < NDIRECT THEN ent[i].addrs[k]
  ELSE IF ent[i].indirect = 0 THEN 0 ELSE ind[ent[i].indirect][k - NDIRECT]
Slots == (Inos \X {"addr"} \X (0 .. NDIRECT - 1)) \cup (Inos \X {"indirect"} \X {0})
           \cup (Inos \X {"entry"} \X (0 .. NINDIRECT - 1))
SlotBlock(sl) ==
  CASE sl[2] = "addr"     -> ent[sl[1]].addrs[sl[3]]
    [] sl[2] = "indirect" -> ent[sl[1]].indirect
    [] sl[2] = "entry"    -> BlockAt(sl[1], NDIRECT + sl[3])
UsedSlots == {sl \in Slots : sl[1] \in Allocated /\ SlotBlock(sl) # 0}

MappedExactly ==
  \A i \in Allocated :
    /\ \A k \in 0 .. NDIRECT + NINDIRECT - 1 : (BlockAt(i, k) # 0) <=> (k * BSIZE < ent[i].size)
    /\ (ent[i].indirect # 0) <=> (ent[i].size > NDIRECT * BSIZE)

(* Reference path resolution (spec 4.5): the path split at its slashes   *)
(* into its elements, walked element by element through directories.      *)
Starts(p) == {k \in DOMAIN p : p[k] # "/" /\ (k = 1 \/ p[k - 1] = "/")}
ElemEnd(p, k) == CHOOSE j \in k .. Len(p) : (\A m \in k .. j : p[m] # "/") /\ (j = Len(p) \/ p[j + 1] = "/")
Elems(p) ==
  LET st(n) == CHOOSE k \in Starts(p) : Cardinality({j \in Starts(p) : j < k}) = n - 1
  IN [n \in 1 .. Cardinality(Starts(p)) |-> SubSeq(p, st(n), ElemEnd(p, st(n)))]
\* Every element is shorter than FILE_NAME_MAX_LENGTH, so spec 4.5 keeps it
\* whole (it cuts at FILE_NAME_MAX_LENGTH - 1).
ElemsFit(p) == \A k \in DOMAIN Elems(p) : Len(Elems(p)[k]) < MAXNAME
RefStep(cur, e) ==
  IF cur = 0 \/ ent[cur].type # "directory" THEN 0 ELSE InodeLookup(St, cur, e).ino
RefFrom(p) == IF p # <<>> /\ Head(p) = "/" THEN ROOT ELSE cwd
RefParent(p) ==
  LET es == Elems(p)
      d  == IF es = <<>> THEN 0 ELSE SE!FoldLeft(RefStep, RefFrom(p), SubSeq(es, 1, Len(es) - 1))
  IN IF d # 0 /\ ent[d].type = "directory" THEN d ELSE 0

(* skipelem and the namex loop resolve every path whose elements spec 4.5 *)
(* keeps whole as the reference does: namei finds the inode the element-   *)
(* by-element walk reaches (the start for a path with no element), and     *)
(* nameiparent the directory holding the last element together with that  *)
(* element's name.  Longer elements are where code and spec part.          *)
NamexAgrees ==
  \A p \in {q \in Paths : ElemsFit(q)} :
    /\ Namex(St, p, FALSE).ino = SE!FoldLeft(RefStep, RefFrom(p), Elems(p))
    /\ Namex(St, p, TRUE).ino = RefParent(p)
    /\ RefParent(p) # 0 => Namex(St, p, TRUE).name = Elems(p)[Len(Elems(p))]

(* Spec 4.4: an inode is freed once it is neither reachable nor held.    *)
(* After any sequence of mkdirat, chdir, unlinkat and inode_put, every     *)
(* allocated inode can be walked to (".." included) from the root or from *)
(* an inode some cwd or File still references, whose put or unlink can    *)
(* still free it.                                                          *)
\* Every live entry other than ".": the way a process can walk, ".." included.
Walkable == [node |-> Inos,
             edge |-> {<<dk[1], dir[dk[1]][dk[2]].ino>> :
                         dk \in {x \in LiveEntries : dir[x[1]][x[2]].name # Dot}}]
Anchors == {ROOT} \cup {j \in Inos : rc[j] > 0}
NoOrphan == Allocated \subseteq Anchors \cup UNION {Gr!Descendants(Walkable, j) : j \in Anchors}

(***************************************************************************)
(* Refinement: the names reachable from the root, as Namespace sees them. *)
(***************************************************************************)
\* The live entries of directory d other than "." and "..".
Named(d) == {k \in DOMAIN dir[d] : dir[d][k].ino # 0 /\ dir[d][k].name \notin {Dot, DotDot}}
\* The <<path, type>> pairs below directory d, reached by path pre, k levels deep.
RECURSIVE NamesUnder(_, _, _)
NamesUnder(d, pre, k) ==
  IF k = 0 THEN {}
  ELSE UNION {{<<Append(pre, dir[d][j].name), ent[dir[d][j].ino].type>>} \cup
                (IF ent[dir[d][j].ino].type = "directory"
                 THEN NamesUnder(dir[d][j].ino, Append(pre, dir[d][j].name), k - 1)
                 ELSE {}) : j \in Named(d)}
NameTree == NamesUnder(ROOT, <<>>, NINODE - 1)

NS == INSTANCE Namespace WITH tree <- NameTree

(* The calls keep the user's promise of spec 7 and 8 about names: every   *)
(* mkdirat, mknodat and openat(O_CREAT) either changes nothing visible    *)
(* from the root or adds one fresh name to a directory that is visible,   *)
(* and every unlinkat removes one name, a directory only when isdirempty  *)
(* found nothing below it; no call changes the type a path names.         *)
RefinesNamespace == NS!NSpec
=============================================================================
