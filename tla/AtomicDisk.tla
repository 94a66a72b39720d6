----------------------------- MODULE AtomicDisk -----------------------------
(***************************************************************************)
(* What the journal of src/src/fs/cache.c promises (spec 4.3, "atomic      *)
(* group commit"): writes go to memory and join the pending group; a      *)
(* commit makes the whole group durable at once with the contents memory  *)
(* holds; a power failure drops the group, and recovery restarts from     *)
(* the durable contents.  Nothing else ever changes what survives a crash.*)
(***************************************************************************)
CONSTANTS
  Blocks,   \* block numbers
  V0        \* contents of a block never written

VARIABLES
  mem,      \* contents seen through the buffer cache
  durable,  \* contents a crash and recovery would leave
  pending,  \* blocks written since the last commit
  up        \* FALSE between a power failure and the end of recovery

avars == <<mem, durable, pending, up>>

AInit ==
  /\ mem = [b \in Blocks |-> V0] /\ durable = [b \in Blocks |-> V0]
  /\ pending = {} /\ up = TRUE

\* A synced write of block b: only b's contents change; b joins the group.
AWrite(b) ==
  /\ up
  /\ \A x \in Blocks \ {b} : mem'[x] = mem[x]
  /\ pending' = pending \cup {b}
  /\ UNCHANGED <<durable, up>>

\* The group becomes durable with the contents memory holds.
ACommit ==
  /\ up /\ pending /= {}
  /\ durable' = [b \in Blocks |-> IF b \in pending THEN mem[b] ELSE durable[b]]
  /\ pending' = {}
  /\ UNCHANGED <<mem, up>>

\* Power failure: the pending group is lost.
ACrash ==
  /\ up' = FALSE /\ pending' = {}
  /\ UNCHANGED <<mem, durable>>

\* Recovery: memory restarts from the durable contents.
ARecover ==
  /\ ~up /\ up' = TRUE
  /\ mem' = durable
  /\ UNCHANGED <<durable, pending>>

ANext == (\E b \in Blocks : AWrite(b)) \/ ACommit \/ ACrash \/ ARecover

ASpec == AInit /\ [][ANext]_avars
=============================================================================
