-------------------------------- MODULE Log ---------------------------------
(***************************************************************************)
(* The file-system log (log.c): operations of several processes share one  *)
(* transaction, the last one to end commits it, and a crash at any point   *)
(* is followed by recovery from what is on the disk.                       *)
(*                                                                         *)
(* The disk writes one block at a time, atomically; the header is one      *)
(* block.  The cache holds what bread returns for a block: log_write pins  *)
(* a block it logs, so it stays there until it is installed.               *)
(***************************************************************************)
EXTENDS Integers, Sequences, FiniteSets

CONSTANTS
  Proc,           \* processes doing file-system operations
  Block, Data,    \* home blocks and what they may hold
  InitialDisk,    \* their contents at first
  MAXOPBLOCKS,    \* blocks begin_op reserves for an operation
  LOGSIZE,        \* blocks of the on-disk log, its header included
  OpBlocks,       \* blocks an operation really writes
  SwappedBuffers  \* whether an operation may fault on swapped user memory

ASSUME LogAssumption ==
  /\ MAXOPBLOCKS \in Nat \ {0} /\ LOGSIZE \in Nat \ {0} /\ MAXOPBLOCKS <= LOGSIZE
  /\ OpBlocks \in 0 .. MAXOPBLOCKS
  /\ InitialDisk \in [Block -> Data]
  /\ IsFiniteSet(Proc) /\ IsFiniteSet(Block) /\ SwappedBuffers \in BOOLEAN

VARIABLES
  disk,         \* home blocks on the disk
  logged,       \* blocks of the log on the disk
  head,         \* the header on the disk: home block numbers, in log order
  cache,        \* home blocks as the buffer cache shows them
  lh,           \* log.lh
  outstanding, committing,
  step, tail,   \* where commit or recovery is
  pc,           \* where each process is
  written,      \* blocks written by its operation
  panicked

diskvars == <<disk, logged, head>>
vars == <<disk, logged, head, cache, lh, outstanding, committing, step, tail, pc, written, panicked>>

-----------------------------------------------------------------------------

Init ==
  /\ disk = InitialDisk /\ cache = InitialDisk
  /\ logged \in [1 .. LOGSIZE - 1 -> {InitialDisk[b] : b \in Block}]
  /\ head = <<>> /\ lh = <<>>
  /\ outstanding = 0 /\ committing = FALSE
  /\ step = "none" /\ tail = 0
  /\ pc = [p \in Proc |-> "idle"] /\ written = [p \in Proc |-> {}]
  /\ panicked = FALSE

Up == ~ panicked /\ step \notin {"read_head", "recover"}

(* wakeup(&log): sleepers test begin_op's conditions again.                *)
WokenNone(q) == q
Woken(q) == [p \in Proc |-> IF q[p] = "asleep" THEN "begin"
                            ELSE IF q[p] = "asleep2" THEN "begin2" ELSE q[p]]

LogMayFill == Len(lh) + (outstanding + 1) * MAXOPBLOCKS > LOGSIZE
MustWaitSpace == LogMayFill
MustWaitCommit == committing
MustWait == committing \/ LogMayFill

begin_opUncounted(p, at, sleeping, entered) ==
  /\ Up /\ pc[p] \in at
  /\ pc' = [pc EXCEPT ![p] = IF MustWait THEN sleeping ELSE entered]
  /\ UNCHANGED <<diskvars, cache, lh, outstanding, committing, step, tail, written, panicked>>
begin_op(p, at, sleeping, entered) ==
  /\ Up /\ pc[p] \in at
  /\ IF MustWait
     THEN pc' = [pc EXCEPT ![p] = sleeping] /\ UNCHANGED outstanding
     ELSE pc' = [pc EXCEPT ![p] = entered] /\ outstanding' = outstanding + 1
  /\ UNCHANGED <<diskvars, cache, lh, committing, step, tail, written, panicked>>

BeginOp(p) == begin_op(p, {"idle", "begin"}, "asleep", "op")

Absorbed(b) == \E k \in DOMAIN lh : lh[k] = b

(* Blocks the operation of p may write; one that runs inside another has   *)
(* a reservation of its own.                                               *)
Budget(p) == IF pc[p] = "op2" THEN 2 * OpBlocks ELSE OpBlocks

log_write(p, b, d) ==
  /\ Up /\ pc[p] \in {"op", "op2"}
  /\ b \in written[p] \/ Cardinality(written[p]) < Budget(p)
  /\ IF Len(lh) >= LOGSIZE - 1
     THEN panicked' = TRUE /\ UNCHANGED <<cache, lh, written>>
     ELSE /\ cache' = [cache EXCEPT ![b] = d]
          /\ lh' = IF Absorbed(b) THEN lh ELSE Append(lh, b)
          /\ written' = [written EXCEPT ![p] = @ \cup {b}]
          /\ UNCHANGED panicked
  /\ UNCHANGED <<diskvars, outstanding, committing, step, tail, pc>>

(* The first half of end_op; the last operation out starts the commit.     *)
end_op(p, at, back) ==
  /\ Up /\ pc[p] = at
  /\ outstanding' = outstanding - 1
  /\ IF committing
     THEN panicked' = TRUE /\ UNCHANGED <<committing, step, tail, pc, written>>
     ELSE /\ IF outstanding = 1
             THEN /\ committing' = TRUE
                  /\ pc' = [pc EXCEPT ![p] = "commit"]
                  /\ step' = IF lh = <<>> THEN "committed" ELSE "write_log"
                  /\ tail' = 0
             ELSE /\ pc' = Woken([pc EXCEPT ![p] = back])
                  /\ UNCHANGED <<committing, step, tail>>
          /\ written' = IF back = "idle" THEN [written EXCEPT ![p] = {}] ELSE written
          /\ UNCHANGED panicked
  /\ UNCHANGED <<diskvars, cache, lh>>

EndOp(p) == end_op(p, "op", "idle")

(* Writing from a user buffer that is swapped out: the page fault swaps a  *)
(* page out, and filewrite on the swap file is an operation of its own,    *)
(* inside the one that faulted.                                            *)
FaultInOp(p) ==
  SwappedBuffers /\ begin_op(p, {"op", "begin2"}, "asleep2", "op2")
EndFault(p) == end_op(p, "op2", "op")

-----------------------------------------------------------------------------
(* commit() and recover_from_log(), a disk write at a time.                *)

write_log ==
  /\ Up /\ step = "write_log" /\ tail < Len(lh)
  /\ logged' = [logged EXCEPT ![tail + 1] = cache[lh[tail + 1]]]
  /\ tail' = tail + 1
  /\ UNCHANGED <<disk, head, cache, lh, outstanding, committing, step, pc, written, panicked>>

(* The commit point.                                                       *)
write_headEarly ==
  /\ Up /\ step = "write_log"
  /\ head' = lh
  /\ step' = "install" /\ tail' = 0
  /\ UNCHANGED <<disk, logged, cache, lh, outstanding, committing, pc, written, panicked>>
write_head ==
  /\ Up /\ step = "write_log" /\ tail = Len(lh)
  /\ head' = lh
  /\ step' = "install" /\ tail' = 0
  /\ UNCHANGED <<disk, logged, cache, lh, outstanding, committing, pc, written, panicked>>

install_trans ==
  /\ ~ panicked /\ step \in {"install", "recover"} /\ tail < Len(lh)
  /\ disk' = [disk EXCEPT ![lh[tail + 1]] = logged[tail + 1]]
  /\ cache' = [cache EXCEPT ![lh[tail + 1]] = logged[tail + 1]]
  /\ tail' = tail + 1
  /\ UNCHANGED <<logged, head, lh, outstanding, committing, step, pc, written, panicked>>

(* lh.n = 0 and write_head: the transaction is erased from the log.        *)
clear_head ==
  /\ ~ panicked /\ step \in {"install", "recover"} /\ tail = Len(lh)
  /\ lh' = <<>> /\ head' = <<>>
  /\ step' = IF step = "install" THEN "committed" ELSE "none"
  /\ tail' = 0
  /\ UNCHANGED <<disk, logged, cache, outstanding, committing, pc, written, panicked>>

(* The second half of end_op.                                              *)
CommitDone(p) ==
  /\ Up /\ step = "committed" /\ pc[p] = "commit"
  /\ committing' = FALSE
  /\ pc' = Woken([pc EXCEPT ![p] = "idle"])
  /\ step' = "none"
  /\ UNCHANGED <<diskvars, cache, lh, outstanding, tail, written, panicked>>

(* Power fails: only the disk is left.                                     *)
Crash ==
  /\ cache' = disk /\ lh' = <<>>
  /\ outstanding' = 0 /\ committing' = FALSE
  /\ step' = "read_head" /\ tail' = 0
  /\ pc' = [p \in Proc |-> "idle"] /\ written' = [p \in Proc |-> {}]
  /\ panicked' = FALSE
  /\ UNCHANGED diskvars

read_head ==
  /\ step = "read_head"
  /\ lh' = head
  /\ step' = "recover" /\ tail' = 0
  /\ UNCHANGED <<diskvars, cache, outstanding, committing, pc, written, panicked>>

Operation(p) ==
  \/ BeginOp(p) \/ EndOp(p) \/ FaultInOp(p) \/ EndFault(p)
  \/ \E b \in Block, d \in Data : log_write(p, b, d)

LogStep == write_log \/ write_head \/ install_trans \/ clear_head \/ read_head
           \/ \E p \in Proc : CommitDone(p)

Next == (\E p \in Proc : Operation(p)) \/ LogStep \/ Crash

(* Every operation that has begun ends, a woken process runs, and the disk *)
(* answers.  No process is obliged to begin an operation.                  *)
Fairness ==
  /\ WF_vars(LogStep)
  /\ \A p \in Proc : /\ WF_vars(EndOp(p)) /\ WF_vars(EndFault(p))
                     /\ WF_vars(pc[p] = "begin" /\ BeginOp(p))
                     /\ WF_vars(pc[p] = "begin2" /\ FaultInOp(p))

Spec == Init /\ [][Next]_vars /\ Fairness
-----------------------------------------------------------------------------
(* Properties.                                                             *)

TypeOK ==
  /\ disk \in [Block -> Data] /\ cache \in [Block -> Data]
  /\ logged \in [1 .. LOGSIZE - 1 -> Data]
  /\ head \in Seq(Block) /\ lh \in Seq(Block)
  /\ outstanding \in Nat /\ committing \in BOOLEAN /\ panicked \in BOOLEAN
  /\ step \in {"none", "write_log", "install", "committed", "read_head", "recover"}
  /\ tail \in 0 .. LOGSIZE - 1
  /\ pc \in [Proc -> {"idle", "begin", "asleep", "op", "begin2", "asleep2", "op2", "commit"}]
  /\ written \in [Proc -> SUBSET Block]

(* The disk as recovery would leave it.                                    *)
Recovered ==
  [b \in Block |-> IF \E k \in DOMAIN head : head[k] = b
                   THEN logged[CHOOSE k \in DOMAIN head : head[k] = b] ELSE disk[b]]
InOp(p) == pc[p] \in {"op", "begin2", "asleep2", "op2"}

Atomic == INSTANCE AtomicDisk
            WITH durable <- Recovered,
                 volatile <- IF Up \/ panicked THEN cache ELSE Recovered,
                 active <- {p \in Proc : InOp(p)}

(* Crash atomicity: whatever the interleaving of operations, commit and    *)
(* crashes (in recovery too), what recovery leaves is the state at a       *)
(* moment when no operation was half done, and the writes of an installed  *)
(* transaction are all there.                                              *)
DiskIsAtomic == Atomic!Spec

(* commit() runs alone: no operation is between begin_op and end_op, so    *)
(* the cache blocks it copies do not change under it (log.c: "The logging  *)
(* system only commits when there are no FS system calls active").         *)
CommitsAlone == committing => outstanding = 0 /\ \A p \in Proc : ~ InOp(p)


(* A process asleep in begin_op is woken: each end_op either wakes it or   *)
(* commits, and the commit wakes it.                                       *)
SleepersWake == \A p \in Proc : pc[p] \in {"asleep", "asleep2"} ~> pc[p] \notin {"asleep", "asleep2"}

(* log_write never finds the log full and end_op never finds a commit      *)
(* running: begin_op has reserved the space and waited.  The header takes  *)
(* one of the LOGSIZE blocks begin_op counts, so this needs operations     *)
(* that together leave one block of their reservations unused.             *)
NoLogPanic == ~ panicked

=============================================================================
