-------------------------------- MODULE Proc --------------------------------
(***************************************************************************)
(* The process table, the scheduler and sleep/wakeup (proc.c), with the    *)
(* traps that enter them (trap.c) and the clock as the channel processes   *)
(* sleep on (sysproc.c).                                                   *)
(*                                                                         *)
(* What a CPU does between acquiring and releasing ptable.lock is one step *)
(* where it does not switch; where it does, the lock passes from the       *)
(* process to the scheduler and on to the next process, and is a variable. *)
(* tickslock is one too: sleep gives it up while it holds the other.       *)
(*                                                                         *)
(* Pids are never reused, so a pid is modelled by whether the slot has one.*)
(***************************************************************************)
EXTENDS Integers, FiniteSets

CONSTANTS
  NPROC,          \* slots of the process table (64)
  NCPU,           \* processors; the first one counts ticks
  SleepTicks,     \* arguments of the sleep system call
  KallocMayFail,  \* whether kalloc may return 0
  StrayKills      \* whether programs also kill pids of no process

ASSUME ProcAssumption ==
  /\ NPROC \in Nat \ {0} /\ NCPU \in Nat \ {0} /\ SleepTicks \subseteq Nat
  /\ KallocMayFail \in BOOLEAN /\ StrayKills \in BOOLEAN

VARIABLES
  proc,       \* ptable.proc, with where each process is in the kernel
  cpu,        \* what each CPU runs, where its scheduler is, its interrupt
  lock,       \* the CPU that holds ptable.lock
  tickslock   \* the CPU that holds tickslock

vars == <<proc, cpu, lock, tickslock>>

-----------------------------------------------------------------------------

Slot     == 1 .. NPROC
CPU      == 1 .. NCPU
None     == 0
initproc == 1
ticks    == NPROC + 1   \* the address of ticks, as a channel

States == {"UNUSED", "EMBRYO", "SLEEPING", "RUNNABLE", "RUNNING", "ZOMBIE"}

(* at: in user mode, at a system call's dispatch, or inside fork, exit,    *)
(* wait or sleep.  np is fork's new process, left the ticks sleep still    *)
(* waits for (n - (ticks - ticks0)).                                       *)
Places == {"user", "syscall", "fork", "forked", "exit", "wait", "ticks", "tosleep", "relock"}
Process == [state : States, pid : BOOLEAN, parent : Slot \cup {None}, killed : BOOLEAN,
            chan : Slot \cup {None, ticks}, kstack : BOOLEAN, at : Places,
            np : Slot \cup {None}, left : Nat]

UnusedSlot == [state |-> "UNUSED", pid |-> FALSE, parent |-> None, killed |-> FALSE,
               chan |-> None, kstack |-> FALSE, at |-> "user", np |-> None, left |-> 0]

First(S) == {i \in S : \A j \in S : i <= j}

Init ==
  /\ proc = [p \in Slot |-> IF p = initproc
                            THEN [UnusedSlot EXCEPT !.state = "RUNNABLE", !.pid = TRUE, !.kstack = TRUE]
                            ELSE UnusedSlot]
  /\ cpu = [c \in CPU |-> [proc |-> None, scan |-> 1, intr |-> "none"]]
  /\ lock = None /\ tickslock = None

(* The process of CPU c executes, with the locks it may hold.              *)
Current(c, p) == cpu[c].proc = p /\ proc[p].state = "RUNNING" /\ cpu[c].intr = "none"
Runs(c, p, place) == Current(c, p) /\ lock # c /\ proc[p].at = place

wakeup1(t, ch) ==
  [p \in Slot |-> IF t[p].state = "SLEEPING" /\ t[p].chan = ch
                  THEN [t[p] EXCEPT !.state = "RUNNABLE"] ELSE t[p]]

-----------------------------------------------------------------------------
(* Entering and leaving the kernel.                                        *)

(* trap(): a killed process gets no further than the exit.                 *)
Trap(c, p) ==
  /\ Runs(c, p, "user")
  /\ proc' = [proc EXCEPT ![p].at = IF proc[p].killed THEN "exit" ELSE "syscall"]
  /\ UNCHANGED <<cpu, lock, tickslock>>

(* The system calls that leave the process table alone, and a fork that    *)
(* finds no slot.  init.c is a loop of fork and wait that ends, and takes  *)
(* the kernel with it, when a fork fails: init's forks do not fail here.   *)
SysReturn(c, p) ==
  /\ Runs(c, p, "syscall") /\ p # initproc
  /\ proc' = [proc EXCEPT ![p].at = "user"]
  /\ UNCHANGED <<cpu, lock, tickslock>>

ExitCall(c, p) ==
  /\ Runs(c, p, "syscall") /\ p # initproc
  /\ proc' = [proc EXCEPT ![p].at = "exit"]
  /\ UNCHANGED <<cpu, lock, tickslock>>

-----------------------------------------------------------------------------
(* fork                                                                    *)

allocproc(c, p) ==
  /\ Runs(c, p, "syscall") /\ lock = None
  /\ \E q \in First({q \in Slot : proc[q].state = "UNUSED"}) :
       proc' = [proc EXCEPT ![q].state = "EMBRYO", ![q].pid = TRUE,
                            ![p].at = "fork", ![p].np = q]
  /\ UNCHANGED <<cpu, lock, tickslock>>

(* No memory for the stack or for the page table.  The slot keeps its pid. *)
ForkFails(c, p) ==
  /\ Runs(c, p, "fork") /\ KallocMayFail /\ p # initproc
  /\ proc' = [proc EXCEPT ![proc[p].np].state = "UNUSED", ![p].at = "user", ![p].np = None]
  /\ UNCHANGED <<cpu, lock, tickslock>>

(* The child is set up without the lock; it starts in forkret.             *)
ForkCopies(c, p) ==
  /\ Runs(c, p, "fork")
  /\ proc' = [proc EXCEPT ![proc[p].np].kstack = TRUE, ![proc[p].np].parent = p,
                          ![proc[p].np].at = "user", ![p].at = "forked"]
  /\ UNCHANGED <<cpu, lock, tickslock>>

ForkReturns(c, p) ==
  /\ Runs(c, p, "forked") /\ lock = None
  /\ proc' = [proc EXCEPT ![proc[p].np].state = "RUNNABLE", ![p].at = "user", ![p].np = None]
  /\ UNCHANGED <<cpu, lock, tickslock>>

-----------------------------------------------------------------------------
(* exit, wait and kill                                                     *)

(* Children go to init, which is woken for the zombies among them.         *)
AdoptedNone(t, p) == t
Adopted(t, p) ==
  LET mine == {q \in Slot : t[q].parent = p}
      a == [q \in Slot |-> IF q \in mine THEN [t[q] EXCEPT !.parent = initproc] ELSE t[q]]
  IN IF \E q \in mine : t[q].state = "ZOMBIE" THEN wakeup1(a, initproc) ELSE a

(* exit, under the lock; it keeps it and calls sched.                      *)
exitUnlocked(c, p) ==
  /\ Runs(c, p, "exit") /\ lock = None
  /\ proc' = [Adopted(wakeup1(proc, proc[p].parent), p) EXCEPT ![p].state = "ZOMBIE"]
  /\ UNCHANGED <<cpu, lock, tickslock>>
exitSilent(c, p) ==
  /\ Runs(c, p, "exit") /\ lock = None
  /\ proc' = [Adopted(proc, p) EXCEPT ![p].state = "ZOMBIE"]
  /\ lock' = c
  /\ UNCHANGED <<cpu, tickslock>>
exit(c, p) ==
  /\ Runs(c, p, "exit") /\ lock = None
  /\ proc' = [Adopted(wakeup1(proc, proc[p].parent), p) EXCEPT ![p].state = "ZOMBIE"]
  /\ lock' = c
  /\ UNCHANGED <<cpu, tickslock>>

WaitCall(c, p) ==
  /\ Runs(c, p, "syscall") /\ lock = None
  /\ proc' = [proc EXCEPT ![p].at = "wait"] /\ lock' = c
  /\ UNCHANGED <<cpu, tickslock>>

Reaped(s) == [s EXCEPT !.state = "UNUSED", !.pid = FALSE, !.parent = None,
                       !.kstack = FALSE, !.killed = FALSE, !.at = "user"]

(* A turn of wait's loop; the lock is held throughout.                     *)
wait(c, p) ==
  LET kids == {q \in Slot : proc[q].parent = p}
      dead == {q \in kids : proc[q].state = "ZOMBIE"}
  IN
  /\ Current(c, p) /\ lock = c /\ proc[p].at = "wait"
  /\ \/ \E q \in First(dead) :
          /\ proc' = [proc EXCEPT ![q] = Reaped(@), ![p].at = "user"]
          /\ lock' = None
     \/ /\ dead = {} /\ (kids = {} \/ proc[p].killed)
        /\ proc' = [proc EXCEPT ![p].at = "user"]
        /\ lock' = None
     \/ /\ dead = {} /\ kids # {} /\ ~ proc[p].killed
        /\ proc' = [proc EXCEPT ![p].state = "SLEEPING", ![p].chan = p]
        /\ UNCHANGED lock
  /\ UNCHANGED <<cpu, tickslock>>

(* kill by the pid of a process, or by one no process has: the scan does   *)
(* not look at the state, so 0 finds the first slot that has no pid.       *)
Targets ==
  {q \in Slot : proc[q].pid /\ proc[q].state \notin {"UNUSED", "EMBRYO"}}
    \cup (IF StrayKills THEN {q \in Slot : proc[q].pid} \cup First({q \in Slot : ~ proc[q].pid})
          ELSE {})

(* kill wakes the process, whatever it sleeps on.                          *)
AwakenedNot(s) == s
Awakened(s) == IF s = "SLEEPING" THEN "RUNNABLE" ELSE s

(* Nobody kills init: its exit is a panic.                                 *)
kill(c, p, q) ==
  /\ Runs(c, p, "syscall") /\ lock = None /\ p # initproc
  /\ q \in Targets /\ q # initproc
  /\ proc' = [proc EXCEPT ![q].killed = TRUE,
                          ![q].state = Awakened(@),
                          ![p].at = "user"]
  /\ UNCHANGED <<cpu, lock, tickslock>>

-----------------------------------------------------------------------------
(* The sleep system call, whose loop shows the use of sleep().             *)

SleepCall(c, p, n) ==
  /\ Runs(c, p, "syscall") /\ tickslock = None /\ p # initproc
  /\ proc' = [proc EXCEPT ![p].at = "ticks", ![p].left = n]
  /\ tickslock' = c
  /\ UNCHANGED <<cpu, lock>>

sys_sleep(c, p) ==
  /\ Runs(c, p, "ticks")
  /\ IF proc[p].left = 0 \/ proc[p].killed
     THEN /\ proc' = [proc EXCEPT ![p].at = "user", ![p].left = 0]
          /\ tickslock' = None
     ELSE /\ proc' = [proc EXCEPT ![p].at = "tosleep"]
          /\ UNCHANGED tickslock
  /\ UNCHANGED <<cpu, lock>>

(* sleep(): tickslock is released only once ptable.lock is held.           *)
sleepUnlocked(c, p) ==
  /\ Runs(c, p, "tosleep")
  /\ IF tickslock = c
     THEN tickslock' = None /\ UNCHANGED <<proc, lock>>
     ELSE /\ lock = None /\ lock' = c
          /\ proc' = [proc EXCEPT ![p].state = "SLEEPING", ![p].chan = ticks, ![p].at = "relock"]
          /\ UNCHANGED tickslock
  /\ UNCHANGED cpu
sleep(c, p) ==
  /\ Runs(c, p, "tosleep") /\ lock = None
  /\ lock' = c /\ tickslock' = None
  /\ proc' = [proc EXCEPT ![p].state = "SLEEPING", ![p].chan = ticks, ![p].at = "relock"]
  /\ UNCHANGED cpu

relock(c, p) ==
  /\ Runs(c, p, "relock") /\ tickslock = None
  /\ proc' = [proc EXCEPT ![p].at = "ticks"]
  /\ tickslock' = c
  /\ UNCHANGED <<cpu, lock>>

-----------------------------------------------------------------------------
(* The scheduler.                                                          *)

(* sched(): off the process's stack, with the lock.                        *)
sched(c) ==
  /\ cpu[c].proc # None /\ lock = c /\ proc[cpu[c].proc].state # "RUNNING"
  /\ cpu' = [cpu EXCEPT ![c].proc = None]
  /\ UNCHANGED <<proc, lock, tickslock>>

scheduler(c) ==
  /\ cpu[c].proc = None /\ cpu[c].intr = "none" /\ lock = None
  /\ lock' = c /\ cpu' = [cpu EXCEPT ![c].scan = 1]
  /\ UNCHANGED <<proc, tickslock>>

ReadyAny(c) == {p \in Slot : proc[p].state = "RUNNABLE"}
Ready(c) == {p \in Slot : p >= cpu[c].scan /\ proc[p].state = "RUNNABLE"}

(* swtch to the next runnable process of the pass.  It releases the lock   *)
(* (in yield, sleep or forkret), unless it sleeps in wait.                 *)
Switch(c) ==
  /\ cpu[c].proc = None /\ lock = c
  /\ \E p \in First(Ready(c)) :
       /\ proc' = [proc EXCEPT ![p].state = "RUNNING", ![p].chan = None]
       /\ cpu' = [cpu EXCEPT ![c].proc = p, ![c].scan = p + 1]
       /\ lock' = IF proc[p].at = "wait" THEN lock ELSE None
  /\ UNCHANGED tickslock

PassEnds(c) ==
  /\ cpu[c].proc = None /\ lock = c /\ Ready(c) = {}
  /\ lock' = None
  /\ UNCHANGED <<proc, cpu, tickslock>>

-----------------------------------------------------------------------------
(* The clock interrupt.  It is off while a lock is held.                   *)

Interruptible(c) ==
  /\ cpu[c].intr = "none" /\ lock # c /\ tickslock # c
  /\ cpu[c].proc # None => proc[cpu[c].proc].state = "RUNNING"
                             /\ proc[cpu[c].proc].at \notin {"ticks", "tosleep"}

Timer(c) ==
  /\ Interruptible(c) /\ (c = 1 \/ cpu[c].proc # None)
  /\ cpu' = [cpu EXCEPT ![c].intr = IF c = 1 THEN "clock" ELSE "yield"]
  /\ UNCHANGED <<proc, lock, tickslock>>

ClockLock(c) ==
  /\ cpu[c].intr = "clock" /\ tickslock = None
  /\ tickslock' = c /\ cpu' = [cpu EXCEPT ![c].intr = "tick"]
  /\ UNCHANGED <<proc, lock>>

(* The ticks sleep(n) still waits for, after one more.                     *)
CountedBelow(n) == n - 1
Counted(n) == IF n > 0 THEN n - 1 ELSE 0

(* ticks++ and wakeup(&ticks).                                             *)
Tick(c) ==
  /\ cpu[c].intr = "tick" /\ lock = None
  /\ proc' = wakeup1([p \in Slot |-> [proc[p] EXCEPT !.left = Counted(@)]], ticks)
  /\ tickslock' = None
  /\ cpu' = [cpu EXCEPT ![c].intr = IF cpu[c].proc = None THEN "none" ELSE "yield"]
  /\ UNCHANGED lock

(* The end of trap(): a killed process exits, any other gives up the CPU.  *)
yield(c) ==
  LET p == cpu[c].proc IN
  /\ cpu[c].intr = "yield"
  /\ cpu' = [cpu EXCEPT ![c].intr = "none"]
  /\ IF proc[p].at = "user" /\ proc[p].killed
     THEN proc' = [proc EXCEPT ![p].at = "exit"] /\ UNCHANGED lock
     ELSE /\ lock = None /\ lock' = c
          /\ proc' = [proc EXCEPT ![p].state = "RUNNABLE"]
  /\ UNCHANGED tickslock

-----------------------------------------------------------------------------

Call(c, p) ==
  \/ Trap(c, p) \/ SysReturn(c, p) \/ ExitCall(c, p) \/ allocproc(c, p) \/ WaitCall(c, p)
  \/ \E q \in Slot : kill(c, p, q)
  \/ \E n \in SleepTicks : SleepCall(c, p, n)

Kernel(c, p) ==
  \/ ForkFails(c, p) \/ ForkCopies(c, p) \/ ForkReturns(c, p) \/ exit(c, p) \/ wait(c, p)
  \/ sys_sleep(c, p) \/ sleep(c, p) \/ relock(c, p)

Scheduling(c) == sched(c) \/ scheduler(c) \/ Switch(c) \/ PassEnds(c)
Interrupt(c) == ClockLock(c) \/ Tick(c) \/ yield(c)

Next == \E c \in CPU :
          \/ \E p \in Slot : Call(c, p) \/ Kernel(c, p)
          \/ Scheduling(c) \/ Timer(c) \/ Interrupt(c)

(* On one CPU nobody else holds a lock.  The interrupt handler runs to its *)
(* end; a pending interrupt is taken once interrupts are on; the scheduler *)
(* and a process in the kernel get on between ticks; init goes on forking  *)
(* and waiting.  User code need never trap.                                *)
Progress(c, p) ==
  Kernel(c, p) \/ SysReturn(c, p) \/ ExitCall(c, p) \/ (p = initproc /\ Call(c, p))

Fairness ==
  \A c \in CPU :
    /\ WF_vars(Interrupt(c)) /\ SF_vars(Timer(c)) /\ SF_vars(Scheduling(c))
    /\ \A p \in Slot : SF_vars(Progress(c, p))

Spec == Init /\ [][Next]_vars /\ Fairness

-----------------------------------------------------------------------------
(* Properties.                                                             *)

TypeOK ==
  /\ proc \in [Slot -> Process]
  /\ cpu \in [CPU -> [proc : Slot \cup {None}, scan : 1 .. NPROC + 1,
                      intr : {"none", "clock", "tick", "yield"}]]
  /\ lock \in CPU \cup {None} /\ tickslock \in CPU \cup {None}

(* No two CPUs run the same process, and the stack a CPU runs on is not    *)
(* freed under it: a zombie's parent can free the stack only after sched   *)
(* has left it, because exit keeps ptable.lock across the switch.          *)
StackInUse ==
  \A c \in CPU : cpu[c].proc # None =>
    /\ proc[cpu[c].proc].kstack
    /\ \A d \in CPU : cpu[d].proc = cpu[c].proc => d = c

(* Every process but init has a parent that can still wait for it: exit    *)
(* hands its children over, also those that are zombies or not yet         *)
(* runnable.                                                               *)
ParentAlive ==
  \A p \in Slot : p # initproc /\ proc[p].state \notin {"UNUSED", "EMBRYO"} =>
    /\ proc[p].parent # None
    /\ proc[proc[p].parent].state \notin {"UNUSED", "EMBRYO", "ZOMBIE"}

(* No wakeup is lost: whoever sleeps has something to sleep for.  A parent *)
(* asleep in wait has children, none of them a zombie, and was not killed; *)
(* a process asleep on the clock has ticks to wait for.                    *)
SleepJustified ==
  lock = None => \A p \in Slot : proc[p].state = "SLEEPING" =>
    /\ proc[p].chan = p => /\ ~ proc[p].killed
                           /\ \E q \in Slot : proc[q].parent = p
                           /\ \A q \in Slot : proc[q].parent = p => proc[q].state # "ZOMBIE"
    /\ proc[p].chan = ticks => proc[p].left > 0

(* kill: "Kill the process with the given pid": it never reaches a process *)
(* that is created later in the same slot.                                 *)
UnusedNotKilled == \A p \in Slot : proc[p].state = "UNUSED" => ~ proc[p].killed

(* A killed process is gone in the end, wherever it was in the kernel and  *)
(* whatever it slept on.                                                   *)
KilledExits == \A p \in Slot \ {initproc} :
  proc[p].killed /\ proc[p].state # "UNUSED" ~> proc[p].state \in {"ZOMBIE", "UNUSED"}

(* A zombie whose parent is init is reaped, also one that had exited       *)
(* before its parent did; but wait takes the first zombie of the table, so *)
(* one in an earlier slot comes before it.                                 *)
InitZombie(p) == proc[p].state = "ZOMBIE" /\ proc[p].parent = initproc
OrphansReaped == \A p \in Slot \ {initproc} :
  InitZombie(p) ~> proc[p].state = "UNUSED" \/ \E q \in 1 .. p - 1 : InitZombie(q)

(* A runnable process runs: the scheduler's pass goes on behind the slot   *)
(* it last ran.                                                            *)
RunnableRuns == \A p \in Slot : proc[p].state = "RUNNABLE" ~> proc[p].state = "RUNNING"
=============================================================================
