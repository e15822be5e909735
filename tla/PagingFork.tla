----------------------------- MODULE PagingFork -----------------------------
(***************************************************************************)
(* A lineage of paged processes.  fork changes nothing in the parent's     *)
(* paging state and parent and child share none of it afterwards, so Fork  *)
(* hands the process of Paging over to its child: the variables are the    *)
(* parent's before the step and the child's after it.                      *)
(***************************************************************************)
EXTENDS Paging

(* copyuvm copies the pages that are present, flags included, and passes   *)
(* over the swapped ones, for which the child gets an empty entry; a page  *)
(* that is neither makes it panic.                                         *)
copyuvm == [p \in Pages |-> IF p * PGSIZE < sz /\ pte[p].P
                            THEN Touched({0, StackPage})[p] ELSE NoPTE]
Uncopyable == \E p \in Pages : p * PGSIZE < sz /\ ~ pte[p].P /\ ~ pte[p].PG

CopiedSlots ==
  [k \in 1 .. numberOfPagedOut |-> swapFile[IF k <= Len(swapFile) THEN k ELSE Len(swapFile)]]

(* pagesDS, both queues, fileOffset and the counters are copied as they    *)
(* are.  The slot buffer is not checked: without one, kfree(0) panics.  A *)
(* fork that fails in copyuvm changes nothing.                             *)
Fork ==
  /\ Syscall
  /\ \/ /\ Uncopyable
        /\ status' = "panic: copyuvm" /\ UNCHANGED <<pte, swapFile>>
     \/ /\ ~ Uncopyable /\ KallocMayFail
        /\ status' = "panic: kfree" /\ UNCHANGED <<pte, swapFile>>
     \/ /\ ~ Uncopyable
        /\ pte' = copyuvm /\ swapFile' = CopiedSlots /\ UNCHANGED status
  /\ UNCHANGED <<Selection, sz, ds, pc, page, newsz, victim, slot>>

ForkNext == Next \/ Fork

ForkSpec == Init /\ [][ForkNext]_vars

-----------------------------------------------------------------------------

(* What the process would read from each page, following pagesDS as trap() *)
(* does rather than the PG bit.                                            *)
Readable ==
  [p \in Pages |->
     IF pte[p].P THEN pte[p].data
     ELSE LET mine == {i \in Index : pagesDS[i].isAllocated /\ pagesDS[i].v_address = p}
          IN IF mine = {} THEN Unmapped
             ELSE FileRead(swapFile, pagesDS[CHOOSE i \in First(mine) : TRUE].file_offset)]

(* fork gives the child a copy of its parent's memory (proc.c: "Create a   *)
(* new process copying p as the parent").                                  *)
ForkCopiesMemory == [][Fork => Readable' = Readable]_vars

=============================================================================
