------------------------------- MODULE Paging -------------------------------
(***************************************************************************)
(* The demand paging of ONE user process with pid > DEFAULT_PROCESSES: its *)
(* page table, the page table of the assignment (struct page pagesDS[]),   *)
(* the queue of resident pages, the queue of free swap-file slots and the  *)
(* swap file.  Pages are named by their number (va / PGSIZE), swap slots   *)
(* by theirs (file_offset / PGSIZE).                                       *)
(*                                                                         *)
(* Both queues are int[MAX_PSYC_PAGES] arrays padded with -1 at the end    *)
(* (fixQueue shifts left, insert takes the first -1), so each is modelled  *)
(* as the sequence before its padding.                                     *)
(*                                                                         *)
(* The kernel sleeps in writeToSwapFile, and the scheduler then ages the   *)
(* process's pages, so the handlers are split there: pc says where the     *)
(* process is.                                                             *)
(***************************************************************************)
EXTENDS Integers, Sequences, FiniteSets

CONSTANTS
  MAX_PSYC_PAGES,   \* resident pages a process may have (16)
  MAX_TOTAL_PAGES,  \* entries of pagesDS (32)
  PGSIZE,           \* units of process size in a page (4096 bytes)
  UINT,             \* the counters are uint: they wrap at UINT (2^32)
  AgeBits,          \* width of the age counter (32)
  Selections,       \* the builds considered: "SCFIFO", "NFUA", "LAPA", "AQ"
  ImagePages,       \* pages of text and data of the program
  Text, Zero,       \* contents of a text page and of a fresh page
  Values,           \* contents the program stores
  SbrkAmounts,      \* amounts the program grows or shrinks by
  SizeBound,        \* bound, by build: the program stops growing at this size
  PagedOutBound,    \* bound: no shrinking once numberOfPagedOut exceeds it
  WildAccess,       \* whether the program also touches pages it may not
  KallocMayFail     \* whether kalloc may return 0

ASSUME PagingAssumption ==
  /\ MAX_PSYC_PAGES \in Nat \ {0} /\ MAX_TOTAL_PAGES \in Nat \ {0}
  /\ MAX_PSYC_PAGES <= MAX_TOTAL_PAGES /\ MAX_TOTAL_PAGES < UINT
  /\ PGSIZE \in Nat \ {0} /\ UINT \in Nat \ {0} /\ AgeBits \in Nat \ {0}
  /\ ImagePages \in Nat \ {0} /\ ImagePages + 2 <= MAX_PSYC_PAGES
  /\ SbrkAmounts \subseteq Nat \ {0} /\ PagedOutBound \in Nat
  /\ Selections \subseteq {"SCFIFO", "NFUA", "LAPA", "AQ"}
  /\ SizeBound \in [Selections -> 0 .. PGSIZE * (MAX_TOTAL_PAGES + 1)]  \* a page too many
  /\ WildAccess \in BOOLEAN /\ KallocMayFail \in BOOLEAN

VARIABLES
  Selection,               \* the build flag; it never changes
  sz,                      \* proc->sz
  pte,                     \* the page table, with the contents of the frames
  pagesDS,                 \* proc->pagesDS
  inRAMQueue,              \* proc->inRAMQueue
  availableOffsetQueue,    \* proc->availableOffsetQueue
  fileOffset,              \* proc->fileOffset
  numberOfAllocatedPages,  \* proc->numberOfAllocatedPages
  numberOfPagedOut,        \* proc->numberOfPagedOut
  swapFile,                \* contents of the swap file, slot by slot
  pc,                      \* where the process is
  page,                    \* the page the running handler works on
  newsz,                   \* the size sbrk is going to
  victim, slot,            \* index and offset of swapToFile
  status                   \* "ok", or how the kernel went wrong

ds == <<pagesDS, inRAMQueue, availableOffsetQueue, fileOffset,
        numberOfAllocatedPages, numberOfPagedOut>>
vars == <<Selection, sz, pte, ds, swapFile, pc, page, newsz, victim, slot, status>>

-----------------------------------------------------------------------------

Index     == 0 .. MAX_TOTAL_PAGES - 1
Pages     == 0 .. MAX_TOTAL_PAGES
MaxSize   == PGSIZE * (MAX_TOTAL_PAGES + 1)
GuardPage == ImagePages
StackPage == ImagePages + 1
Contents  == Values \cup {Text, Zero}

(* An age is the set of the bits that are one in it; FreshAge is what an   *)
(* unused entry of pagesDS has.                                            *)
Bits     == 0 .. AgeBits - 1
TopBit   == AgeBits - 1
FreshAge == IF Selection = "LAPA" THEN Bits ELSE {}

(* A page table entry.  data stands for the frame's contents; it is only   *)
(* meaningful while P is set.                                              *)
PTE      == [P : BOOLEAN, PG : BOOLEAN, A : BOOLEAN, U : BOOLEAN, data : Contents]
NoPTE    == [P |-> FALSE, PG |-> FALSE, A |-> FALSE, U |-> FALSE, data |-> Zero]
UserPTE(d) == [P |-> TRUE, PG |-> FALSE, A |-> FALSE, U |-> TRUE, data |-> d]

Entry == [v_address : Pages, file_offset : Nat \cup {-1},
          in_RAM : BOOLEAN, isAllocated : BOOLEAN, age : SUBSET Bits]

PGROUNDUP(n) == (n + PGSIZE - 1) \div PGSIZE

(* The image exec leaves behind: text and data, the guard page whose U bit *)
(* clearpteu clears, and the stack.                                        *)
ImagePTE ==
  [p \in Pages |-> IF p < ImagePages THEN UserPTE(Text)
                   ELSE IF p = GuardPage THEN [UserPTE(Zero) EXCEPT !.U = FALSE]
                   ELSE IF p = StackPage THEN UserPTE(Zero) ELSE NoPTE]

ImageDS(age) ==
  [i \in Index |-> [v_address |-> IF i <= StackPage THEN i ELSE 0, file_offset |-> -1,
                    in_RAM |-> i <= StackPage, isAllocated |-> i <= StackPage,
                    age |-> age[i]]]

Init ==
  /\ Selection \in Selections
  /\ sz = PGSIZE * (ImagePages + 2)
  /\ pte = ImagePTE
  /\ pagesDS = ImageDS([i \in Index |-> FreshAge])
  /\ inRAMQueue = [i \in 1 .. ImagePages + 2 |-> i - 1]
  /\ availableOffsetQueue = <<>> /\ fileOffset = 0
  /\ numberOfAllocatedPages = ImagePages + 2 /\ numberOfPagedOut = 0
  /\ swapFile = <<>>
  /\ pc = "user" /\ page = 0 /\ newsz = 0 /\ victim = 0 /\ slot = 0
  /\ status = "ok"

-----------------------------------------------------------------------------
(* Queues and the page selection policies.                                 *)

(* fixQueue(k): close the gap the removed element leaves.                  *)
fixQueueHead(q, k) == Tail(q)
fixQueue(q, k) == SubSeq(q, 1, k - 1) \o SubSeq(q, k + 1, Len(q))

(* What a scan of an array settles on: the least of the matching indices,  *)
(* as a set of at most one element.                                        *)
First(S) == {i \in S : \A j \in S : i <= j}

(* The entries of pagesDS recorded for a page; the scans of trap() and     *)
(* swapToFile do not look at isAllocated.                                  *)
EntriesFor(p) == {i \in Index : pagesDS[i].v_address = p}

Touched(S) == [p \in Pages |-> IF p \in S THEN [pte[p] EXCEPT !.A = TRUE] ELSE pte[p]]
ClearA(t, S) == [p \in Pages |-> IF p \in S THEN [t[p] EXCEPT !.A = FALSE] ELSE t[p]]

(* Second chance: the first page not accessed goes, the accessed ones      *)
(* before it lose their A bit and move to the back.  If all were accessed  *)
(* the oldest goes.  On a queue that is not full the scan then runs into   *)
(* the -1 padding and reads pagesDS[-1], the bytes of proc->name: the PTE  *)
(* it finds for that address is usually NULL, so the A bit it tests and    *)
(* clears may be a bit of the program's first word.                        *)
removeSCFIFO(t) ==
  LET q == inRAMQueue
      pg(i) == pagesDS[q[i]].v_address
      idle == {i \in DOMAIN q : ~ t[pg(i)].A}
  IN IF idle # {}
     THEN \E k \in First(idle) :
          /\ victim' = q[k]
          /\ inRAMQueue' = SubSeq(q, k + 1, Len(q)) \o SubSeq(q, 1, k - 1)
          /\ pte' = ClearA(t, {pg(i) : i \in 1 .. k - 1})
          /\ status' = status
     ELSE /\ victim' = Head(q)
          /\ inRAMQueue' = Tail(q)
          /\ pte' = ClearA(t, {pg(i) : i \in DOMAIN q})
          /\ status' \in IF Len(q) = MAX_PSYC_PAGES THEN {status} ELSE {status, "corrupt"}

(* pagesDS[-1].age is the kernel address in proc->swapFile: top bit set.   *)
PaddingAges == {g \in SUBSET Bits : TopBit \in g}

(* A scan for the first smallest element, when less compares ages; the     *)
(* padding of a queue that is not full takes part.                         *)
removeSmallest(t, less(_, _)) ==
  LET q == inRAMQueue
      age(i) == pagesDS[q[i]].age
  IN \E k \in First({i \in DOMAIN q : \A j \in DOMAIN q : ~ less(age(j), age(i))}) :
     /\ victim' = q[k]
     /\ inRAMQueue' = fixQueue(q, k)
     /\ pte' = t
     /\ \/ status' = status
        \/ /\ Len(q) < MAX_PSYC_PAGES
           /\ \E g \in PaddingAges : less(g, age(k))
           /\ status' = "panic: no page"

(* Not frequently used with aging: the smallest age, as unsigned numbers.  *)
YoungerNFUA(x, y) == \E b \in y \ x : \A c \in x \ y : c < b
removeNFUA(t) == removeSmallest(t, YoungerNFUA)

(* Least accessed page with aging: the fewest bits, then the smallest age; *)
(* min_age and curr_age are int, so ages with the top bit are negative.    *)
YoungerLAPA(x, y) ==
  \/ Cardinality(x) < Cardinality(y)
  \/ /\ Cardinality(x) = Cardinality(y)
     /\ \/ TopBit \in x \ y
        \/ TopBit \notin y \ x /\ YoungerNFUA(x, y)
removeLAPA(t) == removeSmallest(t, YoungerLAPA)

(* Advancing queue: the head.  advanceQueue's loop runs while i < 0 from   *)
(* MAX_PSYC_PAGES - 1, so it never advances anything.                      *)
removeAQ(t) ==
  /\ victim' = Head(inRAMQueue)
  /\ inRAMQueue' = Tail(inRAMQueue)
  /\ pte' = t
  /\ status' = status

(* selectPage, on the page table t.  An empty queue selects entry -1.      *)
selectPage(t) ==
  IF inRAMQueue = <<>>
  THEN /\ status' = "panic: no page" /\ pte' = t
       /\ UNCHANGED <<victim, inRAMQueue>>
  ELSE \/ Selection = "SCFIFO" /\ removeSCFIFO(t)
       \/ Selection = "NFUA" /\ removeNFUA(t)
       \/ Selection = "LAPA" /\ removeLAPA(t)
       \/ Selection = "AQ" /\ removeAQ(t)

(* Reuse a freed slot, or take the next one at the end of the file.        *)
getFreeFileOffsetPeek ==
  IF availableOffsetQueue # <<>>
  THEN slot' = Head(availableOffsetQueue) /\ UNCHANGED <<availableOffsetQueue, fileOffset>>
  ELSE slot' = fileOffset /\ fileOffset' = fileOffset + 1 /\ UNCHANGED availableOffsetQueue
getFreeFileOffset ==
  IF availableOffsetQueue # <<>>
  THEN /\ slot' = Head(availableOffsetQueue)
       /\ availableOffsetQueue' = Tail(availableOffsetQueue)
       /\ UNCHANGED fileOffset
  ELSE /\ slot' = fileOffset
       /\ fileOffset' = fileOffset + 1
       /\ UNCHANGED availableOffsetQueue

(* swapToFile up to the disk write it sleeps in.                           *)
startSwap(t) ==
  /\ selectPage(t)
  /\ getFreeFileOffset
  /\ UNCHANGED <<pagesDS, numberOfAllocatedPages, numberOfPagedOut>>

(* insert and insertOffsetQueue look for a -1 and test the bound only      *)
(* after having read one element too many: for insert that element is      *)
(* availableOffsetQueue[0], which follows in struct proc.                  *)
InsertStatus(q) ==
  IF Len(q) < MAX_PSYC_PAGES THEN status
  ELSE IF availableOffsetQueue' # <<>> THEN "panic: inerstion" ELSE "overrun"

insertOffsetQueueAny(off) == availableOffsetQueue' = Append(availableOffsetQueue, off)
insertOffsetQueue(off) ==
  availableOffsetQueue' = IF off = -1 THEN availableOffsetQueue
                          ELSE Append(availableOffsetQueue, off)
OffsetQueueFull == Len(availableOffsetQueue) = MAX_PSYC_PAGES

(* writei at a slot: it fails beyond the end of the file, and extends it   *)
(* at the end.  readi leaves the zeroed frame alone where there is no slot.*)
FileWrite(f, s, d) ==
  IF s > Len(f) THEN f ELSE IF s = Len(f) THEN Append(f, d) ELSE [f EXCEPT ![s + 1] = d]
FileRead(f, s) == IF s \in 0 .. Len(f) - 1 THEN f[s + 1] ELSE Zero

-----------------------------------------------------------------------------
(* The program.  Its instructions are fetched from page 0.                 *)

Running == status = "ok" /\ pc = "user"
Accessible(p) == pte[p].P /\ pte[p].U
Legal == {p \in Pages : p * PGSIZE < sz /\ p # GuardPage}

Load(p) ==
  /\ Running /\ Accessible(0) /\ Accessible(p)
  /\ pte' = Touched({0, p})
  /\ UNCHANGED <<Selection, sz, ds, swapFile, pc, page, newsz, victim, slot, status>>

Store(p, v) ==
  /\ Running /\ Accessible(0) /\ Accessible(p)
  /\ p >= ImagePages
  /\ pte' = [Touched({0, p}) EXCEPT ![p].data = v]
  /\ UNCHANGED <<Selection, sz, ds, swapFile, pc, page, newsz, victim, slot, status>>

(* A handler's locals end with it.                                         *)
Return == pc' = "user" /\ page' = 0 /\ newsz' = 0

(* trap(), T_PGFLT, up to the swap: the resident pages are counted and, at *)
(* the limit, one is evicted first.                                        *)
InRAM == {i \in Index : pagesDS[i].isAllocated /\ pagesDS[i].in_RAM}
AtLimit == Cardinality(InRAM) = MAX_PSYC_PAGES

PageFault(p) ==
  LET t == Touched({0} \ {p}) IN
  /\ Running /\ (p = 0 \/ Accessible(0)) /\ ~ Accessible(p)
  /\ WildAccess \/ p \in Legal
  /\ page' = p
  /\ IF AtLimit
     THEN startSwap(t) /\ pc' = "faultEvict"
     ELSE pte' = t /\ pc' = "pagein" /\ UNCHANGED <<ds, victim, slot, status>>
  /\ UNCHANGED <<Selection, sz, swapFile, newsz>>

(* The swapped pages are counted, for fork.                                *)
OneMoreUncounted == numberOfPagedOut
OneMorePagedOut == (numberOfPagedOut + 1) % UINT

(* swapToFile after the write.  The write reads the page through the page  *)
(* table, which sets its A bit.  If the page is not there, the read faults *)
(* with the swap file's inode locked and the handler's own readFromSwapFile*)
(* waits for that lock for ever.                                           *)
swapToFile ==
  LET address == pagesDS[victim].v_address IN
  /\ status = "ok" /\ pc \in {"growEvict", "faultEvict"}
  /\ IF pte[address].P
     THEN /\ swapFile' = FileWrite(swapFile, slot, pte[address].data)
          /\ \E i \in First(EntriesFor(address)) :
               pagesDS' = [pagesDS EXCEPT ![i].file_offset = slot, ![i].in_RAM = FALSE]
          /\ numberOfPagedOut' = OneMorePagedOut
          /\ pte' = [pte EXCEPT ![address].P = FALSE, ![address].PG = TRUE,
                                ![address].A = TRUE, ![address].data = Zero]
          /\ pc' = IF pc = "growEvict" THEN "map" ELSE "pagein"
          /\ victim' = 0 /\ slot' = 0
          /\ status' = status
     ELSE /\ status' = "hung"
          /\ UNCHANGED <<swapFile, pagesDS, numberOfPagedOut, pte, pc, victim, slot>>
  /\ UNCHANGED <<Selection, sz, inRAMQueue, availableOffsetQueue, fileOffset,
                 numberOfAllocatedPages, page, newsz>>

(* trap(), T_PGFLT, after the swap: read the page back and map it.         *)
PageIn ==
  /\ status = "ok" /\ pc = "pagein"
  /\ IF EntriesFor(page) = {}
     THEN status' = "panic: no page" /\ UNCHANGED <<pte, ds, pc, page, newsz>>
     ELSE \E i \in First(EntriesFor(page)) : LET off == pagesDS[i].file_offset IN
          /\ pte' = [pte EXCEPT ![page] = UserPTE(FileRead(swapFile, off))]
          /\ pagesDS' = [pagesDS EXCEPT ![i].in_RAM = TRUE, ![i].file_offset = -1]
          /\ insertOffsetQueue(off)
          /\ inRAMQueue' = Append(inRAMQueue, i)
          /\ numberOfPagedOut' = (numberOfPagedOut - 1) % UINT
          /\ Return
          /\ status' = IF off # -1 /\ OffsetQueueFull THEN "panic: offset insert"
                       ELSE InsertStatus(inRAMQueue)
          /\ UNCHANGED <<fileOffset, numberOfAllocatedPages>>
  /\ UNCHANGED <<Selection, sz, swapFile, victim, slot>>

(* No frame for the faulting page: the handler gives up and the            *)
(* instruction faults again.                                               *)
PageInFails ==
  /\ status = "ok" /\ pc = "pagein" /\ KallocMayFail
  /\ Return
  /\ UNCHANGED <<Selection, sz, pte, ds, swapFile, victim, slot, status>>

-----------------------------------------------------------------------------
(* sbrk.  A system call has just run instructions of page 0 and used the   *)
(* stack.                                                                  *)

Syscall == Running /\ Accessible(0) /\ Accessible(StackPage)

Grow(n) ==
  /\ Syscall /\ sz + n <= SizeBound[Selection]
  /\ pte' = Touched({0, StackPage})
  /\ pc' = "grow" /\ page' = PGROUNDUP(sz) /\ newsz' = sz + n
  /\ UNCHANGED <<Selection, sz, ds, swapFile, victim, slot, status>>

(* The head of allocuvm's loop.  Pages from MAX_PSYC_PAGES on are paid for *)
(* with an eviction, whether or not the process is at its limit.           *)
NeedsEvictionLate == page > MAX_PSYC_PAGES
NeedsEviction == page >= MAX_PSYC_PAGES

GrowPage ==
  /\ status = "ok" /\ pc = "grow" /\ page * PGSIZE < newsz
  /\ IF NeedsEviction
     THEN startSwap(pte) /\ pc' = "growEvict"
     ELSE pc' = "map" /\ UNCHANGED <<pte, ds, victim, slot, status>>
  /\ UNCHANGED <<Selection, sz, swapFile, page, newsz>>

GrowDone ==
  /\ status = "ok" /\ pc = "grow" /\ page * PGSIZE >= newsz
  /\ sz' = newsz /\ Return
  /\ UNCHANGED <<Selection, pte, ds, swapFile, victim, slot, status>>

(* The rest of the loop's body: a zeroed frame, and the first free entry   *)
(* of pagesDS.  With none free the code writes entry MAX_TOTAL_PAGES, over *)
(* the fields that follow pagesDS in struct proc.                          *)
MapPage ==
  LET free == {i \in Index : ~ pagesDS[i].isAllocated} IN
  /\ status = "ok" /\ pc = "map"
  /\ IF free = {}
     THEN status' = "overrun" /\ UNCHANGED <<pte, ds, pc, page>>
     ELSE \E i \in First(free) :
          /\ pte' = [pte EXCEPT ![page] = UserPTE(Zero)]
          /\ pagesDS' = [pagesDS EXCEPT ![i] =
                [v_address |-> page, file_offset |-> -1, in_RAM |-> TRUE,
                 isAllocated |-> TRUE, age |-> @.age]]
          /\ inRAMQueue' = Append(inRAMQueue, i)
          /\ numberOfAllocatedPages' = (numberOfAllocatedPages + 1) % UINT
          /\ pc' = "grow" /\ page' = page + 1
          /\ UNCHANGED <<availableOffsetQueue, fileOffset, numberOfPagedOut>>
          /\ status' = InsertStatus(inRAMQueue)
  /\ UNCHANGED <<Selection, sz, swapFile, newsz, victim, slot>>

(* No frame: deallocuvm with flag 0 takes the pages of this call out of    *)
(* the page table, and leaves pagesDS and the queues as they are.          *)
MapPageFails ==
  /\ status = "ok" /\ pc = "map" /\ KallocMayFail
  /\ pte' = [p \in Pages |-> IF p >= PGROUNDUP(sz) THEN NoPTE ELSE pte[p]]
  /\ Return
  /\ UNCHANGED <<Selection, sz, ds, swapFile, victim, slot, status>>

Shrink(n) ==
  /\ Syscall /\ sz - n >= PGSIZE * (ImagePages + 2)
  /\ numberOfPagedOut <= PagedOutBound
  /\ pte' = Touched({0, StackPage})
  /\ numberOfAllocatedPages' = (numberOfAllocatedPages - n \div PGSIZE) % UINT
  /\ pc' = "shrink" /\ page' = PGROUNDUP(sz - n) /\ newsz' = sz - n
  /\ UNCHANGED <<Selection, sz, pagesDS, inRAMQueue, availableOffsetQueue, fileOffset,
                 numberOfPagedOut, swapFile, victim, slot, status>>

(* Take an entry out of the queue, if it is there.                         *)
dequeue(i) ==
  LET at == {k \in DOMAIN inRAMQueue : inRAMQueue[k] = i}
  IN IF at = {} THEN UNCHANGED inRAMQueue
     ELSE \E k \in First(at) : inRAMQueue' = fixQueue(inRAMQueue, k)

(* deallocatePage(page): the entry is reset, the slot of a swapped page    *)
(* becomes free and the entry leaves the queue.                            *)
deallocatePage ==
  LET mine == {i \in EntriesFor(page) : pagesDS[i].isAllocated}
  IN IF mine = {}
     THEN /\ status' = "panic: deallocate"
          /\ UNCHANGED <<pagesDS, inRAMQueue, availableOffsetQueue>>
     ELSE \E i \in First(mine) :
          /\ pagesDS' = [pagesDS EXCEPT ![i] =
                [v_address |-> 0, file_offset |-> -1, in_RAM |-> FALSE,
                 isAllocated |-> FALSE, age |-> FreshAge]]
          /\ insertOffsetQueue(IF pagesDS[i].in_RAM THEN -1 ELSE pagesDS[i].file_offset)
          /\ status' = IF ~ pagesDS[i].in_RAM /\ OffsetQueueFull
                       THEN "panic: offset insert" ELSE status
          /\ dequeue(i)

(* deallocuvm's loop; it passes over pages that are neither P nor PG.      *)
MappedPresent(p) == pte[p].P
Mapped(p) == pte[p].P \/ pte[p].PG

ShrinkPage ==
  /\ status = "ok" /\ pc = "shrink" /\ page * PGSIZE < sz
  /\ IF Mapped(page)
     THEN deallocatePage /\ pte' = [pte EXCEPT ![page] = NoPTE]
     ELSE UNCHANGED <<pagesDS, inRAMQueue, availableOffsetQueue, status, pte>>
  /\ page' = page + 1
  /\ UNCHANGED <<Selection, sz, fileOffset, numberOfAllocatedPages, numberOfPagedOut,
                 swapFile, pc, newsz, victim, slot>>

ShrinkDone ==
  /\ status = "ok" /\ pc = "shrink" /\ page * PGSIZE >= sz
  /\ sz' = newsz /\ Return
  /\ UNCHANGED <<Selection, pte, ds, swapFile, victim, slot, status>>

-----------------------------------------------------------------------------

(* exec of an image that fits in MAX_PSYC_PAGES: a fresh page table, page  *)
(* data and swap file; initializePagesDataExec leaves the ages.            *)
Exec ==
  /\ Syscall
  /\ sz' = PGSIZE * (ImagePages + 2)
  /\ pte' = ImagePTE
  /\ pagesDS' = ImageDS([i \in Index |-> pagesDS[i].age])
  /\ inRAMQueue' = [i \in 1 .. ImagePages + 2 |-> i - 1]
  /\ availableOffsetQueue' = <<>> /\ fileOffset' = 0
  /\ numberOfAllocatedPages' = ImagePages + 2 /\ numberOfPagedOut' = 0
  /\ swapFile' = <<>>
  /\ UNCHANGED <<Selection, pc, page, newsz, victim, slot, status>>

(* The scheduler ages the pages of the process it switches away from,      *)
(* whether that process was preempted in user mode or sleeps in a handler. *)
agePages ==
  /\ status = "ok" /\ Selection \in {"NFUA", "LAPA"}
  /\ pagesDS' = [i \in Index |->
       IF pagesDS[i].isAllocated
       THEN [pagesDS[i] EXCEPT !.age =
               {b - 1 : b \in @ \ {0}} \cup (IF pte[pagesDS[i].v_address].A THEN {TopBit} ELSE {})]
       ELSE pagesDS[i]]
  /\ pte' = ClearA(pte, {pagesDS[i].v_address : i \in {j \in Index : pagesDS[j].isAllocated}})
  /\ UNCHANGED <<Selection, sz, inRAMQueue, availableOffsetQueue, fileOffset, numberOfAllocatedPages,
                 numberOfPagedOut, swapFile, pc, page, newsz, victim, slot, status>>

Stopped == status # "ok" /\ UNCHANGED vars

Program ==
  \/ \E p \in Pages : Load(p) \/ PageFault(p)
  \/ \E p \in Pages, v \in Values : Store(p, v)
  \/ \E n \in SbrkAmounts : Grow(n) \/ Shrink(n)
  \/ Exec

Kernel == swapToFile \/ PageIn \/ PageInFails \/ GrowPage \/ GrowDone \/ MapPage
          \/ MapPageFails \/ ShrinkPage \/ ShrinkDone

Next == Program \/ Kernel \/ agePages \/ Stopped

Spec == Init /\ [][Next]_vars /\ WF_vars(Kernel)

-----------------------------------------------------------------------------
(* Properties.                                                             *)

(* The types of what swapping keeps its books in; a handler that evicts,   *)
(* maps or reads a page works on a page of the page table.                 *)
TableTypes ==
  /\ Selection \in Selections
  /\ sz \in 0 .. MaxSize /\ newsz \in 0 .. MaxSize
  /\ pagesDS \in [Index -> Entry]
  /\ inRAMQueue \in Seq(Index) /\ availableOffsetQueue \in Seq(Nat)
  /\ fileOffset \in Nat /\ slot \in Nat /\ victim \in Index
  /\ pc \in {"user", "grow", "map", "shrink", "growEvict", "faultEvict", "pagein"}
  /\ page \in IF pc \in {"grow", "shrink"} THEN 0 .. MAX_TOTAL_PAGES + 1 ELSE Pages

TypeOK ==
  /\ TableTypes
  /\ pte \in [Pages -> PTE] /\ swapFile \in Seq(Contents)
  /\ numberOfAllocatedPages \in 0 .. UINT - 1 /\ numberOfPagedOut \in 0 .. UINT - 1
  /\ status \in {"ok", "corrupt", "overrun", "hung", "panic: no page",
                 "panic: inerstion", "panic: offset insert", "panic: deallocate"}

Evicting == pc \in {"growEvict", "faultEvict"}
Swapped  == {i \in Index : pagesDS[i].isAllocated /\ ~ pagesDS[i].in_RAM}

(* A process never holds more than MAX_PSYC_PAGES frames: allocuvm only    *)
(* evicts for pages beyond the limit and trap() only when the count is     *)
(* exactly at it, so both tests together must keep the bound.              *)
ResidentBound == Cardinality({p \in Pages : pte[p].P}) <= MAX_PSYC_PAGES

(* The queue the victims are chosen from holds each resident page exactly  *)
(* once; only the page being evicted has already left it.                  *)
QueueHoldsResidents ==
  status = "ok" =>
    /\ \A j, k \in DOMAIN inRAMQueue : inRAMQueue[j] = inRAMQueue[k] => j = k
    /\ {inRAMQueue[k] : k \in DOMAIN inRAMQueue} = InRAM \ (IF Evicting THEN {victim} ELSE {})
    /\ Evicting => victim \in InRAM

(* pagesDS and the page table agree: one entry for each mapped page, in    *)
(* RAM exactly when the page is present and with PG set when it is not.    *)
TablesAgree ==
  status = "ok" =>
    /\ \A i, j \in Index : pagesDS[i].isAllocated /\ pagesDS[j].isAllocated
                             /\ pagesDS[i].v_address = pagesDS[j].v_address => i = j
    /\ \A p \in Pages : pte[p].P <=> \E i \in InRAM : pagesDS[i].v_address = p
    /\ \A p \in Pages : pte[p].PG <=> \E i \in Swapped : pagesDS[i].v_address = p

(* Every swapped page has a slot of the swap file, and every slot one      *)
(* owner: no two entries share one, none is both in use and queued as      *)
(* free or queued twice, and the slot a pending eviction is about to write *)
(* is nobody else's.  getFreeFileOffset, insertOffsetQueue, the fault      *)
(* handler and deallocatePage each pass slots on.                          *)
SlotsDisjoint ==
  LET q == availableOffsetQueue
      off(i) == pagesDS[i].file_offset
  IN
  /\ \A i \in Swapped : off(i) # -1
  /\ \A i, j \in Index : off(i) = off(j) /\ off(i) # -1 => i = j
  /\ \A j, k \in DOMAIN q : q[j] = q[k] => j = k
  /\ \A i \in Index, k \in DOMAIN q : off(i) # q[k]
  /\ \A i \in Index : off(i) < fileOffset
  /\ \A k \in DOMAIN q : q[k] < fileOffset
  /\ Evicting => /\ slot < fileOffset
                 /\ \A i \in Index : off(i) # slot
                 /\ \A k \in DOMAIN q : q[k] # slot


(* Where the contents of a page are: in its frame, or in the slot recorded *)
(* for it while it is swapped out.                                         *)
Unmapped == "unmapped"
Memory ==
  [p \in Pages |-> IF pte[p].P THEN pte[p].data
                   ELSE IF pte[p].PG
                        THEN LET i == CHOOSE i \in First(EntriesFor(p)) : TRUE
                             IN FileRead(swapFile, pagesDS[i].file_offset)
                        ELSE Unmapped]

Flat == INSTANCE FlatMemory
          WITH mem <- Memory, ImageBrk <- ImagePages + 2,
               brk <- PGROUNDUP(IF pc = "shrink" THEN newsz ELSE sz),
               Image <- [p \in Pages |-> IF p < ImagePages THEN Text
                                         ELSE IF p <= StackPage THEN Zero ELSE Unmapped]


-----------------------------------------------------------------------------
(* What tests and comments of the repository say of the code.              *)

(* A program that touches an address it does not have is not the end of    *)
(* the machine: trap() says it assumes that the process misbehaved, and    *)
(* usertests expects such a child to be gone while its parent runs on.     *)
BadAddressSurvived == status # "panic: no page"

(* usertests: running out of memory "cleans up the last failed             *)
(* allocation"; the entries left behind make a later eviction wait for     *)
(* ever on the swap file it has itself locked.                             *)
FailedSbrkHarmless == status # "hung"

(* proc.h: numberOfAllocatedPages is "the total allocated pages".  It is,  *)
(* while the program grows and shrinks by whole pages.                     *)
AllocatedCountExact ==
  pc = "user" /\ status = "ok" =>
    numberOfAllocatedPages = Cardinality({i \in Index : pagesDS[i].isAllocated})

(* numberOfPagedOut, the number of slots fork copies, never falls below    *)
(* the number of swapped pages; it exceeds it once deallocatePage has      *)
(* released a swapped page.                                                *)
PagedOutCountCovers ==
  pc = "user" /\ status = "ok" => numberOfPagedOut >= Cardinality(Swapped)

=============================================================================
