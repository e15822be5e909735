---------------------------- MODULE PagingProofs ----------------------------
(***************************************************************************)
(* Proofs about Paging and PagingFork for every value of the constants.    *)
(***************************************************************************)
EXTENDS PagingFork, TLAPS, SequenceTheorems, FiniteSetTheorems

-----------------------------------------------------------------------------
(* Arithmetic of sizes and pages.                                          *)

(* Sizes are ordered as the page counts they are made from.                *)
LEMMA MulMonotone ==
  ASSUME NEW g \in Nat \ {0}, NEW a \in Nat, NEW b \in Nat
  PROVE  a <= b <=> g * a <= g * b
<1>1. ASSUME a <= b PROVE g * a <= g * b
  <2>1. g * b = g * a + g * (b - a) /\ g * (b - a) \in Nat
    BY <1>1
  <2> QED  BY <2>1
<1>2. ASSUME ~ a <= b PROVE g * a > g * b
  <2>1. g * a = g * b + g * (a - b) /\ a - b \in Nat \ {0}
    BY <1>2
  <2>2. g * (a - b) \in Nat \ {0}
    BY <2>1
  <2> QED  BY <2>1, <2>2
<1> QED  BY <1>1, <1>2

(* A page that starts below a size the page table can hold is one of its   *)
(* pages.                                                                  *)
LEMMA PageBelow ==
  ASSUME NEW p \in Nat, NEW n \in 0 .. MaxSize, p * PGSIZE < n
  PROVE  p \in Pages
<1>1. PGSIZE \in Nat \ {0} /\ MAX_TOTAL_PAGES \in Nat
  BY PagingAssumption
<1>2. ~ (PGSIZE * (MAX_TOTAL_PAGES + 1) <= PGSIZE * p)
  BY <1>1 DEF MaxSize
<1>3. ~ (MAX_TOTAL_PAGES + 1 <= p)
  BY <1>1, <1>2, MulMonotone
<1> QED  BY <1>1, <1>3 DEF Pages

(* The pages of the page table, and one more, are all PGROUNDUP yields.    *)
LEMMA RoundUp ==
  ASSUME NEW n \in 0 .. MaxSize
  PROVE  PGROUNDUP(n) \in 0 .. MAX_TOTAL_PAGES + 1
<1> DEFINE k == PGROUNDUP(n)
<1>1. PGSIZE \in Nat \ {0} /\ MAX_TOTAL_PAGES \in Nat /\ n \in Nat
  BY PagingAssumption DEF MaxSize
<1>2. k \in Nat /\ PGSIZE * k <= n + PGSIZE - 1
  BY <1>1 DEF PGROUNDUP
<1>3. n <= PGSIZE * (MAX_TOTAL_PAGES + 1)
  BY <1>1 DEF MaxSize
<1>4. PGSIZE * (MAX_TOTAL_PAGES + 2) = PGSIZE * (MAX_TOTAL_PAGES + 1) + PGSIZE
  BY <1>1
<1>5. ~ (PGSIZE * (MAX_TOTAL_PAGES + 2) <= PGSIZE * k)
  BY <1>1, <1>2, <1>3, <1>4
<1>6. ~ (MAX_TOTAL_PAGES + 2 <= k)
  BY <1>1, <1>2, <1>5, MulMonotone
<1> QED  BY <1>1, <1>2, <1>6

(* The image fits.                                                         *)
LEMMA ImageFits == PGSIZE * (ImagePages + 2) \in 0 .. MaxSize
<1>1. PGSIZE \in Nat \ {0} /\ ImagePages + 2 \in Nat /\ MAX_TOTAL_PAGES + 1 \in Nat
      /\ ImagePages + 2 <= MAX_TOTAL_PAGES + 1
  BY PagingAssumption
<1>2. PGSIZE * (ImagePages + 2) <= PGSIZE * (MAX_TOTAL_PAGES + 1)
  BY <1>1, MulMonotone
<1> QED  BY <1>1, <1>2 DEF MaxSize

-----------------------------------------------------------------------------
(* Type correctness.                                                       *)

(* Closing a gap in a queue keeps it a queue of the same elements.         *)
LEMMA FixQueueType ==
  ASSUME NEW S, NEW q \in Seq(S), NEW k \in DOMAIN q
  PROVE  fixQueue(q, k) \in Seq(S)
<1>1. Len(q) \in Nat /\ DOMAIN q = 1 .. Len(q) /\ \A i \in 1 .. Len(q) : q[i] \in S
  BY LenProperties, ElementOfSeq
<1>2. SubSeq(q, 1, k - 1) \in Seq(S)
  <2>1. \A i \in 1 .. k - 1 : q[i] \in S
    BY <1>1
  <2> QED  BY <1>1, <2>1, SubSeqProperties
<1>3. SubSeq(q, k + 1, Len(q)) \in Seq(S)
  <2>1. \A i \in k + 1 .. Len(q) : q[i] \in S
    BY <1>1
  <2> QED  BY <1>1, <2>1, SubSeqProperties
<1> QED  BY <1>2, <1>3, ConcatProperties DEF fixQueue

(* Whatever the policy, selectPage takes the victim out of the queue and   *)
(* leaves a queue of table indices.                                        *)
LEMMA SelectTypes ==
  ASSUME NEW t, TableTypes, selectPage(t)
  PROVE  victim' \in Index /\ inRAMQueue' \in Seq(Index)
<1> DEFINE q == inRAMQueue
<1>1. q \in Seq(Index) /\ victim \in Index
  BY DEF TableTypes
<1>2. Len(q) \in Nat /\ DOMAIN q = 1 .. Len(q) /\ \A i \in 1 .. Len(q) : q[i] \in Index
  BY <1>1, LenProperties, ElementOfSeq
<1>3. CASE q = <<>>
  BY <1>1, <1>3 DEF selectPage
<1>4. CASE q # <<>> /\ removeSCFIFO(t)
  <2>1. CASE victim' = Head(q) /\ inRAMQueue' = Tail(q)
    BY <1>1, <1>4, <2>1, HeadTailProperties
  <2>2. ASSUME NEW k \in DOMAIN q, victim' = q[k],
               inRAMQueue' = SubSeq(q, k + 1, Len(q)) \o SubSeq(q, 1, k - 1)
        PROVE  victim' \in Index /\ inRAMQueue' \in Seq(Index)
    <3>1. k \in Nat /\ k <= Len(q) /\ \A i \in 1 .. k - 1 : q[i] \in Index
      BY <1>2
    <3>2. \A i \in k + 1 .. Len(q) : q[i] \in Index
      BY <1>2
    <3>3. SubSeq(q, 1, k - 1) \in Seq(Index)
      BY <1>2, <3>1, SubSeqProperties
    <3>4. SubSeq(q, k + 1, Len(q)) \in Seq(Index)
      BY <1>2, <3>1, <3>2, SubSeqProperties
    <3> QED  BY <1>2, <2>2, <3>3, <3>4, ConcatProperties
  <2> QED  BY <1>4, <2>1, <2>2 DEF removeSCFIFO, First
<1>5. CASE q # <<>> /\ (removeNFUA(t) \/ removeLAPA(t))
  <2>1. \E k \in DOMAIN q : victim' = q[k] /\ inRAMQueue' = fixQueue(q, k)
    BY <1>5 DEF removeNFUA, removeLAPA, removeSmallest, First
  <2> QED  BY <1>1, <1>2, <2>1, FixQueueType
<1>6. CASE q # <<>> /\ removeAQ(t)
  BY <1>1, <1>6, HeadTailProperties DEF removeAQ
<1> QED  BY <1>3, <1>4, <1>5, <1>6 DEF selectPage

(* A slot handed out is a number, and so is what is left.                  *)
LEMMA OffsetTypes ==
  ASSUME TableTypes, getFreeFileOffset
  PROVE  slot' \in Nat /\ fileOffset' \in Nat /\ availableOffsetQueue' \in Seq(Nat)
<1>1. availableOffsetQueue \in Seq(Nat) /\ fileOffset \in Nat
  BY DEF TableTypes
<1>2. CASE availableOffsetQueue # <<>>
  BY <1>1, <1>2, HeadTailProperties DEF getFreeFileOffset
<1>3. CASE availableOffsetQueue = <<>>
  BY <1>1, <1>3 DEF getFreeFileOffset
<1> QED  BY <1>2, <1>3

(* swapToFile's first half, from either of its callers.                    *)
LEMMA StartSwapTypes ==
  ASSUME NEW t, TableTypes, startSwap(t)
  PROVE  /\ victim' \in Index /\ inRAMQueue' \in Seq(Index)
         /\ slot' \in Nat /\ fileOffset' \in Nat /\ availableOffsetQueue' \in Seq(Nat)
         /\ pagesDS' = pagesDS
BY SelectTypes, OffsetTypes DEF startSwap

(* The types of the tables at first... *)
LEMMA InitTypes == Init => TableTypes
<1> SUFFICES ASSUME Init PROVE TableTypes
  OBVIOUS
<1>1. sz \in 0 .. MaxSize /\ newsz \in 0 .. MaxSize
  BY ImageFits, PagingAssumption DEF Init, MaxSize
<1>2. pagesDS \in [Index -> Entry]
  BY PagingAssumption DEF Init, ImageDS, Index, Pages, Entry, StackPage, FreshAge, Bits
<1>3. inRAMQueue \in Seq(Index)
  BY PagingAssumption DEF Init, Index
<1>4. 0 \in Index /\ 0 \in Pages
  BY PagingAssumption DEF Index, Pages
<1>5. availableOffsetQueue \in Seq(Nat)
  BY EmptySeq DEF Init
<1> QED  BY <1>1, <1>2, <1>3, <1>4, <1>5 DEF Init, TableTypes

(* ...and after every step, fork included: no handler walks off the page   *)
(* table or puts a value that is no table index in the queue.              *)
LEMMA NextTypes == TableTypes /\ [ForkNext]_vars => TableTypes'
<1> SUFFICES ASSUME TableTypes, [ForkNext]_vars PROVE TableTypes'
  OBVIOUS
<1> USE DEF TableTypes
<1>1. ASSUME NEW p \in Pages, Load(p) PROVE TableTypes'
  BY <1>1 DEF Load, ds
<1>2. ASSUME NEW p \in Pages, NEW v \in Values, Store(p, v) PROVE TableTypes'
  BY <1>2 DEF Store, ds
<1>3. ASSUME NEW p \in Pages, PageFault(p) PROVE TableTypes'
  <2>1. CASE AtLimit
    <3>1. startSwap(Touched({0} \ {p}))
      BY <1>3, <2>1 DEF PageFault
    <3> QED  BY <1>3, <2>1, <3>1, StartSwapTypes DEF PageFault
  <2>2. CASE ~ AtLimit
    BY <1>3, <2>2 DEF PageFault, ds
  <2> QED  BY <2>1, <2>2
<1>4. ASSUME NEW n \in SbrkAmounts, Grow(n) PROVE TableTypes'
  <2>1. newsz' \in 0 .. MaxSize
    BY <1>4, PagingAssumption DEF Grow, MaxSize
  <2> QED  BY <1>4, <2>1, RoundUp DEF Grow, ds
<1>5. ASSUME NEW n \in SbrkAmounts, Shrink(n) PROVE TableTypes'
  <2>1. sz - n \in 0 .. MaxSize
    <3>1. n \in Nat /\ MaxSize \in Nat /\ 0 <= PGSIZE * (ImagePages + 2)
          /\ PGSIZE * (ImagePages + 2) \in Nat
      BY ImageFits, PagingAssumption DEF MaxSize
    <3> QED  BY <1>5, <3>1 DEF Shrink
  <2> QED  BY <1>5, <2>1, RoundUp DEF Shrink
<1>6. ASSUME Exec PROVE TableTypes'
  <2>1. pagesDS' \in [Index -> Entry]
    <3>1. \A i \in Index : pagesDS[i].age \in SUBSET Bits /\ i \in Pages /\ 0 \in Pages
      BY PagingAssumption DEF Entry, Index, Pages
    <3> QED  BY <1>6, <3>1 DEF Exec, ImageDS, Entry
  <2>2. inRAMQueue' \in Seq(Index)
    BY <1>6, PagingAssumption DEF Exec, Index
  <2> QED  BY <1>6, <2>1, <2>2, ImageFits, EmptySeq DEF Exec
<1>7. ASSUME swapToFile PROVE TableTypes'
  <2>1. CASE pte[pagesDS[victim].v_address].P
    <3>1. PICK i \in Index :
            pagesDS' = [pagesDS EXCEPT ![i].file_offset = slot, ![i].in_RAM = FALSE]
      BY <1>7, <2>1 DEF swapToFile, First, EntriesFor
    <3>2. pagesDS' \in [Index -> Entry]
      BY <3>1 DEF Entry
    <3>3. /\ pc' \in {"map", "pagein"} /\ page' = page /\ page \in Pages
          /\ victim' = 0 /\ slot' = 0
          /\ UNCHANGED <<Selection, sz, newsz, inRAMQueue, availableOffsetQueue, fileOffset>>
      BY <1>7, <2>1 DEF swapToFile
    <3> QED  BY <3>2, <3>3, PagingAssumption DEF Index
  <2>2. CASE ~ pte[pagesDS[victim].v_address].P
    BY <1>7, <2>2 DEF swapToFile
  <2> QED  BY <2>1, <2>2
<1>8. ASSUME PageIn PROVE TableTypes'
  <2>1. CASE EntriesFor(page) = {}
    BY <1>8, <2>1 DEF PageIn, ds
  <2>2. CASE EntriesFor(page) # {}
    <3>1. PICK i \in Index :
            /\ pagesDS' = [pagesDS EXCEPT ![i].in_RAM = TRUE, ![i].file_offset = -1]
            /\ insertOffsetQueue(pagesDS[i].file_offset)
            /\ inRAMQueue' = Append(inRAMQueue, i)
            /\ Return /\ UNCHANGED <<Selection, fileOffset, sz, victim, slot>>
      BY <1>8, <2>2 DEF PageIn, First, EntriesFor
    <3>2. pagesDS' \in [Index -> Entry] /\ pagesDS[i].file_offset \in Nat \cup {-1}
      BY <3>1 DEF Entry
    <3>3. availableOffsetQueue' \in Seq(Nat)
      BY <3>1, <3>2, AppendProperties DEF insertOffsetQueue
    <3>4. inRAMQueue' \in Seq(Index)
      BY <3>1, AppendProperties
    <3>5. 0 \in Pages /\ 0 \in 0 .. MaxSize
      BY PagingAssumption DEF Pages, MaxSize
    <3> QED  BY <3>1, <3>2, <3>3, <3>4, <3>5 DEF Return
  <2> QED  BY <2>1, <2>2
<1>0. ASSUME Return, sz' \in 0 .. MaxSize, UNCHANGED <<Selection, ds, victim, slot>>
      PROVE  TableTypes'
  <2>1. 0 \in Pages /\ 0 \in 0 .. MaxSize
    BY PagingAssumption DEF Pages, MaxSize
  <2> QED  BY <1>0, <2>1 DEF Return, ds
<1>9. ASSUME PageInFails \/ MapPageFails PROVE TableTypes'
  BY <1>0, <1>9 DEF PageInFails, MapPageFails
<1>10. ASSUME GrowPage PROVE TableTypes'
  <2>1. page \in Pages
    BY <1>10, PageBelow DEF GrowPage
  <2>2. CASE NeedsEviction
    <3>1. startSwap(pte)
      BY <1>10, <2>2 DEF GrowPage
    <3> QED  BY <1>10, <2>1, <2>2, <3>1, StartSwapTypes DEF GrowPage
  <2>3. CASE ~ NeedsEviction
    BY <1>10, <2>1, <2>3 DEF GrowPage, ds
  <2> QED  BY <2>2, <2>3
<1>11. ASSUME GrowDone \/ ShrinkDone PROVE TableTypes'
  BY <1>0, <1>11 DEF GrowDone, ShrinkDone
<1>12. ASSUME MapPage PROVE TableTypes'
  <2> DEFINE free == {i \in Index : ~ pagesDS[i].isAllocated}
  <2>1. CASE free = {}
    BY <1>12, <2>1 DEF MapPage, ds
  <2>2. CASE free # {}
    <3>1. PICK i \in Index :
            /\ pagesDS' = [pagesDS EXCEPT ![i] =
                  [v_address |-> page, file_offset |-> -1, in_RAM |-> TRUE,
                   isAllocated |-> TRUE, age |-> @.age]]
            /\ inRAMQueue' = Append(inRAMQueue, i)
            /\ pc' = "grow" /\ page' = page + 1
            /\ UNCHANGED <<Selection, availableOffsetQueue, fileOffset, sz, newsz, victim, slot>>
      BY <1>12, <2>2 DEF MapPage, First
    <3>2. page \in Pages
      BY <1>12 DEF MapPage
    <3>3. pagesDS' \in [Index -> Entry]
      BY <3>1, <3>2 DEF Entry
    <3>4. inRAMQueue' \in Seq(Index)
      BY <3>1, AppendProperties
    <3> QED  BY <3>1, <3>2, <3>3, <3>4, PagingAssumption DEF Pages
  <2> QED  BY <2>1, <2>2
<1>13. ASSUME ShrinkPage PROVE TableTypes'
  <2>1. page \in Pages /\ page' \in 0 .. MAX_TOTAL_PAGES + 1 /\ pc = "shrink"
    <3>1. page \in Pages
      BY <1>13, PageBelow DEF ShrinkPage
    <3> QED  BY <1>13, <3>1, PagingAssumption DEF ShrinkPage, Pages
  <2>2. UNCHANGED <<Selection, sz, fileOffset, pc, newsz, victim, slot>>
    BY <1>13 DEF ShrinkPage
  <2>3. CASE UNCHANGED <<pagesDS, inRAMQueue, availableOffsetQueue>>
    BY <2>1, <2>2, <2>3
  <2>4. CASE ~ UNCHANGED <<pagesDS, inRAMQueue, availableOffsetQueue>>
    <3>1. PICK i \in Index :
            /\ pagesDS' = [pagesDS EXCEPT ![i] =
                  [v_address |-> 0, file_offset |-> -1, in_RAM |-> FALSE,
                   isAllocated |-> FALSE, age |-> FreshAge]]
            /\ insertOffsetQueue(IF pagesDS[i].in_RAM THEN -1 ELSE pagesDS[i].file_offset)
            /\ dequeue(i)
      BY <1>13, <2>4 DEF ShrinkPage, deallocatePage, First, EntriesFor
    <3>2. pagesDS' \in [Index -> Entry] /\ pagesDS[i].file_offset \in Nat \cup {-1}
      BY <3>1, PagingAssumption DEF Entry, Pages, FreshAge, Bits
    <3>3. availableOffsetQueue' \in Seq(Nat)
      BY <3>1, <3>2, AppendProperties DEF insertOffsetQueue
    <3>4. inRAMQueue' \in Seq(Index)
      BY <3>1, FixQueueType DEF dequeue, First
    <3> QED  BY <2>1, <2>2, <3>2, <3>3, <3>4
  <2> QED  BY <2>3, <2>4
<1>14. ASSUME agePages PROVE TableTypes'
  <2>1. pagesDS' \in [Index -> Entry]
    <3> SUFFICES ASSUME NEW i \in Index,
                        pagesDS[i].isAllocated,
                        NEW top \in {{TopBit}, {}}
                 PROVE  [pagesDS[i] EXCEPT !.age = {b - 1 : b \in @ \ {0}} \cup top] \in Entry
      BY <1>14 DEF agePages
    <3>1. pagesDS[i] \in Entry /\ pagesDS[i].age \subseteq Bits
      BY DEF Entry
    <3>2. \A b \in Bits \ {0} : b - 1 \in Bits
      BY PagingAssumption DEF Bits
    <3>3. top \subseteq Bits
      BY PagingAssumption DEF Bits, TopBit
    <3>4. {b - 1 : b \in pagesDS[i].age \ {0}} \cup top \in SUBSET Bits
      BY <3>1, <3>2, <3>3
    <3> QED  BY <3>1, <3>4 DEF Entry
  <2> QED  BY <1>14, <2>1 DEF agePages
<1>15. ASSUME Stopped \/ UNCHANGED vars PROVE TableTypes'
  BY <1>15 DEF Stopped, vars, ds
<1>16. ASSUME Fork PROVE TableTypes'
  BY <1>16 DEF Fork, ds
<1> QED
  BY <1>1, <1>2, <1>3, <1>4, <1>5, <1>6, <1>7, <1>8, <1>9, <1>10, <1>11, <1>12, <1>13,
     <1>14, <1>15, <1>16 DEF ForkNext, Next, Program, Kernel

-----------------------------------------------------------------------------
(* Every swap slot has one owner.                                          *)

(* A step that moves no slot.                                              *)
LEMMA SlotsKept ==
  ASSUME TableTypes, TableTypes', SlotsDisjoint,
         \A i \in Index : pagesDS'[i].file_offset = pagesDS[i].file_offset,
         \A i \in Index : i \in Swapped' => i \in Swapped,
         UNCHANGED <<availableOffsetQueue, fileOffset>>,
         Evicting' => Evicting /\ slot' = slot
  PROVE  SlotsDisjoint'
BY DEF SlotsDisjoint, Swapped

(* A slot leaves the free queue, or the end of the file, for the victim of *)
(* the eviction that starts.                                               *)
LEMMA SlotTaken ==
  ASSUME NEW t, TableTypes, TableTypes', SlotsDisjoint, startSwap(t)
  PROVE  SlotsDisjoint'
<1> DEFINE q == availableOffsetQueue
<1>1. UNCHANGED pagesDS /\ getFreeFileOffset
  BY DEF startSwap
<1>2. q \in Seq(Nat) /\ pagesDS \in [Index -> Entry] /\ fileOffset \in Nat
  BY DEF TableTypes
<1>3. \A i \in Index : pagesDS[i].file_offset \in Nat \cup {-1}
  BY <1>2 DEF Entry
<1>4. CASE q # <<>>
  <2>1. /\ slot' = Head(q) /\ q' = Tail(q) /\ UNCHANGED fileOffset
    BY <1>1, <1>4 DEF getFreeFileOffset
  <2>2. /\ Len(q) \in Nat \ {0} /\ DOMAIN q = 1 .. Len(q) /\ slot' = q[1]
        /\ DOMAIN q' = 1 .. Len(q) - 1
        /\ \A k \in 1 .. Len(q) - 1 : q'[k] = q[k + 1]
    BY <1>2, <1>4, <2>1, HeadTailProperties, LenProperties, EmptySeq
  <2>3. \A k \in DOMAIN q' : q'[k] = q[k + 1] /\ k + 1 \in DOMAIN q /\ k + 1 # 1 /\ k \in Nat
    BY <2>2
  <2> QED  BY <1>1, <2>1, <2>2, <2>3 DEF SlotsDisjoint, Swapped
<1>5. CASE q = <<>>
  <2>1. slot' = fileOffset /\ fileOffset' = fileOffset + 1 /\ q' = q /\ DOMAIN q = {}
    BY <1>1, <1>5 DEF getFreeFileOffset
  <2> QED  BY <1>1, <1>2, <1>3, <2>1 DEF SlotsDisjoint, Swapped
<1> QED  BY <1>4, <1>5

(* The slot of entry i goes back to the free queue.                        *)
LEMMA SlotFreed ==
  ASSUME TableTypes, TableTypes', SlotsDisjoint, NEW i \in Index, ~ Evicting',
         UNCHANGED fileOffset,
         \A j \in Index \ {i} : pagesDS'[j] = pagesDS[j],
         pagesDS'[i].file_offset = -1, i \notin Swapped',
         availableOffsetQueue' \in
           {availableOffsetQueue} \cup
           {Append(availableOffsetQueue, pagesDS[i].file_offset) :
              x \in {y \in {0} : pagesDS[i].file_offset # -1}}
  PROVE  SlotsDisjoint'
<1> DEFINE q == availableOffsetQueue
           o == pagesDS[i].file_offset
<1>1. q \in Seq(Nat) /\ pagesDS \in [Index -> Entry] /\ fileOffset \in Nat
  BY DEF TableTypes
<1>2. \A j \in Index : pagesDS[j].file_offset \in Nat \cup {-1}
  BY <1>1 DEF Entry
<1>3. DOMAIN q = 1 .. Len(q) /\ Len(q) \in Nat /\ \A k \in DOMAIN q : q[k] \in Nat
  BY <1>1, LenProperties, ElementOfSeq
<1>4. CASE q' = q
  BY <1>1, <1>2, <1>3, <1>4 DEF SlotsDisjoint, Swapped
<1>5. CASE o # -1 /\ q' = Append(q, o)
  <2>0. o \in Nat
    BY <1>2, <1>5
  <2>1. /\ DOMAIN q' = 1 .. Len(q) + 1
        /\ \A k \in 1 .. Len(q) : q'[k] = q[k]
        /\ q'[Len(q) + 1] = o
    BY <1>1, <1>5, <2>0, AppendProperties, LenProperties
  <2>2. \A k \in DOMAIN q' :
          (k \in DOMAIN q /\ q'[k] = q[k]) \/ (k = Len(q) + 1 /\ q'[k] = o)
    <3> TAKE k \in DOMAIN q'
    <3>1. k \in 1 .. Len(q) \/ k = Len(q) + 1
      BY <1>3, <2>1
    <3> QED  BY <1>3, <2>1, <3>1
  <2>3. Len(q) + 1 \notin DOMAIN q
    BY <1>3
  <2>4. \A j, k \in DOMAIN q' : q'[j] = q'[k] => j = k
    BY <2>2, <2>3 DEF SlotsDisjoint
  <2>5. ASSUME NEW j \in Index, NEW k \in DOMAIN q' PROVE pagesDS'[j].file_offset # q'[k]
    <3>1. CASE k \in DOMAIN q /\ q'[k] = q[k]
      BY <1>3, <3>1 DEF SlotsDisjoint
    <3>2. CASE q'[k] = o
      BY <1>5, <2>0, <3>2 DEF SlotsDisjoint
    <3> QED  BY <2>2, <3>1, <3>2
  <2>6. \A j, k \in Index : pagesDS'[j].file_offset = pagesDS'[k].file_offset
                              /\ pagesDS'[j].file_offset # -1 => j = k
    BY DEF SlotsDisjoint
  <2>7. \A j \in Swapped' : pagesDS'[j].file_offset # -1
    BY DEF SlotsDisjoint, Swapped
  <2>8. \A j \in Index : pagesDS'[j].file_offset < fileOffset'
    BY <1>1 DEF SlotsDisjoint
  <2>9. \A k \in DOMAIN q' : q'[k] < fileOffset'
    BY <2>2 DEF SlotsDisjoint
  <2> QED  BY <2>4, <2>5, <2>6, <2>7, <2>8, <2>9 DEF SlotsDisjoint
<1> QED  BY <1>4, <1>5

(* Init and every step of the lineage.                                     *)
LEMMA InitSlots == Init => SlotsDisjoint
BY PagingAssumption DEF Init, ImageDS, SlotsDisjoint, Swapped, Evicting, Index, StackPage

(* Slots move only between an entry, the free queue and a pending eviction.*)
LEMMA NextSlots == TableTypes /\ SlotsDisjoint /\ [ForkNext]_vars => SlotsDisjoint'
<1> SUFFICES ASSUME TableTypes, SlotsDisjoint, [ForkNext]_vars PROVE SlotsDisjoint'
  OBVIOUS
<1>0. TableTypes'
  BY NextTypes
<1>k. ASSUME UNCHANGED <<pagesDS, availableOffsetQueue, fileOffset, slot>>, Evicting' => Evicting
      PROVE  SlotsDisjoint'
  BY <1>0, <1>k, SlotsKept DEF Swapped
<1>1. ASSUME NEW p \in Pages, Load(p) PROVE SlotsDisjoint'
  BY <1>1, <1>k DEF Load, ds, Evicting
<1>2. ASSUME NEW p \in Pages, NEW v \in Values, Store(p, v) PROVE SlotsDisjoint'
  BY <1>2, <1>k DEF Store, ds, Evicting
<1>3. ASSUME NEW p \in Pages, PageFault(p) PROVE SlotsDisjoint'
  <2>1. CASE AtLimit
    <3>1. startSwap(Touched({0} \ {p}))
      BY <1>3, <2>1 DEF PageFault
    <3> QED  BY <1>0, <3>1, SlotTaken
  <2>2. CASE ~ AtLimit
    BY <1>3, <1>k, <2>2 DEF PageFault, ds, Evicting
  <2> QED  BY <2>1, <2>2
<1>4. ASSUME NEW n \in SbrkAmounts, Grow(n) \/ Shrink(n) PROVE SlotsDisjoint'
  BY <1>4, <1>k DEF Grow, Shrink, ds, Evicting
<1>5. ASSUME Exec PROVE SlotsDisjoint'
  BY <1>5, PagingAssumption
  DEF Exec, Syscall, Running, ImageDS, SlotsDisjoint, Swapped, Evicting, Index, StackPage
<1>6. ASSUME swapToFile PROVE SlotsDisjoint'
  <2>1. CASE pte[pagesDS[victim].v_address].P
    <3>1. PICK i \in Index :
            pagesDS' = [pagesDS EXCEPT ![i].file_offset = slot, ![i].in_RAM = FALSE]
      BY <1>6, <2>1 DEF swapToFile, First, EntriesFor
    <3>2. Evicting /\ ~ Evicting' /\ UNCHANGED <<availableOffsetQueue, fileOffset>>
      BY <1>6, <2>1 DEF swapToFile, Evicting
    <3>3. slot \in Nat /\ pagesDS \in [Index -> Entry]
      BY DEF TableTypes
    <3>4. /\ pagesDS'[i].file_offset = slot
          /\ \A j \in Index \ {i} : pagesDS'[j] = pagesDS[j]
      BY <3>1, <3>3 DEF Entry
    <3> QED  BY <3>2, <3>3, <3>4 DEF SlotsDisjoint, Swapped
  <2>2. CASE ~ pte[pagesDS[victim].v_address].P
    BY <1>6, <1>k, <2>2 DEF swapToFile, Evicting
  <2> QED  BY <2>1, <2>2
<1>7. ASSUME PageIn PROVE SlotsDisjoint'
  <2>1. CASE EntriesFor(page) = {}
    BY <1>7, <1>k, <2>1 DEF PageIn, ds, Evicting
  <2>2. CASE EntriesFor(page) # {}
    <3>1. PICK i \in Index :
            /\ pagesDS' = [pagesDS EXCEPT ![i].in_RAM = TRUE, ![i].file_offset = -1]
            /\ insertOffsetQueue(pagesDS[i].file_offset)
            /\ Return /\ UNCHANGED fileOffset
      BY <1>7, <2>2 DEF PageIn, First, EntriesFor
    <3>2. ~ Evicting'
      BY <3>1 DEF Return, Evicting
    <3>3. /\ pagesDS'[i].file_offset = -1 /\ i \notin Swapped'
          /\ \A j \in Index \ {i} : pagesDS'[j] = pagesDS[j]
      BY <3>1 DEF TableTypes, Entry, Swapped
    <3> QED  BY <1>0, <3>1, <3>2, <3>3, SlotFreed DEF insertOffsetQueue
  <2> QED  BY <2>1, <2>2
<1>8. ASSUME PageInFails \/ MapPageFails \/ GrowDone \/ ShrinkDone PROVE SlotsDisjoint'
  BY <1>8, <1>k DEF PageInFails, MapPageFails, GrowDone, ShrinkDone, Return, ds, Evicting
<1>9. ASSUME GrowPage PROVE SlotsDisjoint'
  <2>1. CASE NeedsEviction
    <3>1. startSwap(pte)
      BY <1>9, <2>1 DEF GrowPage
    <3> QED  BY <1>0, <3>1, SlotTaken
  <2>2. CASE ~ NeedsEviction
    BY <1>9, <1>k, <2>2 DEF GrowPage, ds, Evicting
  <2> QED  BY <2>1, <2>2
<1>10. ASSUME MapPage PROVE SlotsDisjoint'
  <2> DEFINE free == {i \in Index : ~ pagesDS[i].isAllocated}
  <2>1. CASE free = {}
    BY <1>10, <1>k, <2>1 DEF MapPage, ds, Evicting
  <2>2. CASE free # {}
    <3>1. PICK i \in Index :
            /\ pagesDS' = [pagesDS EXCEPT ![i] =
                  [v_address |-> page, file_offset |-> -1, in_RAM |-> TRUE,
                   isAllocated |-> TRUE, age |-> @.age]]
            /\ pc' = "grow" /\ UNCHANGED <<availableOffsetQueue, fileOffset>>
      BY <1>10, <2>2 DEF MapPage, First
    <3>2. /\ pagesDS'[i].file_offset = -1 /\ i \notin Swapped'
          /\ \A j \in Index \ {i} : pagesDS'[j] = pagesDS[j]
      BY <3>1 DEF TableTypes, Entry, Swapped
    <3>3. ~ Evicting'
      BY <3>1 DEF Evicting
    <3> QED  BY <1>0, <3>1, <3>2, <3>3, SlotFreed
  <2> QED  BY <2>1, <2>2
<1>11. ASSUME ShrinkPage PROVE SlotsDisjoint'
  <2>1. ~ Evicting' /\ UNCHANGED <<pc, fileOffset, slot>>
    BY <1>11 DEF ShrinkPage, Evicting
  <2>2. CASE UNCHANGED <<pagesDS, inRAMQueue, availableOffsetQueue>>
    BY <1>k, <2>1, <2>2
  <2>3. CASE ~ UNCHANGED <<pagesDS, inRAMQueue, availableOffsetQueue>>
    <3>1. PICK i \in Index :
            /\ pagesDS[i].isAllocated
            /\ pagesDS' = [pagesDS EXCEPT ![i] =
                  [v_address |-> 0, file_offset |-> -1, in_RAM |-> FALSE,
                   isAllocated |-> FALSE, age |-> FreshAge]]
            /\ insertOffsetQueue(IF pagesDS[i].in_RAM THEN -1 ELSE pagesDS[i].file_offset)
      BY <1>11, <2>3 DEF ShrinkPage, deallocatePage, First, EntriesFor
    <3>2. /\ pagesDS'[i].file_offset = -1 /\ i \notin Swapped'
          /\ \A j \in Index \ {i} : pagesDS'[j] = pagesDS[j]
      BY <3>1 DEF TableTypes, Entry, Swapped
    <3> QED  BY <1>0, <2>1, <3>1, <3>2, SlotFreed DEF insertOffsetQueue
  <2> QED  BY <2>2, <2>3
<1>12. ASSUME agePages PROVE SlotsDisjoint'
  <2>1. \A i \in Index : /\ pagesDS'[i].file_offset = pagesDS[i].file_offset
                          /\ pagesDS'[i].in_RAM = pagesDS[i].in_RAM
                          /\ pagesDS'[i].isAllocated = pagesDS[i].isAllocated
    BY <1>12 DEF agePages, TableTypes, Entry
  <2> QED  BY <1>0, <1>12, <2>1, SlotsKept DEF agePages, Swapped, Evicting
<1>13. ASSUME Stopped \/ UNCHANGED vars \/ Fork PROVE SlotsDisjoint'
  BY <1>13, <1>k DEF Stopped, Fork, vars, ds, Evicting
<1> QED
  BY <1>1, <1>2, <1>3, <1>4, <1>5, <1>6, <1>7, <1>8, <1>9, <1>10, <1>11, <1>12, <1>13
  DEF ForkNext, Next, Program, Kernel

(* No swap slot ever has two owners, in any process of a lineage: whatever *)
(* the policy, with kalloc failing and the program touching pages it does  *)
(* not have.                                                               *)
THEOREM LineageSlotsDisjoint == ForkSpec => []SlotsDisjoint
<1>1. Init => TableTypes /\ SlotsDisjoint
  BY InitTypes, InitSlots
<1>2. TableTypes /\ SlotsDisjoint /\ [ForkNext]_vars => (TableTypes /\ SlotsDisjoint)'
  BY NextTypes, NextSlots
<1> QED  BY <1>1, <1>2, PTL DEF ForkSpec

(* ... and in a process that does not fork.                                *)
THEOREM PagingSlotsDisjoint == Spec => []SlotsDisjoint
<1>1. Init => TableTypes /\ SlotsDisjoint
  BY InitTypes, InitSlots
<1>2. TableTypes /\ SlotsDisjoint /\ [Next]_vars => (TableTypes /\ SlotsDisjoint)'
  BY NextTypes, NextSlots DEF ForkNext
<1> QED  BY <1>1, <1>2, PTL DEF Spec

-----------------------------------------------------------------------------
(* The rest of the type invariant: page table, swap file, counters, status.*)

Rest ==
  /\ pte \in [Pages -> PTE] /\ swapFile \in Seq(Contents)
  /\ numberOfAllocatedPages \in 0 .. UINT - 1 /\ numberOfPagedOut \in 0 .. UINT - 1
Statuses == {"ok", "corrupt", "overrun", "hung", "panic: no page",
             "panic: inerstion", "panic: offset insert", "panic: deallocate"}

(* Setting A bits keeps a page table a page table... *)
LEMMA TouchedType ==
  ASSUME pte \in [Pages -> PTE], NEW S
  PROVE  Touched(S) \in [Pages -> PTE]
BY DEF Touched, PTE

(* ...and so does clearing them. *)
LEMMA ClearAType ==
  ASSUME NEW t \in [Pages -> PTE], NEW S
  PROVE  ClearA(t, S) \in [Pages -> PTE]
BY DEF ClearA, PTE

(* The page table exec installs is one. *)
LEMMA ImageType == ImagePTE \in [Pages -> PTE]
BY DEF ImagePTE, UserPTE, NoPTE, PTE, Contents

(* The counters wrap, so they stay below UINT. *)
LEMMA CounterType ==
  ASSUME NEW x \in Int
  PROVE  x % UINT \in 0 .. UINT - 1
BY PagingAssumption

(* Choosing a victim disturbs the page table's A bits and the status only. *)
LEMMA SwapRest ==
  ASSUME NEW t \in [Pages -> PTE], status \in Statuses, startSwap(t)
  PROVE  pte' \in [Pages -> PTE] /\ status' \in Statuses
<1>1. CASE inRAMQueue = <<>>
  BY <1>1 DEF startSwap, selectPage, Statuses
<1>2. CASE inRAMQueue # <<>> /\ removeSCFIFO(t)
  BY <1>2, ClearAType DEF removeSCFIFO, Statuses
<1>3. CASE inRAMQueue # <<>> /\ (removeNFUA(t) \/ removeLAPA(t))
  BY <1>3 DEF removeNFUA, removeLAPA, removeSmallest, Statuses
<1>4. CASE inRAMQueue # <<>> /\ removeAQ(t)
  BY <1>4 DEF removeAQ
<1> QED  BY <1>1, <1>2, <1>3, <1>4 DEF startSwap, selectPage

(* Slots of the swap file hold contents of pages, and reading any slot     *)
(* yields some.                                                            *)
LEMMA FileTypes ==
  ASSUME NEW f \in Seq(Contents), NEW s \in Nat \cup {-1}, NEW d \in Contents
  PROVE  FileRead(f, s) \in Contents /\ (s # -1 => FileWrite(f, s, d) \in Seq(Contents))
<1>1. Len(f) \in Nat /\ \A i \in 1 .. Len(f) : f[i] \in Contents
  BY LenProperties, ElementOfSeq
<1>2. FileRead(f, s) \in Contents
  BY <1>1 DEF FileRead, Contents
<1>3. CASE s < Len(f) /\ s # -1
  <2>1. s + 1 \in 1 .. Len(f)
    BY <1>1, <1>3
  <2> QED  BY <1>1, <1>2, <1>3, <2>1, ExceptSeq DEF FileWrite
<1>4. CASE s >= Len(f)
  BY <1>1, <1>2, <1>4, AppendProperties DEF FileWrite
<1> QED  BY <1>1, <1>2, <1>3, <1>4

(* Every step keeps the types of the page table, the swap file, the        *)
(* counters and the status.                                                *)
LEMMA NextRest ==
  TableTypes /\ Rest /\ status \in Statuses /\ [Next]_vars => Rest' /\ status' \in Statuses
<1> SUFFICES ASSUME TableTypes, Rest, status \in Statuses, [Next]_vars
             PROVE  Rest' /\ status' \in Statuses
  OBVIOUS
<1> DEFINE Goal == Rest' /\ status' \in Statuses
<1>0. 0 \in Pages /\ Zero \in Contents
  BY PagingAssumption DEF Pages, Contents
<1>1. ASSUME NEW p \in Pages, Load(p) PROVE Goal
  BY <1>1, TouchedType DEF Load, ds, Rest
<1>2. ASSUME NEW p \in Pages, NEW v \in Values, Store(p, v) PROVE Goal
  <2>1. Touched({0, p}) \in [Pages -> PTE] /\ v \in Contents
    BY TouchedType DEF Rest, Contents
  <2>2. pte' \in [Pages -> PTE]
    BY <1>2, <2>1 DEF Store, PTE
  <2> QED  BY <1>2, <2>2 DEF Store, ds, Rest
<1>3. ASSUME NEW p \in Pages, PageFault(p) PROVE Goal
  <2>1. Touched({0} \ {p}) \in [Pages -> PTE]
    BY TouchedType DEF Rest
  <2>2. CASE AtLimit
    <3>1. startSwap(Touched({0} \ {p})) /\ UNCHANGED swapFile
      BY <1>3, <2>2 DEF PageFault
    <3> QED  BY <2>1, <3>1, SwapRest DEF startSwap, Rest
  <2>3. CASE ~ AtLimit
    BY <1>3, <2>1, <2>3 DEF PageFault, ds, Rest
  <2> QED  BY <2>2, <2>3
<1>4. ASSUME NEW n \in SbrkAmounts, Grow(n) PROVE Goal
  BY <1>4, TouchedType DEF Grow, ds, Rest
<1>5. ASSUME NEW n \in SbrkAmounts, Shrink(n) PROVE Goal
  <2>1. numberOfAllocatedPages - n \div PGSIZE \in Int
    BY PagingAssumption DEF Rest
  <2> QED  BY <1>5, <2>1, TouchedType, CounterType DEF Shrink, Rest
<1>6. ASSUME Exec PROVE Goal
  BY <1>6, ImageType, EmptySeq, PagingAssumption DEF Exec, Rest
<1>7. ASSUME swapToFile PROVE Goal
  <2> DEFINE a == pagesDS[victim].v_address
  <2>1. CASE pte[a].P
    <3>1. a \in Pages /\ pte[a] \in PTE /\ pte[a].data \in Contents
      BY DEF TableTypes, Rest, Entry, PTE
    <3>2. swapFile' \in Seq(Contents)
      BY <1>7, <2>1, <3>1, FileTypes DEF swapToFile, TableTypes, Rest
    <3>3. pte' \in [Pages -> PTE]
      <4>1. /\ pte' = [pte EXCEPT ![a].P = FALSE, ![a].PG = TRUE, ![a].A = TRUE, ![a].data = Zero]
            /\ pte \in [Pages -> PTE]
        BY <1>7, <2>1 DEF swapToFile, Rest
      <4>2. [pte[a] EXCEPT !.P = FALSE, !.PG = TRUE, !.A = TRUE, !.data = Zero] \in PTE
        BY <1>0, <3>1 DEF PTE
      <4> QED  BY <3>1, <4>1, <4>2
    <3>4. numberOfPagedOut' \in 0 .. UINT - 1
      <4>1. numberOfPagedOut + 1 \in Int
        BY PagingAssumption DEF Rest
      <4> QED  BY <1>7, <2>1, <4>1, CounterType DEF swapToFile, OneMorePagedOut
    <3> QED  BY <1>7, <2>1, <3>2, <3>3, <3>4 DEF swapToFile, Rest
  <2>2. CASE ~ pte[a].P
    BY <1>7, <2>2 DEF swapToFile, Rest, Statuses
  <2> QED  BY <2>1, <2>2
<1>8. ASSUME PageIn PROVE Goal
  <2>1. CASE EntriesFor(page) = {}
    BY <1>8, <2>1 DEF PageIn, ds, Rest, Statuses
  <2>2. CASE EntriesFor(page) # {}
    <3>1. PICK i \in Index :
            /\ pte' = [pte EXCEPT ![page] = UserPTE(FileRead(swapFile, pagesDS[i].file_offset))]
            /\ numberOfPagedOut' = (numberOfPagedOut - 1) % UINT
            /\ status' = IF pagesDS[i].file_offset # -1 /\ OffsetQueueFull
                         THEN "panic: offset insert" ELSE InsertStatus(inRAMQueue)
            /\ UNCHANGED <<swapFile, numberOfAllocatedPages>>
      BY <1>8, <2>2 DEF PageIn, First, EntriesFor
    <3>2. FileRead(swapFile, pagesDS[i].file_offset) \in Contents
      BY <1>0, FileTypes DEF TableTypes, Rest, Entry
    <3>3. pte' \in [Pages -> PTE]
      BY <3>1, <3>2 DEF Rest, PTE, UserPTE
    <3>4. numberOfPagedOut' \in 0 .. UINT - 1
      <4>1. numberOfPagedOut - 1 \in Int
        BY PagingAssumption DEF Rest
      <4> QED  BY <3>1, <4>1, CounterType
    <3> QED  BY <3>1, <3>3, <3>4 DEF Rest, Statuses, InsertStatus
  <2> QED  BY <2>1, <2>2
<1>9. ASSUME PageInFails \/ GrowDone \/ ShrinkDone \/ Stopped \/ UNCHANGED vars PROVE Goal
  BY <1>9 DEF PageInFails, GrowDone, ShrinkDone, Stopped, vars, ds, Rest
<1>10. ASSUME MapPageFails PROVE Goal
  <2>1. pte' \in [Pages -> PTE]
    BY <1>0, <1>10 DEF MapPageFails, Rest, NoPTE, PTE
  <2> QED  BY <1>10, <2>1 DEF MapPageFails, ds, Rest
<1>11. ASSUME GrowPage PROVE Goal
  <2>1. CASE NeedsEviction
    <3>1. startSwap(pte) /\ UNCHANGED swapFile
      BY <1>11, <2>1 DEF GrowPage
    <3> QED  BY <3>1, SwapRest DEF startSwap, Rest
  <2>2. CASE ~ NeedsEviction
    BY <1>11, <2>2 DEF GrowPage, ds, Rest
  <2> QED  BY <2>1, <2>2
<1>12. ASSUME MapPage PROVE Goal
  <2>1. CASE {i \in Index : ~ pagesDS[i].isAllocated} = {}
    BY <1>12, <2>1 DEF MapPage, ds, Rest, Statuses
  <2>2. CASE {i \in Index : ~ pagesDS[i].isAllocated} # {}
    <3>1. /\ pte' = [pte EXCEPT ![page] = UserPTE(Zero)]
          /\ numberOfAllocatedPages' = (numberOfAllocatedPages + 1) % UINT
          /\ status' = InsertStatus(inRAMQueue)
          /\ UNCHANGED <<swapFile, numberOfPagedOut>>
      BY <1>12, <2>2 DEF MapPage
    <3>2. pte' \in [Pages -> PTE]
      BY <1>0, <3>1 DEF Rest, PTE, UserPTE
    <3>3. numberOfAllocatedPages' \in 0 .. UINT - 1
      BY <3>1, CounterType, PagingAssumption DEF Rest
    <3> QED  BY <3>1, <3>2, <3>3 DEF Rest, Statuses, InsertStatus
  <2> QED  BY <2>1, <2>2
<1>13. ASSUME ShrinkPage PROVE Goal
  <2>1. pte' \in [Pages -> PTE]
    <3>1. NoPTE \in PTE
      BY <1>0 DEF NoPTE, PTE
    <3> QED  BY <1>13, <3>1 DEF ShrinkPage, Rest
  <2>2. status' \in Statuses
    BY <1>13 DEF ShrinkPage, deallocatePage, Statuses
  <2> QED  BY <1>13, <2>1, <2>2 DEF ShrinkPage, Rest
<1>14. ASSUME agePages PROVE Goal
  BY <1>14, ClearAType DEF agePages, Rest
<1> QED
  BY <1>1, <1>2, <1>3, <1>4, <1>5, <1>6, <1>7, <1>8, <1>9, <1>10, <1>11, <1>12, <1>13, <1>14
  DEF Next, Program, Kernel

(* The state keeps its types: table indices, slots and pages stay in       *)
(* range whatever the program, the scheduler and kalloc do.                *)
THEOREM PagingTypeOK == Spec => []TypeOK
<1>1. Init => TypeOK
  <2> SUFFICES ASSUME Init PROVE TypeOK
    OBVIOUS
  <2>1. Rest /\ status \in Statuses
    BY ImageType, EmptySeq, PagingAssumption DEF Init, Rest, Statuses
  <2> QED  BY <2>1, InitTypes DEF TypeOK, Rest, Statuses
<1>2. TypeOK /\ [Next]_vars => TypeOK'
  BY NextTypes, NextRest DEF ForkNext, TypeOK, Rest, Statuses
<1> QED  BY <1>1, <1>2, PTL DEF Spec

=============================================================================
