\* A lineage of processes, with kalloc failing.
SPECIFICATION ForkSpec
CONSTANTS
  MAX_PSYC_PAGES = 3
  MAX_TOTAL_PAGES = 5
  PGSIZE = 1
  UINT = 16
  AgeBits = 1
  Selections = {"SCFIFO"}
  ImagePages = 1
  Text = Text
  Zero = Zero
  Values = {v}
  SbrkAmounts = {1, 2}
  SizeBound <- Five
  PagedOutBound = 4
  WildAccess = FALSE
  KallocMayFail = TRUE
INVARIANTS ResidentBound SlotsDisjoint PagedOutCountCovers
 
