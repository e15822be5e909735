\* The four builds; sizes need not be page multiples.
SPECIFICATION Spec
CONSTANTS
  MAX_PSYC_PAGES = 3
  MAX_TOTAL_PAGES = 6
  PGSIZE = 2
  UINT = 16
  AgeBits = 2
  Selections = {"SCFIFO", "NFUA", "LAPA", "AQ"}
  ImagePages = 1
  Text = Text
  Zero = Zero
  Values = {}
  SbrkAmounts = {2, 3}
  SizeBound <- Sizes
  PagedOutBound = 3
  WildAccess = FALSE
  KallocMayFail = FALSE
INVARIANTS TypeOK ResidentBound QueueHoldsResidents TablesAgree SlotsDisjoint 
