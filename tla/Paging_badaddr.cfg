\* The program touches pages it does not have.
SPECIFICATION Spec
CONSTANTS
  MAX_PSYC_PAGES = 3
  MAX_TOTAL_PAGES = 6
  PGSIZE = 1
  UINT = 16
  AgeBits = 1
  Selections = {"SCFIFO"}
  ImagePages = 1
  Text = Text
  Zero = Zero
  Values = {}
  SbrkAmounts = {1}
  SizeBound <- Sizes
  PagedOutBound = 4
  WildAccess = TRUE
  KallocMayFail = FALSE
INVARIANTS BadAddressSurvived
