SPECIFICATION PdfSpec
CONSTANTS
  NumPages = 2
  Reach = 1
  MaxRenders = 1
  MaxRuns = 2
  MaxOpens = 2
  MaxScrolls = 2
INVARIANTS PromptIsOfLatest
CHECK_DEADLOCK FALSE
