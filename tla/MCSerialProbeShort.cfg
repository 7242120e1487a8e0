SPECIFICATION Spec
CONSTANTS
  Bauds <- TwoRates
  Variants <- SweepVariant
  Replies <- PunctualReplies
  ReadTimeout = 3
  ShortTimeout = 1
  Filtered = TRUE
  MayFail = FALSE
  MaxChunks = 2
INVARIANTS
  ResponsiveIsFound
CHECK_DEADLOCK FALSE
