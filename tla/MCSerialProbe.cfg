SPECIFICATION Spec
CONSTANTS
  Bauds <- ThreeRates
  Variants <- AllVariants
  Replies <- AllReplies
  ReadTimeout = 3
  ShortTimeout = 1
  Filtered = TRUE
  MayFail = TRUE
  MaxChunks = 2
INVARIANTS
  ReportedBaud
  AsyncFindsResponsive
  OneProbeAfterCancel
PROPERTIES
  Returns
CHECK_DEADLOCK FALSE
