SPECIFICATION FairLoaderSpec
CONSTANTS
  MaxInt = 7
  DefaultMaxBytes = 3
  DefaultTimeout = 2
  Limits <- MCLimits
  Timeouts <- MCTimeouts
  MaxLen = 5
  NoDeadline = NoDeadline
INVARIANTS
  LoadedWhole
  ReadIsBounded
  NothingLeftOpen
  LateFetchFails
  GivenItsTime
PROPERTIES
  LoadMovesOn
  SourceSpec
  LoadReturns
  CancelEndsFetch
