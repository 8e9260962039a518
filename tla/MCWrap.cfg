SPECIFICATION LoaderSpec
CONSTANTS
  MaxInt = 7
  DefaultMaxBytes = 3
  DefaultTimeout = 2
  Limits <- MCWrapLimits
  Timeouts <- MCTimeouts
  MaxLen = 2
  NoDeadline = NoDeadline
INVARIANT ReadsInFull
