SPECIFICATION TamperingSpec
CONSTANTS
  Text <- MCText
  Blank = ""
  Trim <- MCTrim
  Sha256 <- MCSha256
  Decode <- MCDecode
  Bytes = {}
  NoDigest = NoDigest
  NoScore = NoScore
  NotJSON = NotJSON
  VerdictLists <- MCVerdictLists
  MaxEdits = 3
CHECK_DEADLOCK FALSE
INVARIANTS
  CoveredIsDescribed
  CoversItsOwn
  CountsAccountForVerdicts
