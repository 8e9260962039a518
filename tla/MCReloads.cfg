SPECIFICATION FairProcessSpec
CONSTANTS
  Text <- SampleText
  Blank = ""
  Trim <- SampleTrim
  Sha256 <- SampleSha256
  Decode <- SampleDecode
  Scheme <- SampleScheme
  ConfigOf <- SampleConfigs
  Bytes <- MCBytes
  Names <- MCNames
  Methods <- MCMethods
  Sources <- OneSource
  ConfigFiles <- HangupFiles
  NoDigest = NoDigest
  NoScore = NoScore
  NotJSON = NotJSON
  NoEntry = NoEntry
  NoStatement = NoStatement
  NoSnapshot = NoSnapshot
  Unreadable = Unreadable
  Cancelled = Cancelled
  TargetLists <- OneList
  Callers <- OneCaller
  Interval = TRUE
PROPERTIES
  HangupTakesEffect
  IntervalTakesEffect
  DrainEnds
  ShutsDown
