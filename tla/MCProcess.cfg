SPECIFICATION ProcessSpec
CONSTANTS
  Text <- SampleText
  Blank = ""
  Trim <- SampleTrim
  Sha256 <- SampleSha256
  Decode <- SampleDecode
  Scheme <- SampleScheme
  ConfigOf <- SampleConfigs
  Bytes <- MCBytes
  Names <- MCNames
  Methods <- MCMethods
  Sources <- MCSources
  ConfigFiles <- MCConfigFiles
  NoDigest = NoDigest
  NoScore = NoScore
  NotJSON = NotJSON
  NoEntry = NoEntry
  NoStatement = NoStatement
  NoSnapshot = NoSnapshot
  Unreadable = Unreadable
  Cancelled = Cancelled
  TargetLists <- MCTargetLists
  Callers <- MCCallers
  Interval = TRUE
INVARIANTS
  ProcessTypeOK
  NeverUnavailable
  NothingAfterReturn
  NoHangupLost
  NobodyWaitsInVain
PROPERTY
  SurvivesHangup
